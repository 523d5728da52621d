---------------------------- MODULE TaskScheduler ----------------------------
(***************************************************************************)
(* How a player's agent is led through the tasks of a project: the loop of *)
(* handle_player_agent_socket over the scheduler row, the tests and probes *)
(* tables and the bonus rows.  A reconnect starts a second handler for the *)
(* player while the first one is still somewhere in its loop; both work on *)
(* the same rows, and the first finds out at the top of its loop.  Every   *)
(* player of a session shares the rows of the tests table.                 *)
(*                                                                         *)
(* A test is its ordinal: the task's own sections are 1, 2, ..., requests  *)
(* that judges register come after FirstRequest.  Judges appear as far as  *)
(* the loop sees them: runs waiting for the commit, and a lifecycle row.   *)
(* The age of a request, of the last delivery and of the hold are flags    *)
(* that say whether the phase cap has passed.                              *)
(***************************************************************************)
EXTENDS Integers, FiniteSets

CONSTANTS
  Players,       \* the players of the session
  Conns,         \* bound: connections, that is handlers, of one behaviour
  Owner,         \* connection -> player
  Projects,      \* the projects a session may have; their `requests' bounds
                 \* what judges register for a task
  FirstRequest,  \* ordinals above it are registered by judges
  MaxProbes,     \* bound: probes sent in the session
  MaxFaults,     \* bound: failed reads and failed inserts
  MaxCrashes     \* bound: crashes of the game server

ASSUME OwnerAssumption == Owner \in [Conns -> Players]
ASSUME ProjectsAssumption ==
  \A pr \in Projects :
    /\ pr.last \in Nat \ {0}
    /\ pr.sections \in [1 .. pr.last -> 1 .. FirstRequest]
    /\ pr.open \subseteq 1 .. pr.last
    /\ pr.setup \in [1 .. pr.last -> 0 .. FirstRequest]
    /\ pr.requests \in [1 .. pr.last -> Nat]
ASSUME BoundsAssumption ==
  {FirstRequest, MaxProbes, MaxFaults, MaxCrashes} \subseteq Nat

Nobody == "nobody"
ASSUME NobodyAssumption == Nobody \notin Conns

VARIABLES
  project,   \* [last, sections and setup section per task, open: open-ended tasks]
  registry,  \* player -> the connection whose channel is registered
  pc,        \* connection -> where its handler is
  at,        \* ... the task it read at the top of its loop, or 0
  seen,      \* ... sections it has inserted; else the probe it waits for
  via,       \* ... completed_via_probe of the close under way
  hold,      \* ... judge_wait: the task held, and whether the cap has elapsed
  sched,     \* player -> the session_scheduler_state row
  tests,     \* task -> the ordinals that have a tests row
  probes,    \* number -> the probes table, in order of dispatch
  count,     \* probes sent so far
  wire,      \* connection -> probes at the agent, unanswered
  inbox,     \* connection -> answers under way to the handler
  bonus,     \* <<player, task>> with a completion_bonus row
  commits,   \* <<player, task>> -> judge runs that wait for the task's commit
  verdict,   \* <<player, task>> -> the lifecycle row of the task's judges
  delivered, \* <<player, task, ordinal>> with an artifact_received row
  expired,   \* <<player, task, ordinal>>: requests that have aged out
  quiet,     \* <<player, task>> without a delivery for a whole cap
  windows,   \* <<player, task>> whose work window has run out
  over,      \* the session has ended
  right,     \* observability: probes the agent answered correctly
  late,      \* observability: connection -> probes sent once superseded
  closed,    \* observability: player -> tasks closed
  told,      \* observability: players who were told to be done
  short,     \* observability: a task closed without all its test rows
  faults,    \* observability: failed reads and inserts
  crashes    \* observability: crashes

handler == <<registry, pc, at, seen, via, hold>>
tables  == <<sched, tests, probes, count, bonus>>
agent   == <<wire, inbox, right>>
judges  == <<commits, verdict>>
ages    == <<delivered, expired, quiet, windows>>
history == <<late, closed, told, short, faults, crashes>>
vars == <<project, handler, tables, agent, judges, ages, over, history>>

Tasks     == 1 .. project.last
Own(t)    == 1 .. project.sections[t]
PT        == Players \X Tasks
Numbers   == 1 .. MaxProbes
Ordinals  == Nat \ {0}
Unsent    == [player |-> Nobody, task |-> 0, item |-> 0, by |-> Nobody, outcome |-> "unsent"]
Outcomes  == {"open", "pass", "error", "no_response"}
Completed == [state |-> "completed", task |-> 0]
Places    == {"off", "top", "bootstrap", "pick", "adapt", "wait", "sleep", "close", "advance",
              "reward", "idle", "ended"}

ProbeRow == {Unsent} \cup [player : Players, task : Tasks, item : Ordinals, by : Conns, outcome : Outcomes]

TypeOK ==
  /\ project \in Projects
  /\ registry \in [Players -> Conns \cup {Nobody}]
  /\ pc \in [Conns -> Places]
  /\ at \in [Conns -> 0 .. project.last] /\ seen \in [Conns -> Nat]
  /\ via \in [Conns -> BOOLEAN]
  /\ hold \in [Conns -> [task : 0 .. project.last, elapsed : BOOLEAN]]
  /\ sched \in [Players -> [state : {"none", "idle", "judging", "completed"}, task : 0 .. project.last]]
  /\ tests \in [Tasks -> SUBSET Ordinals]
  /\ probes \in [Numbers -> ProbeRow] /\ count \in 0 .. MaxProbes
  /\ wire \in [Conns -> SUBSET Numbers] /\ inbox \in [Conns -> SUBSET Numbers]
  /\ right \subseteq Numbers
  /\ bonus \subseteq PT
  /\ commits \in [PT -> Nat]
  /\ verdict \in [PT -> {"none", "running", "concluded"}]
  /\ delivered \subseteq Players \X Tasks \X Ordinals
  /\ expired \subseteq Players \X Tasks \X Ordinals
  /\ quiet \subseteq PT /\ windows \subseteq PT
  /\ over \in BOOLEAN
  /\ late \in [Conns -> Nat]
  /\ closed \in [Players -> 0 .. project.last]
  /\ told \subseteq Players /\ short \in BOOLEAN
  /\ faults \in Nat /\ crashes \in Nat

Init ==
  /\ project \in Projects
  /\ registry = [p \in Players |-> Nobody]
  /\ pc = [c \in Conns |-> "off"]
  /\ at = [c \in Conns |-> 0] /\ seen = [c \in Conns |-> 0]
  /\ via = [c \in Conns |-> FALSE]
  /\ hold = [c \in Conns |-> [task |-> 0, elapsed |-> FALSE]]
  /\ sched = [p \in Players |-> [state |-> "none", task |-> 0]]
  /\ tests = [t \in Tasks |-> {}]
  /\ probes = [n \in Numbers |-> Unsent] /\ count = 0
  /\ wire = [c \in Conns |-> {}] /\ inbox = [c \in Conns |-> {}] /\ right = {}
  /\ bonus = {}
  /\ commits = [x \in PT |-> 0]
  /\ verdict = [x \in PT |-> "none"]
  /\ delivered = {} /\ expired = {} /\ quiet = PT /\ windows = {} /\ over = FALSE
  /\ late = [c \in Conns |-> 0] /\ closed = [p \in Players |-> 0]
  /\ told = {} /\ short = FALSE /\ faults = 0 /\ crashes = 0

-----------------------------------------------------------------------------
(* What the queries over tests and probes return                           *)

Of(p, t, o) == {n \in Numbers : probes[n].player = p /\ probes[n].task = t /\ probes[n].item = o}

Passed(p, t, o) == \E n \in Of(p, t, o) : probes[n].outcome = "pass"

Newest(S) == CHOOSE n \in S \cup {0} : \A m \in S : m <= n
Lowest(S) == CHOOSE o \in S : \A q \in S : o <= q

OpenRequests(p, t) ==
  {o \in tests[t] : o > FirstRequest /\ <<p, t, o>> \notin expired /\ ~Passed(p, t, o)}

\* Open requests take turns: never handed over first, then the one handed
\* over longest ago; equals in the order they were registered.
Turn(p, t) ==
  {o \in OpenRequests(p, t) : \A q \in OpenRequests(p, t) \ {o} :
     \/ Newest(Of(p, t, o)) < Newest(Of(p, t, q))
     \/ Newest(Of(p, t, o)) = Newest(Of(p, t, q)) /\ o < q}

Elsewhere(p, t) == \E u \in Tasks \ {t} : OpenRequests(p, u) # {}

Open(t) == t \in project.open
CompletionPassed(p, t) == project.sections[t] \in tests[t] /\ Passed(p, t, project.sections[t])

\* The classic rule: the first test without a pass...
Unpassed(p, t) == {o \in tests[t] : ~Passed(p, t, o)}

\* ... but a retry in a task with a setup section replays the script from
\* the setup on: after a failure the setup is next, after a pass the section
\* behind it, up to the failed one.
Resolved(p, t) ==
  {n \in Numbers : /\ probes[n].player = p /\ probes[n].task = t
                   /\ probes[n].item \in Own(t) /\ probes[n].outcome # "open"}

\* Mutant: the first section is asked again, whatever has passed.
FirstAgain(p, t) == Lowest(tests[t])

ClassicNext(p, t) ==
  LET o == Lowest(Unpassed(p, t))
      s == project.setup[t]
      n == Newest(Resolved(p, t))
  IN IF o > FirstRequest \/ s = 0 \/ s >= o \/ n = 0 THEN o
     ELSE IF probes[n].outcome # "pass" THEN s
     ELSE IF probes[n].item >= s /\ probes[n].item + 1 < o THEN probes[n].item + 1
     ELSE o

-----------------------------------------------------------------------------
(* The loop: its top                                                       *)

Goto(c, place) == pc' = [pc EXCEPT ![c] = place]

NoHold == [task |-> 0, elapsed |-> FALSE]

\* The handler returns or breaks; its guard frees the registry entry if it
\* is still its own.
End(c) ==
  /\ Goto(c, "ended")
  /\ registry' = [registry EXCEPT ![Owner[c]] = IF @ = c THEN Nobody ELSE @]
  /\ at' = [at EXCEPT ![c] = 0] /\ seen' = [seen EXCEPT ![c] = 0]
  /\ via' = [via EXCEPT ![c] = FALSE] /\ hold' = [hold EXCEPT ![c] = NoHold]
  /\ wire' = [wire EXCEPT ![c] = {}] /\ inbox' = [inbox EXCEPT ![c] = {}]

\* A client connects; an older handler of the player is not told, but the
\* agent does no more for it.
Connect(c) ==
  /\ pc[c] = "off" /\ ~over
  /\ Goto(c, "top")
  /\ registry' = [registry EXCEPT ![Owner[c]] = c]
  /\ wire' = [d \in Conns |-> IF Owner[d] = Owner[c] THEN {} ELSE wire[d]]
  /\ UNCHANGED <<project, at, seen, via, hold, tables, inbox, right, judges, ages, over, history>>

\* The agent closes its connection.
Leave(c) ==
  /\ pc[c] \in {"wait", "sleep", "idle"}
  /\ End(c)
  /\ UNCHANGED <<project, tables, right, judges, ages, over, history>>

\* Mutant: a superseded handler goes on.
AlwaysCurrent(c) == TRUE

\* is_current_connection
Current(c) == registry[Owner[c]] = c

\* Superseded, or the session has ended.
TopEnds(c) ==
  /\ pc[c] = "top" /\ (~Current(c) \/ over)
  /\ End(c)
  /\ UNCHANGED <<project, tables, right, judges, ages, over, history>>

Done(p) == sched[p].state = "completed"

\* resolve_current_task_id: a completed player keeps the socket and gets no
\* task; a missing row is bootstrapped.
TopResolves(c) ==
  LET row == sched[Owner[c]]
  IN /\ pc[c] = "top" /\ Current(c) /\ ~over
     /\ Goto(c, IF Done(Owner[c]) THEN "idle" ELSE IF row.task = 0 THEN "bootstrap" ELSE "pick")
     /\ at' = [at EXCEPT ![c] = IF Done(Owner[c]) THEN 0 ELSE row.task]
     /\ UNCHANGED <<project, registry, seen, via, hold, tables, agent, judges, ages, over,
                    late, closed, told, short, faults, crashes>>

\* bootstrap_scheduler_state, after its lookups: whatever row there is now is
\* put on the first task.
Bootstrap(c) ==
  /\ pc[c] = "bootstrap" /\ Goto(c, "pick")
  /\ sched' = [sched EXCEPT ![Owner[c]] = [state |-> "idle", task |-> 1]]
  /\ at' = [at EXCEPT ![c] = 1]
  /\ UNCHANGED <<project, registry, seen, via, hold, tests, probes, count, bonus, agent, judges, ages, over, history>>

IdleEnds(c) ==
  /\ pc[c] = "idle" /\ over
  /\ End(c)
  /\ UNCHANGED <<project, tables, right, judges, ages, over, history>>

-----------------------------------------------------------------------------
(* Picking and sending a probe                                             *)

\* The probes row, the TestPush frame, and the wait for the answer.
Dispatch(c, t, o) ==
  /\ count < MaxProbes
  /\ LET n == count + 1
     IN /\ probes' = [probes EXCEPT ![n] = [player |-> Owner[c], task |-> t, item |-> o,
                                            by |-> c, outcome |-> "open"]]
        /\ count' = n
        /\ seen' = [seen EXCEPT ![c] = n]
        /\ wire' = [wire EXCEPT ![c] = @ \cup {n}]
  /\ Goto(c, "wait")
  /\ late' = [late EXCEPT ![c] = IF registry[Owner[c]] = c THEN @ ELSE @ + 1]
  /\ UNCHANGED <<project, registry, at, via, hold, sched, tests, bonus, inbox, right, judges, ages, over,
                 closed, told, short, faults, crashes>>

\* Mutant: a task cut by its window is rewarded like a completed one.
CloseRewarded(c, completed) ==
  /\ Goto(c, "close")
  /\ via' = [via EXCEPT ![c] = TRUE]
  /\ UNCHANGED <<project, registry, at, seen, hold, tables, agent, judges, ages, over,
                 late, closed, told, crashes>>

\* No test to dispatch: the task is to be closed.
Close(c, completed) ==
  /\ Goto(c, "close")
  /\ via' = [via EXCEPT ![c] = completed]
  /\ UNCHANGED <<project, registry, at, seen, hold, tables, agent, judges, ages, over,
                 late, closed, told, crashes>>

\* Requests of other tasks ride this task's queue.
PickElsewhere(c) ==
  /\ pc[c] = "pick"
  /\ \E t \in Tasks \ {at[c]} : \E o \in Turn(Owner[c], t) : Dispatch(c, t, o)

\* An open-ended task: its judges' requests, then the completion section (its
\* last one), a due section first; closed once completed or out of time.
PickOpen(c) ==
  LET p == Owner[c]
      t == at[c]
      done == CompletionPassed(p, t)
  IN /\ pc[c] = "pick" /\ Open(t) /\ ~Elsewhere(p, t)
     /\ \/ \E o \in Turn(p, t) : Dispatch(c, t, o)
        \/ /\ OpenRequests(p, t) = {} /\ (done \/ <<p, t>> \in windows)
           /\ Close(c, done) /\ UNCHANGED <<short, faults>>
        \/ /\ OpenRequests(p, t) = {} /\ ~done /\ <<p, t>> \notin windows
           /\ project.sections[t] \in tests[t]
           /\ \E o \in Own(t) \cap tests[t] : Dispatch(c, t, o)

\* The classic rule, also for an open-ended task without its completion row.
PickClassic(c) ==
  LET p == Owner[c]
      t == at[c]
  IN /\ pc[c] = "pick" /\ ~Elsewhere(p, t)
     /\ Open(t) => /\ OpenRequests(p, t) = {} /\ <<p, t>> \notin windows
                   /\ project.sections[t] \notin tests[t]
     /\ \/ /\ tests[t] = {} /\ Goto(c, "adapt") /\ seen' = [seen EXCEPT ![c] = 0]
           /\ UNCHANGED <<project, registry, at, via, hold, tables, agent, judges, ages, over, history>>
        \/ tests[t] # {} /\ Unpassed(p, t) # {} /\ Dispatch(c, t, ClassicNext(p, t))
        \/ tests[t] # {} /\ Unpassed(p, t) = {} /\ Close(c, TRUE)
           /\ short' = (short \/ ~(Own(t) \subseteq tests[t])) /\ UNCHANGED faults

\* A failed read of the tests reads as "all passed".
PickFails(c) ==
  /\ pc[c] = "pick" /\ faults < MaxFaults
  /\ ~Open(at[c]) /\ ~Elsewhere(Owner[c], at[c])
  /\ faults' = faults + 1 /\ UNCHANGED short
  /\ Close(c, TRUE)

\* ensure_adapted_test: rows another handler has inserted are used as they
\* are; otherwise one insert per section, the first of them dispatched.
AdaptFound(c) ==
  /\ pc[c] = "adapt" /\ seen[c] = 0 /\ tests[at[c]] # {}
  /\ Dispatch(c, at[c], Lowest(tests[at[c]]))

AdaptInserts(c) ==
  LET t == at[c]
      s == seen[c] + 1
  IN /\ pc[c] = "adapt" /\ s \in Own(t) /\ (seen[c] = 0 => tests[t] = {})
     /\ \/ /\ s \in tests[t]
           /\ End(c) /\ UNCHANGED <<tests, right>>
        \/ /\ s \notin tests[t]
           /\ tests' = [tests EXCEPT ![t] = @ \cup {s}]
           /\ seen' = [seen EXCEPT ![c] = s]
           /\ UNCHANGED <<pc, at, via, hold, registry, agent>>
     /\ UNCHANGED <<project, sched, probes, count, bonus, judges, ages, over, history>>

AdaptFails(c) ==
  /\ pc[c] = "adapt" /\ faults < MaxFaults /\ faults' = faults + 1
  /\ End(c)
  /\ UNCHANGED <<project, tables, right, judges, ages, over,
                 late, closed, told, short, crashes>>

AdaptDone(c) ==
  /\ pc[c] = "adapt" /\ seen[c] = project.sections[at[c]]
  /\ Dispatch(c, at[c], 1)

-----------------------------------------------------------------------------
(* The agent and the answer                                                *)

\* The agent works for the connection it opened last.
Answer(c, n, correct) ==
  /\ n \in wire[c] /\ registry[Owner[c]] = c
  /\ wire' = [wire EXCEPT ![c] = @ \ {n}]
  /\ inbox' = [inbox EXCEPT ![c] = @ \cup {n}]
  /\ right' = IF correct THEN right \cup {n} ELSE right
  /\ UNCHANGED <<project, handler, tables, judges, ages, over, history>>

\* Mutant: an answer is graded whichever probe it belongs to.
GradeAny(n, m) == IF m \in right THEN "pass" ELSE "error"

\* grade_test_result: any other frame is silence for the probe in flight.
Grade(n, m) == IF m # n THEN "no_response" ELSE IF m \in right THEN "pass" ELSE "error"

\* The update is conditional: a probe that was resolved meanwhile stays.
Resolve(n, outcome) ==
  probes' = [probes EXCEPT ![n].outcome = IF @ = "open" THEN outcome ELSE @]

\* Until the next pass of the loop.
Rest(c) ==
  /\ Goto(c, "sleep")
  /\ at' = [at EXCEPT ![c] = 0] /\ seen' = [seen EXCEPT ![c] = 0]

Receive(c, m) ==
  /\ m \in inbox[c] /\ inbox' = [inbox EXCEPT ![c] = @ \ {m}]
  /\ \/ pc[c] = "wait" /\ Rest(c) /\ Resolve(seen[c], Grade(seen[c], m))
     \/ pc[c] = "sleep" /\ UNCHANGED <<pc, at, seen, probes>>
  /\ UNCHANGED <<project, registry, via, hold, sched, tests, count, bonus, wire, right,
                 judges, ages, over, history>>

Timeout(c) ==
  /\ pc[c] = "wait" /\ Rest(c)
  /\ Resolve(seen[c], "no_response")
  /\ UNCHANGED <<project, registry, via, hold, sched, tests, count, bonus, agent,
                 judges, ages, over, history>>

\* The interval elapses, or a completion flag cuts it short.
Wake(c) ==
  /\ pc[c] = "sleep" /\ Goto(c, "top")
  /\ UNCHANGED <<project, registry, at, seen, via, hold, tables, agent, judges, ages, over, history>>

-----------------------------------------------------------------------------
(* Closing a task                                                          *)

\* spawn_task_judges, which sheds the run when too many are admitted.
FireJudges(p, t) ==
  \/ commits' = [commits EXCEPT ![<<p, t>>] = @ + 1]
  \/ UNCHANGED commits

\* judge_runs_started: a lifecycle row, which a run inserts after its wait
\* for the commit.
Started(p, t) == verdict[<<p, t>>] # "none"

FireUnlessStarted(p, t) ==
  IF Started(p, t) THEN UNCHANGED commits ELSE FireJudges(p, t)

\* Only the last task holds the player while its judges look.
Held(t) == Open(t) /\ t = project.last

MarkJudging(p) ==
  sched' = [sched EXCEPT ![p] = IF @.state = "completed" THEN @ ELSE [@ EXCEPT !.state = "judging"]]

CloseUnheld(c) ==
  /\ pc[c] = "close" /\ ~Held(at[c]) /\ Goto(c, "advance")
  /\ hold' = [hold EXCEPT ![c] = NoHold]
  /\ IF Open(at[c]) THEN FireUnlessStarted(Owner[c], at[c]) ELSE UNCHANGED commits
  /\ UNCHANGED <<project, registry, at, seen, via, tables, agent, verdict, ages, over, history>>

\* The first pass of this connection over the held task.
HoldStarts(c) ==
  /\ pc[c] = "close" /\ Held(at[c]) /\ hold[c].task # at[c] /\ Rest(c)
  /\ FireUnlessStarted(Owner[c], at[c])
  /\ hold' = [hold EXCEPT ![c] = [task |-> at[c], elapsed |-> FALSE]]
  /\ MarkJudging(Owner[c])
  /\ UNCHANGED <<project, registry, via, tests, probes, count, bonus, agent, verdict, ages,
                 over, history>>

\* judge_probes_settled, for a task that has judges.
Settled(p, t) == verdict[<<p, t>>] = "concluded" /\ OpenRequests(p, t) = {}

\* Mutant: only settled judges release the player.
NeverCapped(c) == FALSE

\* The cap runs from the start of the hold and from the last delivery.
Capped(c) == hold[c].elapsed /\ <<Owner[c], at[c]>> \in quiet

HoldGoesOn(c) ==
  /\ pc[c] = "close" /\ Held(at[c]) /\ hold[c].task = at[c]
  /\ ~Settled(Owner[c], at[c]) /\ ~Capped(c)
  /\ Rest(c) /\ MarkJudging(Owner[c])
  /\ UNCHANGED <<project, registry, via, hold, tests, probes, count, bonus, agent, judges,
                 ages, over, history>>

\* What is still open of the unpassed requests counts as silence.
HoldEnds(c) ==
  LET p == Owner[c]
      t == at[c]
  IN /\ pc[c] = "close" /\ Held(t) /\ hold[c].task = t
     /\ Settled(p, t) \/ Capped(c)
     /\ Goto(c, "advance")
     /\ probes' = [n \in Numbers |->
          IF /\ probes[n].player = p /\ probes[n].task = t /\ probes[n].item > FirstRequest
             /\ probes[n].outcome = "open" /\ ~Passed(p, t, probes[n].item)
            THEN [probes[n] EXCEPT !.outcome = "no_response"] ELSE probes[n]]
     /\ hold' = [hold EXCEPT ![c] = NoHold]
     /\ UNCHANGED <<project, registry, at, seen, via, sched, tests, count, bonus, agent, judges, ages,
                    over, history>>

\* Mutant: a task is skipped.
Skips(t, failed) ==
  IF failed \/ t + 2 > project.last THEN Completed ELSE [state |-> "idle", task |-> t + 2]

\* A failed query for the next task reads as "there is none".
After(t, failed) ==
  IF failed \/ t = project.last THEN Completed ELSE [state |-> "idle", task |-> t + 1]

\* advance_to_next_task from the task the handler is at, wherever the row has
\* got to.
Advance(c) ==
  LET p == Owner[c]
      t == at[c]
  IN \E failed \in {FALSE} \cup (IF faults < MaxFaults THEN {TRUE} ELSE {}) :
     LET done == After(t, failed) = Completed
     IN /\ pc[c] = "advance" /\ Goto(c, "reward")
        /\ sched' = [sched EXCEPT ![p] = After(t, failed)]
        /\ seen' = [seen EXCEPT ![c] = IF done THEN 1 ELSE 0]
        /\ closed' = [closed EXCEPT ![p] = IF t > @ THEN t ELSE @]
        /\ told' = IF done THEN told \cup {p} ELSE told
        /\ faults' = IF failed THEN faults + 1 ELSE faults
        /\ UNCHANGED <<project, registry, at, via, hold, tests, probes, count, bonus, agent, judges, ages,
                       over, late, short, crashes>>

\* The bonus goes to who completed the task, at most once (the unique index);
\* a classic task's judges fire now; a player without a next task idles.
Reward(c) ==
  LET p == Owner[c]
      t == at[c]
  IN /\ pc[c] = "reward" /\ Goto(c, IF seen[c] = 1 THEN "idle" ELSE "top")
     /\ at' = [at EXCEPT ![c] = 0] /\ seen' = [seen EXCEPT ![c] = 0]
     /\ via' = [via EXCEPT ![c] = FALSE]
     /\ bonus' = IF via[c] THEN bonus \cup {<<p, t>>} ELSE bonus
     /\ IF Open(t) THEN UNCHANGED commits ELSE FireJudges(p, t)
     /\ UNCHANGED <<project, registry, hold, sched, tests, probes, count, agent, verdict,
                    ages, over, history>>

-----------------------------------------------------------------------------
(* The judges, as far as the loop sees them                                *)

CommitSeen(p, t) ==
  /\ commits[<<p, t>>] > 0 /\ commits' = [commits EXCEPT ![<<p, t>>] = @ - 1]
  /\ verdict' = [verdict EXCEPT ![<<p, t>>] = "running"]
  /\ UNCHANGED <<project, handler, tables, agent, ages, over, history>>

JudgeConcludes(p, t) ==
  /\ verdict[<<p, t>>] = "running"
  /\ verdict' = [verdict EXCEPT ![<<p, t>>] = "concluded"]
  /\ UNCHANGED <<project, handler, tables, agent, commits, ages, over, history>>

\* A judge at work registers a request while the participant is there.
Register(p, t) ==
  LET o == FirstRequest + Cardinality({q \in tests[t] : q > FirstRequest}) + 1
  IN /\ verdict[<<p, t>>] = "running" /\ registry[p] # Nobody /\ ~over
     /\ o <= FirstRequest + project.requests[t]
     /\ tests' = [tests EXCEPT ![t] = @ \cup {o}]
     /\ UNCHANGED <<project, handler, sched, probes, count, bonus, agent, judges, ages, over, history>>

\* The requested files arrive: unanswered and early polls pass, and the
\* clocks of the task's requests start again from here.
Deliver(p, t, o) ==
  /\ o > FirstRequest /\ <<p, t, o>> \notin delivered /\ Of(p, t, o) # {}
  /\ probes' = [n \in Numbers |-> IF n \in Of(p, t, o) /\ probes[n].outcome \in {"open", "error"}
                                    THEN [probes[n] EXCEPT !.outcome = "pass"] ELSE probes[n]]
  /\ delivered' = delivered \cup {<<p, t, o>>}
  /\ quiet' = quiet \ {<<p, t>>}
  /\ expired' = {x \in expired : x[1] # p \/ x[2] # t}
  /\ UNCHANGED <<project, handler, sched, tests, count, bonus, agent, judges, windows, over, history>>

-----------------------------------------------------------------------------
(* Time, the end, a crash                                                  *)

\* The hold of this connection is as old as the cap.
Elapse(c) ==
  /\ hold[c].task # 0 /\ ~hold[c].elapsed
  /\ hold' = [hold EXCEPT ![c].elapsed = TRUE]
  /\ UNCHANGED <<project, registry, pc, at, seen, via, tables, agent, judges, ages, over, history>>

GoQuiet(p, t) ==
  /\ <<p, t>> \notin quiet /\ quiet' = quiet \cup {<<p, t>>}
  /\ UNCHANGED <<project, handler, tables, agent, judges, delivered, expired, windows, over, history>>

\* A request ages out a whole cap after it was registered and after the
\* last delivery.
Expire(p, t, o) ==
  /\ o \in tests[t] /\ o > FirstRequest /\ <<p, t>> \in quiet
  /\ <<p, t, o>> \notin expired /\ expired' = expired \cup {<<p, t, o>>}
  /\ UNCHANGED <<project, handler, tables, agent, judges, delivered, quiet, windows, over, history>>

\* completion.deadline_secs after task_started.
RunOut(p, t) ==
  /\ Open(t) /\ sched[p].task = t
  /\ <<p, t>> \notin windows /\ windows' = windows \cup {<<p, t>>}
  /\ UNCHANGED <<project, handler, tables, agent, judges, delivered, expired, quiet, over, history>>

EndSession ==
  /\ ~over /\ over' = TRUE
  /\ UNCHANGED <<project, handler, tables, agent, judges, ages, history>>

\* Handlers, registry and judge runs are gone; the tables stay.
Crash ==
  /\ crashes < MaxCrashes /\ crashes' = crashes + 1
  /\ pc' = [c \in Conns |-> IF pc[c] = "off" THEN "off" ELSE "ended"]
  /\ registry' = [p \in Players |-> Nobody]
  /\ at' = [c \in Conns |-> 0] /\ seen' = [c \in Conns |-> 0]
  /\ via' = [c \in Conns |-> FALSE] /\ hold' = [c \in Conns |-> NoHold]
  /\ wire' = [c \in Conns |-> {}] /\ inbox' = [c \in Conns |-> {}]
  /\ commits' = [x \in PT |-> 0]
  /\ UNCHANGED <<project, tables, right, verdict, ages, over,
                 late, closed, told, short, faults>>

-----------------------------------------------------------------------------
\* What a handler does of itself, the deadline of a wait included.
Step(c) ==
  \/ TopEnds(c) \/ TopResolves(c) \/ Bootstrap(c) \/ IdleEnds(c)
  \/ PickElsewhere(c) \/ PickOpen(c) \/ PickClassic(c)
  \/ AdaptFound(c) \/ AdaptInserts(c) \/ AdaptDone(c)
  \/ Timeout(c) \/ Wake(c)
  \/ CloseUnheld(c) \/ HoldStarts(c) \/ HoldGoesOn(c) \/ HoldEnds(c)
  \/ Advance(c) \/ Reward(c)

Client(c) ==
  \/ Connect(c) \/ Leave(c)
  \/ \E n \in Numbers : \/ \E correct \in BOOLEAN : Answer(c, n, correct)
                        \/ Receive(c, n)

Judging(p, t) ==
  \/ CommitSeen(p, t) \/ JudgeConcludes(p, t) \/ Register(p, t)
  \/ \E o \in tests[t] : Deliver(p, t, o)

Time(p, t) == GoQuiet(p, t) \/ RunOut(p, t) \/ \E o \in tests[t] : Expire(p, t, o)

Next ==
  \/ \E c \in Conns : Step(c) \/ Client(c) \/ PickFails(c) \/ AdaptFails(c) \/ Elapse(c)
  \/ \E p \in Players : \E t \in Tasks : Judging(p, t) \/ Time(p, t)
  \/ EndSession \/ Crash

Spec == Init /\ [][Next]_vars

\* Handlers run on and time passes.  No client has to answer or to stay, no
\* judge has to conclude.
Fairness ==
  /\ \A c \in Conns : WF_vars(Step(c)) /\ WF_vars(Elapse(c))
  /\ \A p \in Players : \A t \in UNION {1 .. pr.last : pr \in Projects} :
       WF_vars(t \in Tasks /\ (GoQuiet(p, t) \/ \E o \in tests[t] : Expire(p, t, o)))

FairSpec == Spec /\ Fairness

-----------------------------------------------------------------------------
(* Safety                                                                  *)

(* Nobody passes by an answer to something else: a section has a pass only  *)
(* if the agent answered that very probe correctly, however late answers    *)
(* cross the wait of the next probe, or of another connection's.            *)
PassMeansAnswer ==
  \A n \in 1 .. count : probes[n].outcome = "pass" =>
    n \in right \/ <<probes[n].player, probes[n].task, probes[n].item>> \in delivered

(* A section is paid for twice only when two handlers of the player had it  *)
(* in flight at once: a handler never asks again for what has passed,       *)
(* unless the task is one that replays its setup (and those pay nothing).   *)
PaidTwiceOnlyByOverlap ==
  \A n \in 1 .. count : \A m \in 1 .. n - 1 :
    /\ probes[n].outcome = "pass" /\ probes[m].outcome = "pass"
    /\ probes[n].player = probes[m].player /\ probes[n].task = probes[m].task
    /\ probes[n].item = probes[m].item /\ probes[n].item \in Own(probes[n].task)
    /\ project.setup[probes[n].task] = 0 /\ ~Open(probes[n].task)
    => probes[n].by # probes[m].by

(* A superseded handler sends at most one more probe to the agent: it is    *)
(* stopped at the top of its loop, wherever it was when it was superseded.  *)
OneProbeOnceSuperseded == \A c \in Conns : late[c] <= 1

(* The bonus is for completing: whoever has it passed what the task asks    *)
(* for, and whoever closed a task that way has it or is about to get it.    *)
(* A failed read and a task entered by two players at once are the          *)
(* exceptions on one side, a crash before the payment on the other.         *)
Complete(p, t) == IF Open(t) THEN CompletionPassed(p, t) ELSE \A o \in Own(t) : Passed(p, t, o)

BonusIsForCompleting ==
  \A p \in Players : \A t \in Tasks :
    /\ <<p, t>> \in bonus => Complete(p, t) \/ short \/ faults > 0
    /\ closed[p] >= t /\ Complete(p, t) /\ <<p, t>> \notin bonus =>
         \/ crashes > 0
         \/ <<p, t>> \in windows
         \/ \E c \in Conns : Owner[c] = p /\ at[c] = t /\ pc[c] = "reward"

(* Tasks close in order and when they are done, and a player is told to be  *)
(* done after the last of them: the loop implements TaskOrder.              *)
PassedSections(p) ==
  {<<probes[n].task, probes[n].item>> :
     n \in {m \in 1 .. count : /\ probes[m].player = p /\ probes[m].outcome = "pass"
                               /\ probes[m].item \in Own(probes[m].task)}}

Order == INSTANCE TaskOrder WITH
  passed  <- [p \in Players |-> PassedSections(p)],
  windows <- [p \in Players |-> {t \in Tasks : <<p, t>> \in windows}],
  faulty  <- short \/ faults > 0

KeepsOrder == Order!Spec

-----------------------------------------------------------------------------
(* Liveness                                                                *)

(* The judge phase does not hold a player for ever: judges that never       *)
(* answer, requests nobody delivers and deliveries that keep the phase open *)
(* notwithstanding, a player who stays connected is released.               *)
HeldIsReleased ==
  \A p \in Players :
    sched[p].state = "judging" ~> sched[p].state # "judging" \/ over \/ registry[p] = Nobody

-----------------------------------------------------------------------------
(* What a comment says and the code does not do: violated                  *)

(* "Snapshot + judges fire once; the task is then HELD while judges         *)
(* investigate", and judge_runs_started knows of a firing before a          *)
(* reconnect.                                                               *)
JudgesFireOnce ==
  \A p \in Players : \A t \in Tasks :
    Held(t) => commits[<<p, t>>] + (IF Started(p, t) THEN 1 ELSE 0) <= 1

=============================================================================
