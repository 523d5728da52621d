--------------------------- MODULE ArtifactRequests ---------------------------
(***************************************************************************)
(* What the judges of one task ask of one participant, and how a judge     *)
(* that asked comes to its verdict.  A judge's run may register requests   *)
(* (rows of `tests'): a capture to be saved as a file, or a command to be  *)
(* run.  The participant's queue polls a request by sending probes; a poll *)
(* of a capture passes when the file is in the worktree, and the file      *)
(* itself arrives later, by git, where the ticker's sweep finds it.  A run *)
(* that waits for something ends `waiting', and the ticker re-drives the   *)
(* judge once everything it waits for is answered or has run out of time.  *)
(*                                                                         *)
(* The judges run concurrently over the same rows.  A request is its       *)
(* ordinal, from 1.  The age of a request past the cap of the judge phase  *)
(* is a flag; so is whether an earlier poll was graded `error'.            *)
(***************************************************************************)
EXTENDS Integers, FiniteSets

CONSTANTS Judges,
          Captures, Commands,  \* the instructions a judge may come up with
          AsksOf,              \* judge -> the instructions it may come up with
          KindOf,              \* capture -> its content type
          Budget,              \* judge -> max_interactive
          Limit,               \* the task's limit on captures
          MaxRequests, MaxPolls  \* bounds

Asks == Captures \cup Commands

ASSUME AsksAssumption ==
  /\ Captures \cap Commands = {}
  /\ AsksOf \in [Judges -> SUBSET Asks]
ASSUME BoundsAssumption ==
  /\ Budget \in [Judges -> Nat] /\ {Limit, MaxRequests, MaxPolls} \subseteq Nat
  /\ IsFiniteSet(Judges) /\ Judges # {}

VARIABLES
  count,     \* requests registered so far
  asked,     \* request -> who asked for what
  latest,    \* request -> the outcome of its latest probe
  polls,     \* request -> probes sent for it
  failed,    \* requests with a probe graded `error'
  passed,    \* requests with a probe that passed
  recorded,  \* requests with a probe that names its file
  file,      \* request -> the capture: no, saved, pushed
  aged,      \* requests past the cap of the judge phase
  watchers,  \* <<judge, request>>: attached to another judge's request
  row,       \* judge -> status of its judge_results row
  partial,   \* judges whose verdict is marked partial
  run,       \* judge -> its run in this process
  session,   \* running, away (the agent is disconnected), paused, over
  moved      \* the participant works on a later task

requests == <<count, asked, watchers>>
answers  == <<latest, polls, failed, passed, recorded, file, aged>>
judging  == <<row, partial, run>>
world    == <<session, moved>>
vars     == <<requests, answers, judging, world>>

Numbers  == 1 .. MaxRequests
Existing == 1 .. count
Stages   == {"free", "queued", "judging", "looking", "number", "insert", "marking"}
Idle     == [stage |-> "free", ask |-> "", confirm |-> FALSE, saw |-> {}, ordinal |-> 0,
             pending |-> FALSE, made |-> {}, mark |-> FALSE]

TypeOK ==
  /\ count \in 0 .. MaxRequests
  /\ asked \in [Numbers -> [judge : Judges \cup {""}, ask : Asks \cup {""}]]
  /\ \A n \in Existing : asked[n] \in [judge : Judges, ask : Asks]
  /\ latest \in [Numbers -> {"none", "open", "error", "no_response", "pass"}]
  /\ polls \in [Numbers -> 0 .. MaxPolls]
  /\ file \in [Numbers -> {"no", "saved", "pushed"}]
  /\ failed \subseteq Existing /\ passed \subseteq Existing
  /\ recorded \subseteq Existing /\ aged \subseteq Existing
  /\ watchers \subseteq Judges \X Existing
  /\ row \in [Judges -> {"none", "running", "waiting", "scored", "failed"}]
  /\ partial \subseteq Judges
  /\ run \in [Judges -> [stage : Stages, ask : Asks \cup {""}, confirm : BOOLEAN,
                         saw : SUBSET Existing, ordinal : 0 .. MaxRequests,
                         pending : BOOLEAN, made : SUBSET Existing, mark : BOOLEAN]]
  /\ session \in {"running", "away", "paused", "over"}
  /\ moved \in BOOLEAN

\* The task has closed, and its judges wait for a permit.
Init ==
  /\ count = 0
  /\ asked = [n \in Numbers |-> [judge |-> "", ask |-> ""]]
  /\ latest = [n \in Numbers |-> "none"] /\ polls = [n \in Numbers |-> 0]
  /\ failed = {} /\ passed = {} /\ recorded = {} /\ aged = {}
  /\ file = [n \in Numbers |-> "no"]
  /\ watchers = {}
  /\ row = [j \in Judges |-> "none"] /\ partial = {}
  /\ run = [j \in Judges |-> [Idle EXCEPT !.stage = "queued"]]
  /\ session = "running" /\ moved = FALSE

-----------------------------------------------------------------------------
(* What the queries return                                                 *)

Capture(n)  == asked[n].ask \in Captures
OwnOf(j)    == {n \in Existing : asked[n].judge = j}
Watched(j)  == {n \in Existing : <<j, n>> \in watchers}
Awaited(j)  == OwnOf(j) \cup Watched(j)
Running     == session \in {"running", "away"}
Unanswered  == {n \in Existing : latest[n] \in {"none", "open"}}

\* earlier_ask_aged_out
AgedOut(j) == \E n \in Awaited(j) : Capture(n) /\ n \notin passed /\ n \in aged

\* register: two asks do not survive the participant's move to a later task.
Admitted(j, a) == moved => a \in Captures /\ ~AgedOut(j)

\* The open requests of the same kind that a run may join: its own first.
Joinable(j) ==
  LET open == {n \in run[j].saw \ run[j].made :
                 n \in Unanswered /\ KindOf[asked[n].ask] = KindOf[run[j].ask]}
      own  == {n \in open : asked[n].judge = j}
  IN  IF own # {} THEN own ELSE open

Mine(j) == {n \in run[j].saw : asked[n].judge = j}

\* Mutant: the budget is that of one run.
BudgetPerRun(j) ==
  /\ Cardinality(Mine(j) \cap run[j].made) < Budget[j]
  /\ Cardinality(run[j].saw) < Limit

Affordable(j) ==
  /\ Cardinality(Mine(j)) < Budget[j]
  /\ Cardinality(run[j].saw) < Limit

-----------------------------------------------------------------------------
(* A judge's run                                                           *)

Set(j, r) == run' = [run EXCEPT ![j] = r]
At(j, stage) == run[j].stage = stage
Answer(j) == Set(j, [run[j] EXCEPT !.stage = "judging", !.ask = "", !.confirm = FALSE, !.saw = {}])
Wait(j)   == Set(j, [run[j] EXCEPT !.stage = "judging", !.ask = "", !.confirm = FALSE, !.saw = {},
                                   !.pending = TRUE])

\* The permit of the judge queue: the row says running.
Permit(j) ==
  /\ At(j, "queued")
  /\ Set(j, [run[j] EXCEPT !.stage = "judging"])
  /\ row' = [row EXCEPT ![j] = "running"]
  /\ UNCHANGED <<requests, answers, partial, world>>

\* register_interactive up to the list of the task's captures.
AskCapture(j, a, confirm) ==
  /\ At(j, "judging") /\ a \in AsksOf[j] \cap Captures
  /\ Admitted(j, a) /\ session # "over"
  /\ Set(j, [run[j] EXCEPT !.stage = "looking", !.ask = a, !.confirm = confirm,
                           !.saw = {n \in Existing : Capture(n)}])
  /\ UNCHANGED <<requests, answers, row, partial, world>>

\* The same instruction as before: pending only while its latest probe is out.
AskedBefore(j) ==
  /\ At(j, "looking")
  /\ \E n \in Mine(j) :
       /\ asked[n].ask = run[j].ask
       /\ IF latest[n] = "open" THEN Wait(j) ELSE Answer(j)
  /\ UNCHANGED <<requests, answers, row, partial, world>>

New(j) == \A n \in Mine(j) : asked[n].ask # run[j].ask

\* An open request of the same kind is taken for the same ask.
JoinOpen(j) ==
  /\ At(j, "looking") /\ New(j) /\ ~run[j].confirm
  /\ \E n \in Joinable(j) :
       watchers' = IF asked[n].judge = j THEN watchers ELSE watchers \cup {<<j, n>>}
  /\ Wait(j)
  /\ UNCHANGED <<count, asked, answers, row, partial, world>>

\* Nobody could answer, no budget is left, or what was delivered may do.
MayAsk(j) ==
  /\ session = "running"
  /\ Affordable(j)
  /\ run[j].confirm \/ recorded \cap {n \in Existing : Capture(n)} = {}

Alone(j) == run[j].confirm \/ Joinable(j) = {}

Refuse(j) ==
  /\ At(j, "looking") /\ New(j) /\ Alone(j) /\ ~MayAsk(j)
  /\ Answer(j)
  /\ UNCHANGED <<requests, answers, row, partial, world>>

AskNew(j) ==
  /\ At(j, "looking") /\ New(j) /\ Alone(j) /\ MayAsk(j)
  /\ Set(j, [run[j] EXCEPT !.stage = "number", !.confirm = FALSE, !.saw = {}])
  /\ UNCHANGED <<requests, answers, row, partial, world>>

\* register_deterministic: no budget, no limit, and no look at the session.
AskCommand(j, a) ==
  /\ At(j, "judging") /\ a \in AsksOf[j] \cap Commands /\ Admitted(j, a)
  /\ Set(j, [run[j] EXCEPT !.stage = "number", !.ask = a])
  /\ UNCHANGED <<requests, answers, row, partial, world>>

Number(j) ==
  /\ At(j, "number")
  /\ count < MaxRequests
  /\ Set(j, [run[j] EXCEPT !.stage = "insert", !.ordinal = count + 1])
  /\ UNCHANGED <<requests, answers, row, partial, world>>

\* The insert fails when another judge has taken the ordinal meanwhile.
Insert(j) ==
  /\ At(j, "insert")
  /\ IF run[j].ordinal = count + 1
       THEN /\ count' = count + 1
            /\ asked' = [asked EXCEPT ![count + 1] = [judge |-> j, ask |-> run[j].ask]]
            /\ Set(j, [run[j] EXCEPT !.stage = "judging", !.ask = "", !.ordinal = 0,
                                     !.pending = TRUE, !.made = @ \cup {count + 1}])
       ELSE /\ Set(j, [run[j] EXCEPT !.stage = "judging", !.ask = "", !.ordinal = 0])
            /\ UNCHANGED <<count, asked>>
  /\ UNCHANGED <<watchers, answers, row, partial, world>>

\* The run returns: it waits, or its verdict is written, in full at first.
Conclude(j) ==
  /\ At(j, "judging")
  /\ row' = [row EXCEPT ![j] = IF run[j].pending THEN "waiting" ELSE "scored"]
  /\ partial' = partial \ {j}
  /\ Set(j, IF run[j].mark THEN [Idle EXCEPT !.stage = "marking"] ELSE Idle)
  /\ UNCHANGED <<requests, answers, world>>

Fail(j) ==
  /\ At(j, "judging")
  /\ row' = [row EXCEPT ![j] = "failed"]
  /\ Set(j, Idle)
  /\ UNCHANGED <<requests, answers, partial, world>>

\* The re-drive marks a verdict that stands on less than the judge asked for.
Mark(j) ==
  /\ At(j, "marking")
  /\ partial' = IF row[j] = "scored" THEN partial \cup {j} ELSE partial
  /\ Set(j, Idle)
  /\ UNCHANGED <<requests, answers, row, world>>

-----------------------------------------------------------------------------
(* The ticker                                                              *)

Answered(n) == n \in passed \/ (~Capture(n) /\ latest[n] = "error")
Silent(n)   == ~Answered(n) /\ latest[n] = "no_response"
GivenUp(n)  == ~Answered(n) /\ ~Silent(n) /\ (~Running \/ n \in aged)

\* Mutant: what a judge attached to is not waited for.
RedriveOwn(j) ==
  /\ row[j] = "waiting" /\ At(j, "free")
  /\ \A n \in OwnOf(j) : Answered(n) \/ Silent(n) \/ GivenUp(n)
  /\ Set(j, [Idle EXCEPT !.stage = "queued",
                         !.mark = \E n \in OwnOf(j) : Silent(n) \/ GivenUp(n)])
  /\ UNCHANGED <<requests, answers, row, partial, world>>

\* Mutant: the age of a request does not end the wait for it.
RedriveUnaged(j) ==
  /\ row[j] = "waiting" /\ At(j, "free")
  /\ \A n \in Awaited(j) : Answered(n) \/ Silent(n) \/ ~Running
  /\ Set(j, [Idle EXCEPT !.stage = "queued", !.mark = \E n \in Awaited(j) : ~Answered(n)])
  /\ UNCHANGED <<requests, answers, row, partial, world>>

\* redrive_waiting_judges: one run at a time, the claim is held to its end.
Redrive(j) ==
  /\ row[j] = "waiting" /\ At(j, "free")
  /\ \A n \in Awaited(j) : Answered(n) \/ Silent(n) \/ GivenUp(n)
  /\ Set(j, [Idle EXCEPT !.stage = "queued",
                         !.mark = \E n \in Awaited(j) : Silent(n) \/ GivenUp(n)])
  /\ UNCHANGED <<requests, answers, row, partial, world>>

\* resolve_pending_artifacts: the probes of a request that are unresolved or
\* graded `error' pass, others stand; the first file of a request is announced,
\* and the clock of every request of the task starts again.
Sweep(n) ==
  /\ n \in Existing /\ Capture(n) /\ file[n] = "pushed"
  /\ latest[n] # "none"
  /\ n \notin recorded \/ latest[n] = "open"
  /\ recorded' = recorded \cup {n}
  /\ passed' = IF latest[n] \in {"open", "error"} \/ n \in failed THEN passed \cup {n} ELSE passed
  /\ latest' = [latest EXCEPT ![n] = IF @ \in {"open", "error"} THEN "pass" ELSE @]
  /\ failed' = failed \ {n}
  /\ aged' = IF n \in recorded THEN aged ELSE {}
  /\ UNCHANGED <<requests, polls, file, judging, world>>

\* resolve_interactive_timeouts, and the loop's own rule for a command.
Silence(n) ==
  /\ n \in Existing /\ latest[n] = "open"
  /\ latest' = [latest EXCEPT ![n] = "no_response"]
  /\ UNCHANGED <<requests, polls, failed, passed, recorded, file, aged, judging, world>>

-----------------------------------------------------------------------------
(* The participant and the clock                                           *)

\* oldest_unpassed_judge_test: a request past the cap is sent no more.
Poll(n) ==
  /\ n \in Existing /\ session = "running"
  /\ latest[n] # "open" /\ n \notin passed \cup aged
  /\ polls[n] < MaxPolls
  /\ latest' = [latest EXCEPT ![n] = "open"]
  /\ polls' = [polls EXCEPT ![n] = @ + 1]
  /\ UNCHANGED <<requests, failed, passed, recorded, file, aged, judging, world>>

\* The check of a capture passes once the file is in the worktree.
Reply(n, good) ==
  /\ n \in Existing /\ latest[n] = "open" /\ session = "running"
  /\ Capture(n) => good = (file[n] # "no")
  /\ latest' = [latest EXCEPT ![n] = IF good THEN "pass" ELSE "error"]
  /\ passed' = IF good THEN passed \cup {n} ELSE passed
  /\ failed' = IF good THEN failed ELSE failed \cup {n}
  /\ UNCHANGED <<requests, polls, recorded, file, aged, judging, world>>

Save(n) ==
  /\ n \in Existing /\ Capture(n) /\ file[n] = "no" /\ polls[n] > 0
  /\ file' = [file EXCEPT ![n] = "saved"]
  /\ UNCHANGED <<requests, latest, polls, failed, passed, recorded, aged, judging, world>>

Push(n) ==
  /\ n \in Existing /\ file[n] = "saved"
  /\ file' = [file EXCEPT ![n] = "pushed"]
  /\ UNCHANGED <<requests, latest, polls, failed, passed, recorded, aged, judging, world>>

\* The clocks of two requests run from their registration or from the same
\* delivery: an older one is past the cap first.
Age(n) ==
  /\ n \in Existing \ aged /\ 1 .. n - 1 \subseteq aged
  /\ aged' = aged \cup {n}
  /\ UNCHANGED <<requests, latest, polls, failed, passed, recorded, file, judging, world>>

\* Pause, drop of the agent, and their ends; the end of the session is final.
SessionMoves ==
  /\ session # "over"
  /\ \/ session = "running" /\ session' \in {"away", "paused", "over"}
     \/ session # "running" /\ session' \in {"running", "over"}
  /\ UNCHANGED <<requests, answers, judging, moved>>

MoveOn ==
  /\ ~moved /\ moved' = TRUE
  /\ UNCHANGED <<requests, answers, judging, session>>

-----------------------------------------------------------------------------
RunStep(j) ==
  \/ Permit(j)
  \/ \E a \in Asks, confirm \in BOOLEAN : AskCapture(j, a, confirm)
  \/ \E a \in Asks : AskCommand(j, a)
  \/ AskedBefore(j) \/ JoinOpen(j) \/ Refuse(j) \/ AskNew(j)
  \/ Number(j) \/ Insert(j) \/ Conclude(j) \/ Fail(j) \/ Mark(j)

Delivery(n) ==
  \/ Sweep(n) \/ Silence(n) \/ Poll(n)
  \/ \E good \in BOOLEAN : Reply(n, good)
  \/ Save(n) \/ Push(n) \/ Age(n)

Next ==
  \/ \E j \in Judges : RunStep(j) \/ Redrive(j)
  \/ \E n \in Numbers : Delivery(n)
  \/ SessionMoves \/ MoveOn

Spec == Init /\ [][Next]_vars

\* The ticker ticks, time passes, and the queue grants its permits.
Fairness ==
  /\ \A j \in Judges : WF_vars(Redrive(j)) /\ WF_vars(Permit(j)) /\ WF_vars(Mark(j))
  /\ \A n \in Numbers : WF_vars(Age(n))

FairSpec == Spec /\ Fairness

-----------------------------------------------------------------------------
(* Properties                                                              *)

\* However the judges' runs, re-drives and failed inserts interleave, no judge
\* has asked for more captures than its budget, and the judges together exceed
\* the task's limit by no more than one look each (register_interactive reads
\* the list of requests long before it inserts one).
Asked(j) == {n \in OwnOf(j) : Capture(n)}
AsksBounded ==
  /\ \A j \in Judges : Cardinality(Asked(j)) <= Budget[j]
  /\ Cardinality({n \in Existing : Capture(n)}) <= Limit + Cardinality(Judges) - 1

\* A verdict that stands in full was written after everything the judge asked
\* for, itself or by joining another judge's request, had been answered: by a
\* pass or, for a command, by its failure.  A judge that was left without
\* something is marked partial, whichever run came last and whatever arrived
\* or ran out of time around it (redrive_waiting_judges).
Heard(n) == n \in passed \/ (~Capture(n) /\ n \in failed)
FullVerdictHeardAll ==
  \A j \in Judges \ partial :
    row[j] = "scored" /\ At(j, "free") => \A n \in Awaited(j) : Heard(n)

\* No judge waits for ever: whatever the participant does, and without the
\* session having to end, the row of a waiting judge is taken up again.
EveryWaitEnds == \A j \in Judges : row[j] = "waiting" ~> row[j] # "waiting"
===============================================================================
