--------------------------- MODULE ProbeExchange ---------------------------
(***************************************************************************)
(* One connection between a game server's player-agent handler and the     *)
(* ololo client, as a timed exchange of probes and answers.                *)
(*                                                                         *)
(* The handler sends one probe, waits for its answer until the deadline    *)
(* (longer, once, while the player is asked whether the command may run),  *)
(* records the answer or "no response", and sleeps for an interval that    *)
(* grows until a probe passes.  The client's loop takes one frame at a     *)
(* time: it commits the tree, perhaps asks the player, runs the command    *)
(* up to the deadline, and answers; probes that arrive meanwhile wait      *)
(* their turn.  A client that once answered late is behind: the answers it *)
(* then sends are to older probes, and the handler takes such an answer    *)
(* for the end of the wait it is in.                                       *)
(*                                                                         *)
(* Time is counted in ticks; within one everything that can happen does,   *)
(* in any order, so frames travel and rows are written in less than a      *)
(* tick.  What may take longer is in the model: commits, prompts,          *)
(* commands, dispatches.  Which test a probe is for, and what happens on a *)
(* second connection, is TaskScheduler's.                                  *)
(***************************************************************************)
EXTENDS Integers, Sequences

CONSTANTS Deadline,      \* deadline_secs of the task
          Window,        \* PROBE_PERMISSION_WAIT_SECS
          MinInterval, MaxInterval, Increment,  \* the task's cadence, as set
          CommitTimes,   \* how long a commit of the tree usually takes
          RunTimes,      \* how long a command usually runs
          SlowCommit,    \* a commit that takes long
          SlowDispatch,  \* a dispatch that takes long: adaptation by a model
          MaxTrouble     \* bound: slow steps, prompts, announcements, drops

ASSUME TimesAssumption ==
  /\ Deadline \in Nat \ {0} /\ Window \in Nat
  /\ CommitTimes \subseteq Nat /\ RunTimes \subseteq 0..Deadline
  /\ SlowCommit \in Nat /\ SlowDispatch \in Nat /\ MaxTrouble \in Nat
ASSUME CadenceAssumption ==
  MinInterval \in Nat /\ MaxInterval \in Nat /\ Increment \in Nat \ {0}

VARIABLES
  srv,       \* the handler: dispatch, wait, sleep, or gone
  left,      \* ticks left in what the handler is in
  extended,  \* permission_extended of the wait it is in
  nudge,     \* completion_flag_nudge of the wait it is in
  interval,  \* current_interval_secs
  cli,       \* the client's loop: idle, commit, ask, run, or off (to redial)
  cleft,     \* ticks left in what the client is doing
  asked,     \* the client told the server that it is asking the player
  behind,    \* probes on the client's socket it has not taken up
  up,        \* frames from the client: kind, and whether the probe it is
             \* about is the latest one dispatched
  last,      \* observability: the outcome recorded last
  trouble    \* observability: slow steps, prompts, announcements, drops

server == <<srv, left, extended, nudge, interval>>
client == <<cli, cleft, asked>>
vars == <<server, client, behind, up, last, trouble>>

Frames == [kind : {"pending", "result", "flag"}, current : BOOLEAN]
Busy   == {"commit", "ask", "run"}

Lower(a, b)  == IF a <= b THEN a ELSE b
Higher(a, b) == IF a <= b THEN b ELSE a

\* clamp_interval_bounds
Least  == Lower(MinInterval, MaxInterval)
Most   == Higher(MinInterval, MaxInterval)
Growth == Lower(Increment, Higher(Most - Least, 1))

TypeOK ==
  /\ srv \in {"dispatch", "wait", "sleep", "gone"} /\ left \in Nat
  /\ extended \in BOOLEAN /\ nudge \in BOOLEAN /\ interval \in Nat
  /\ cli \in Busy \cup {"idle", "off"} /\ cleft \in Nat
  /\ asked \in BOOLEAN /\ behind \in Nat /\ up \in Seq(Frames)
  /\ last \in {"none", "answered", "noResponse"} /\ trouble \in 0..MaxTrouble
  /\ srv = "sleep" => interval \in Least..Most

\* Mutant: the backoff is not stored.
BackoffForgotten(i) == i

\* apply_no_response_backoff, and the same line of a failed answer.
Backoff(i) == Higher(Lower(i + Growth, Most), Least)

\* next_probe_delay_secs; the floor after a pass or a nudge is a second.
Delay(i, now) == IF now THEN 1 ELSE Higher(i, 1)

Init ==
  /\ srv = "dispatch" /\ left = 0 /\ extended = FALSE /\ nudge = FALSE
  /\ interval = 1
  /\ cli = "idle" /\ cleft = 0 /\ asked = FALSE /\ behind = 0 /\ up = <<>>
  /\ last = "none" /\ trouble = 0

Troubled == trouble < MaxTrouble /\ trouble' = trouble + 1
Smooth   == UNCHANGED trouble

-----------------------------------------------------------------------------
(* The handler *)

Stale(frames) == [i \in DOMAIN frames |-> [frames[i] EXCEPT !.current = FALSE]]

\* The probe row, the TestPush, and the start of the wait.
Dispatch ==
  /\ srv = "dispatch" /\ left = 0
  /\ interval' = Higher(interval, Least)
  /\ srv' = "wait" /\ left' = Deadline /\ extended' = FALSE /\ nudge' = FALSE
  /\ behind' = behind + 1 /\ up' = Stale(up)
  /\ UNCHANGED <<client, last>> /\ Smooth

\* grade_test_result and record_no_response: outcome, cadence, and the sleep.
Settle(outcome, passed) ==
  /\ last' = outcome
  /\ interval' = IF passed THEN Least ELSE Backoff(interval)
  /\ srv' = "sleep" /\ left' = Delay(interval', passed \/ nudge)
  /\ nudge' = FALSE /\ UNCHANGED extended

\* Mutant: the extended wait has no room for the command any more.
ExtendByWindow == left' = Window

\* Once per probe, from now: the player's time, then the command's.
Extend == left' = Window + Deadline

\* The wait reads a frame.  An answer to an older probe ends it.
Hear ==
  /\ srv = "wait" /\ up # <<>> /\ up' = Tail(up)
  /\ LET f == Head(up) IN
       \/ /\ f.kind = "flag" /\ nudge' = TRUE
          /\ UNCHANGED <<srv, left, extended, interval, last>>
       \/ /\ f.kind = "pending" /\ f.current /\ ~extended
          /\ extended' = TRUE /\ Extend
          /\ UNCHANGED <<srv, nudge, interval, last>>
       \/ /\ f.kind = "pending" /\ ~(f.current /\ ~extended)
          /\ UNCHANGED <<server, last>>
       \/ /\ f.kind = "result" /\ f.current
          /\ \E passed \in BOOLEAN : Settle("answered", passed)
       \/ f.kind = "result" /\ ~f.current /\ Settle("noResponse", FALSE)
  /\ UNCHANGED <<client, behind>> /\ Smooth

\* The wait is up; a frame that is there by then is read first.
Timeout ==
  /\ srv = "wait" /\ left = 0 /\ up = <<>>
  /\ Settle("noResponse", FALSE)
  /\ UNCHANGED <<client, behind, up>> /\ Smooth

\* The next turn of the loop; it may be long before the dispatch.
NextTurn ==
  /\ srv' = "dispatch" /\ UNCHANGED <<extended, nudge, interval, last>>
  /\ \/ left' = 0 /\ Smooth
     \/ left' = SlowDispatch /\ Troubled

\* drain_during_sleep: only an announcement cuts it, a late answer is dropped.
HearAsleep ==
  /\ srv = "sleep" /\ up # <<>> /\ up' = Tail(up)
  /\ IF Head(up).kind = "flag" THEN NextTurn
       ELSE UNCHANGED <<server, last>> /\ Smooth
  /\ UNCHANGED <<client, behind>>

Wake ==
  /\ srv = "sleep" /\ left = 0 /\ NextTurn
  /\ UNCHANGED <<client, behind, up>>

Handler == Dispatch \/ Hear \/ Timeout \/ HearAsleep \/ Wake

-----------------------------------------------------------------------------
(* The client's loop *)

\* A write on a connection whose other end is gone may fail or be lost.
Write(kind) ==
  IF srv = "gone" THEN UNCHANGED up
    ELSE up' = Append(up, [kind |-> kind, current |-> behind = 0])

Answer ==
  /\ Write("result") /\ asked' = FALSE /\ cleft' = 0
  /\ cli' \in IF srv = "gone" THEN {"idle", "off"} ELSE {"idle"}

\* The next TestPush: the tree is committed before anything else.
Take ==
  /\ cli = "idle" /\ behind > 0
  /\ behind' = behind - 1 /\ cli' = "commit" /\ asked' = FALSE
  /\ \/ cleft' \in CommitTimes /\ Smooth
     \/ cleft' = SlowCommit /\ Troubled
  /\ UNCHANGED <<server, up, last>>

\* run_probe, which kills the command at the deadline.
Run ==
  /\ cli' = "run"
  /\ \/ cleft' \in RunTimes /\ Smooth
     \/ cleft' = Deadline /\ Troubled

\* If the frame cannot be written the prompt has to fit in the deadline.
Ask ==
  /\ cli' = "ask" /\ Write("pending") /\ asked' = (srv # "gone")
  /\ cleft' \in IF srv = "gone" THEN {Deadline, Window} ELSE {Window}

\* permissions::check: allowed, to be asked about, or denied by a rule.
Committed ==
  /\ cli = "commit" /\ cleft = 0
  /\ \/ Run /\ UNCHANGED <<asked, up>>
     \/ Ask /\ Troubled
     \/ Answer /\ Smooth
  /\ UNCHANGED <<server, behind, last>>

\* The player allows the command, or declines it, or does not answer in time.
Decide ==
  /\ cli = "ask"
  /\ \/ Run /\ UNCHANGED <<asked, up>>
     \/ Answer /\ Smooth
  /\ UNCHANGED <<server, behind, last>>

Finish ==
  /\ cli = "run" /\ cleft = 0
  /\ Answer /\ Smooth /\ UNCHANGED <<server, behind, last>>

\* The sync task pushed a completion flag; the loop passes it on when idle.
Announce ==
  /\ cli = "idle" /\ srv # "gone" /\ Write("flag") /\ Troubled
  /\ UNCHANGED <<server, client, behind, last>>

\* The end of the connection is read after the frames before it.
Notice ==
  /\ cli = "idle" /\ behind = 0 /\ srv = "gone"
  /\ cli' = "off" /\ UNCHANGED <<server, cleft, asked, behind, up, last>> /\ Smooth

\* run_connect_loop: a new socket, a new handler, nothing of the old one.
Redial ==
  /\ cli = "off"
  /\ srv' = "dispatch" /\ left' = 0 /\ extended' = FALSE /\ nudge' = FALSE
  /\ interval' = 1 /\ cli' = "idle" /\ behind' = 0 /\ up' = <<>>
  /\ UNCHANGED <<cleft, asked, last>> /\ Smooth

Client == Take \/ Committed \/ Decide \/ Finish \/ Notice \/ Redial

-----------------------------------------------------------------------------
\* The connection breaks, or the handler ends; what is under way is lost.
Drop ==
  /\ srv # "gone" /\ Troubled
  /\ srv' = "gone" /\ left' = 0 /\ up' = <<>>
  /\ UNCHANGED <<extended, nudge, interval, client, behind, last>>

Less(t) == Higher(t - 1, 0)

Tick ==
  /\ srv # "gone" => left > 0
  /\ srv \in {"wait", "sleep"} => up = <<>>
  /\ cli \in Busy => cleft > 0
  /\ cli = "idle" => behind = 0 /\ srv # "gone"
  /\ cli # "off"
  /\ left' = Less(left) /\ cleft' = Less(cleft)
  /\ UNCHANGED <<srv, extended, nudge, interval, cli, asked, behind, up, last>>
  /\ Smooth

Next == Handler \/ Client \/ Announce \/ Drop \/ Tick

Spec == Init /\ [][Next]_vars

\* Tasks of the two processes that run whenever they can, and time passes.
Fairness == WF_vars(Handler) /\ WF_vars(Client) /\ WF_vars(Tick)

FairSpec == Spec /\ Fairness

-----------------------------------------------------------------------------
(* Properties *)

\* While the player is being asked about the handler's probe, or the command
\* they allowed has run time left, the handler does not record "no response":
\* socket.rs:951 extends its wait, grading.rs:745 gives up.
HeardOut ==
  [][Timeout => ~(/\ asked /\ behind = 0
                  /\ cli = "ask" \/ (cli = "run" /\ cleft > 0))]_vars

\* However far a slow commit, a prompt or a long command has put the client
\* behind, once these end the two sides come back into step: answers count
\* for the probes they are to (grading.rs:719, interval.rs:18).
Recovers == <>[](last = "answered")

\* "answer too slowly and it counts as no response" (frontend/src/content/
\* playing/01-how-a-session-works.md:42): nothing else does.
NoResponseIsSilence == [][srv = "wait" /\ Settle("noResponse", FALSE) => left = 0]_vars

=============================================================================
