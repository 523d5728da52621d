----------------------------- MODULE PauseClock -----------------------------
(***************************************************************************)
(* The running time of one started session: the timestamps PATCH writes on *)
(* pause and resume, the restart a player's first dispatch writes, and the *)
(* remaining time every countdown recomputes from them (compute_remaining  *)
(* in the game server, recompute_remaining in the main server; one         *)
(* formula).                                                               *)
(*                                                                         *)
(* Time is counted in ticks, Ticks of them to the second.  The timestamps  *)
(* are exact; every difference the code takes is cut to whole seconds      *)
(* (num_seconds), and that is where the countdown and the time really      *)
(* played can drift apart.  One writer at a time: the races of the status  *)
(* column are the subject of SessionLifecycle.                             *)
(***************************************************************************)
EXTENDS Integers

CONSTANTS Ticks,       \* ticks per second
          Durations,   \* project durations in seconds, as edited
          MaxTime,     \* bound: the clock stops here
          MaxPauses    \* bound: pauses completed

ASSUME TicksAssumption == Ticks \in Nat \ {0}
ASSUME DurationsAssumption == Durations \subseteq Nat
ASSUME BoundsAssumption == MaxTime \in Nat /\ MaxPauses \in Nat

VARIABLES
  now,        \* the clock, in ticks
  status,     \* Running, Paused or Finished
  duration,   \* projects.default_session_duration_secs, re-read every tick
  startedAt,  \* sessions.started_at
  pausedAt,   \* sessions.paused_at; kept while Running, read while Paused
  paused,     \* sessions.paused_duration_secs
  ran,        \* observability: ticks really spent Running since started_at
  forgotten,  \* observability: ticks of pause a repeated PATCH forgot
  credit,     \* observability: `paused` when started_at was last written
  pauses      \* observability: pauses completed

observed == <<ran, forgotten, credit, pauses>>
vars == <<now, status, duration, startedAt, pausedAt, paused, observed>>

TypeOK ==
  /\ now \in Nat
  /\ status \in {"Running", "Paused", "Finished"}
  /\ duration \in Durations
  /\ startedAt \in Nat /\ pausedAt \in Nat /\ paused \in Nat
  /\ ran \in Nat /\ forgotten \in Nat /\ credit \in Nat /\ pauses \in Nat

Clamp(x) == IF x < 0 THEN 0 ELSE x

\* signed_duration_since(..).num_seconds(), of a non-negative difference.
Seconds(from, to) == (to - from) \div Ticks

\* max(0, duration - elapsed + paused), `elapsed` up to `at`.
ComputeRemaining(at) == Clamp(duration - Seconds(startedAt, at) + paused)

\* What the countdown frames carry: frozen at paused_at while Paused.
Shown == ComputeRemaining(IF status = "Paused" THEN pausedAt ELSE now)

-----------------------------------------------------------------------------
Init ==
  /\ now \in 0 .. Ticks - 1
  /\ status = "Running"
  /\ duration \in Durations
  /\ startedAt = now /\ pausedAt = now /\ paused = 0
  /\ ran = 0 /\ forgotten = 0 /\ credit = 0 /\ pauses = 0

Tick ==
  /\ now < MaxTime
  /\ now' = now + 1
  /\ ran' = ran + IF status = "Running" THEN 1 ELSE 0
  /\ UNCHANGED <<status, duration, startedAt, pausedAt, paused, forgotten, credit, pauses>>

\* PATCH status=paused; the same-status request passes validation too, and
\* moves paused_at over the pause so far.
Pause ==
  /\ status \in {"Running", "Paused"}
  /\ status' = "Paused" /\ pausedAt' = now
  /\ forgotten' = forgotten + IF status = "Paused" THEN now - pausedAt ELSE 0
  /\ UNCHANGED <<now, duration, startedAt, paused, ran, credit, pauses>>

\* Mutant: the pause window is measured from the start of the session.
WindowFromStart(at) == Clamp(Seconds(startedAt, at))

\* (now - paused_at).num_seconds().max(0)
Window(at) == Clamp(Seconds(pausedAt, at))

\* PATCH status=running on a paused session.
Resume ==
  /\ status = "Paused" /\ pauses < MaxPauses
  /\ status' = "Running"
  /\ paused' = paused + Window(now)
  /\ pauses' = pauses + 1
  /\ UNCHANGED <<now, duration, startedAt, pausedAt, ran, forgotten, credit>>

\* A player's first dispatch in a paused session (ensure_session_running):
\* started_at moves, paused_duration_secs stays.
FirstDispatch ==
  /\ status = "Paused" /\ pauses < MaxPauses
  /\ status' = "Running" /\ startedAt' = now
  /\ ran' = 0 /\ forgotten' = 0 /\ credit' = paused /\ pauses' = pauses + 1
  /\ UNCHANGED <<now, duration, pausedAt, paused>>

\* The owner edits the project; the countdowns see it on their next tick.
EditDuration ==
  /\ status # "Finished"
  /\ duration' \in Durations
  /\ UNCHANGED <<now, status, startedAt, pausedAt, paused, observed>>

TimeIsUp(at) == ComputeRemaining(at) <= 0

\* A running timer's tick that reaches zero, and finish_session.
Expire ==
  /\ status = "Running" /\ TimeIsUp(now)
  /\ status' = "Finished"
  /\ UNCHANGED <<now, duration, startedAt, pausedAt, paused, observed>>

Next == Tick \/ Pause \/ Resume \/ FirstDispatch \/ EditDuration \/ Expire

Spec == Init /\ [][Next]_vars

-----------------------------------------------------------------------------
(* The timestamps account for the time really played: besides the pauses   *)
(* a repeated PATCH forgot and those counted before started_at moved, the   *)
(* only drift is the part of a second each completed pause is cut by.       *)
ClockAccountsForPlay ==
  LET upTo == IF status = "Paused" THEN pausedAt ELSE now
      drift == upTo - startedAt - Ticks * (paused - credit) - ran - forgotten IN
  status # "Finished" => drift \in 0 .. pauses * (Ticks - 1)

(* No session is cut short, since it last started, by more than the seconds *)
(* its pauses were cut by and the pauses that were forgotten, whatever the  *)
(* owner did with pause, resume and the project's duration.                 *)
NeverCutShort ==
  status = "Finished" =>
    ran >= Ticks * (duration + credit) - forgotten - pauses * (Ticks - 1)

(* The countdown never goes up while the duration and the start are left    *)
(* alone: not over a pause and resume, nor over a repeated pause.           *)
CountdownNeverRises ==
  [][duration' = duration /\ startedAt' = startedAt /\ status' # "Finished"
       => Shown' <= Shown]_vars

=============================================================================
