------------------------------ MODULE JudgeRuns ------------------------------
(***************************************************************************)
(* The judge runs of one finished session, from the finish to the last     *)
(* verdict.  A (player, task_judge) pair has one judge_results row in the  *)
(* database and no other trace: a run is scheduled only in the memory of   *)
(* the game server, by six drivers that know little of one another:        *)
(*                                                                         *)
(*   task      the socket, when the player's task closed;                  *)
(*   chain     the settle chain finish_session spawns, or the settle sweep *)
(*             resumes: interrupted tasks, then session judges, then the   *)
(*             announcement;                                               *)
(*   startup,                                                              *)
(*   periodic  the recovery sweeps: missed pairs, then orphaned rows;      *)
(*   redrive   the probe ticker, for rows that wait for a participant;     *)
(*   admin     a re-run asked for by hand.                                 *)
(*                                                                         *)
(* A task-scoped judge runs once per pair.  A session-scoped judge makes   *)
(* one pass per player that writes all its pairs.  Time is three ages of   *)
(* the session and three of a `running` row: the floors the sweeps use.    *)
(***************************************************************************)
EXTENDS Integers, FiniteSets

CONSTANTS Completed,      \* task-scoped pairs whose dispatch was spawned
          Interrupted,    \* task-scoped pairs of the task a player was on
          Passes,         \* (player, session-scoped judge)
          PairsOf,        \* the pairs a pass writes
          Deltas,         \* point deltas a verdict may carry
          StableId,       \* GAME_SERVER_ID is configured
          MaxCrashes, MaxReruns, MaxSuspensions, MaxSlow,  \* bounds, each
          MaxDisturbances                                  \* and together

TaskPairs == Completed \cup Interrupted
SessionPairs == UNION {PairsOf[s] : s \in Passes}
Pairs == TaskPairs \cup SessionPairs

ASSUME PairsAssumption ==
  /\ PairsOf \in [Passes -> SUBSET SessionPairs]
  /\ TaskPairs \cap SessionPairs = {}
  /\ \A s, t \in Passes : s # t => PairsOf[s] \cap PairsOf[t] = {}
ASSUME BoundsAssumption ==
  /\ Deltas \subseteq Int /\ StableId \in BOOLEAN
  /\ \A bound \in {MaxCrashes, MaxReruns, MaxSuspensions, MaxSlow, MaxDisturbances} : bound \in Nat

VARIABLES
  row,          \* judge_results.status per pair, "none" without a row
  points,       \* judge_results.point_delta per pair
  rowAge,       \* of a running row: 0, 1 past the 5-minute floor, 2 past 1 h
  run,          \* <<driver, task pair>> -> stage of the run in this process
  pass,         \* <<driver, pass>> -> stage of the pass in this process
  chain,        \* where the settle chain is
  chainTodo,    \* passes run_session_judges has not called yet
  sweep, todo,  \* per sweep: its phase, and what is left of its snapshot
  tick,         \* what is left of the probe ticker's snapshot of waiting rows
  up,           \* the game-server process runs
  ours,         \* sessions.game_server_id is this process's id
  age,          \* of the finish: fresh, old (5 minutes), abandoned (24 hours)
  settled,      \* SessionSettled has been published
  crashes, reruns, suspensions,  \* observability: how many so far
  slow          \* observability: runs that outlived the 5-minute floor

verdicts == <<row, points, rowAge>>
work     == <<run, pass>>
drivers  == <<chain, chainTodo, sweep, todo, tick>>
world    == <<up, ours, age, settled, crashes, reruns, suspensions, slow>>
vars     == <<verdicts, work, drivers, world>>

Drivers  == {"task", "chain", "startup", "periodic", "redrive", "admin"}
Sweeps   == {"startup", "periodic"}
RowStatus == {"none", "running", "waiting", "scored", "failed"}
RunStages  == {"off", "commit", "queued", "judging", "provisional"}
PassStages == {"off", "checked", "judging"}

TypeOK ==
  /\ row \in [Pairs -> RowStatus]
  /\ points \in [Pairs -> Int]
  /\ rowAge \in [Pairs -> 0 .. 2]
  /\ run \in [Drivers \X TaskPairs -> RunStages]
  /\ pass \in [Drivers \X Passes -> PassStages]
  /\ chain \in {"off", "check", "interrupted", "session"}
  /\ chainTodo \subseteq Passes
  /\ sweep \in [Sweeps -> {"boot", "missed", "orphans", "idle"}]
  /\ todo \in [Sweeps -> SUBSET Pairs]
  /\ tick \subseteq TaskPairs
  /\ up \in BOOLEAN /\ ours \in BOOLEAN /\ settled \in BOOLEAN
  /\ age \in {"fresh", "old", "abandoned"}
  /\ crashes \in Nat /\ reruns \in Nat /\ suspensions \in Nat /\ slow \in Nat

NoRuns   == [dp \in Drivers \X TaskPairs |-> "off"]
NoPasses == [ds \in Drivers \X Passes |-> "off"]

(* The session has just finished.  The dispatch of a completed task waits   *)
(* for its commit, or was shed by admission control and will never come.    *)
Init ==
  /\ row = [p \in Pairs |-> "none"]
  /\ points = [p \in Pairs |-> 0]
  /\ rowAge = [p \in Pairs |-> 0]
  /\ \E spawned \in SUBSET Completed :
       run = [dp \in Drivers \X TaskPairs |->
                IF dp[1] = "task" /\ dp[2] \in spawned THEN "commit" ELSE "off"]
  /\ pass = NoPasses
  /\ chain = "check" /\ chainTodo = {}
  /\ sweep = [d \in Sweeps |-> "idle"] /\ todo = [d \in Sweeps |-> {}]
  /\ tick = {}
  /\ up = TRUE /\ ours = TRUE /\ age = "fresh" /\ settled = FALSE
  /\ crashes = 0 /\ reruns = 0 /\ suspensions = 0 /\ slow = 0

\* The bounds of an instance.
Disturbable == crashes + reruns + suspensions + slow < MaxDisturbances
Suspends == /\ Disturbable /\ suspensions < MaxSuspensions
            /\ suspensions' = suspensions + 1

-----------------------------------------------------------------------------
(* The rows                                                                *)

Done(p) == row[p] \in {"scored", "failed"}
Pending == {p \in Pairs : ~Done(p)}

\* Mutant: a status upsert that leaves the previous verdict's points.
RecordStatusOnly(ps, s) ==
  /\ row' = [p \in Pairs |-> IF p \in ps THEN s ELSE row[p]]
  /\ rowAge' = [p \in Pairs |-> IF p \in ps THEN 0 ELSE rowAge[p]]
  /\ UNCHANGED points

\* record_judge_run_status: an upsert that clears the previous verdict.
RecordStatus(ps, s) ==
  /\ row' = [p \in Pairs |-> IF p \in ps THEN s ELSE row[p]]
  /\ points' = [p \in Pairs |-> IF p \in ps THEN 0 ELSE points[p]]
  /\ rowAge' = [p \in Pairs |-> IF p \in ps THEN 0 ELSE rowAge[p]]

\* persist_scored_verdict, of a model, a program or the gate.
PersistScored(p) ==
  /\ row' = [row EXCEPT ![p] = "scored"]
  /\ \E delta \in Deltas : points' = [points EXCEPT ![p] = delta]
  /\ rowAge' = [rowAge EXCEPT ![p] = 0]

-----------------------------------------------------------------------------
(* A task-scoped run                                                       *)

At(d, p, stage)   == run[<<d, p>>] = stage
Move(d, p, stage) == run' = [run EXCEPT ![<<d, p>>] = stage]
RunUnchanged == UNCHANGED <<pass, drivers, up, ours, age, settled, crashes, reruns, slow>>

\* run_task_judges_after_commit: the commit landed, or 90 s went by.
CommitWaitEnds(d, p) ==
  /\ At(d, p, "commit") /\ Move(d, p, "queued")
  /\ UNCHANGED <<verdicts, suspensions>> /\ RunUnchanged

\* No quota left, or a row or the repository is missing.
Deny(d, p) ==
  /\ At(d, p, "queued") /\ Move(d, p, "off")
  /\ RecordStatus({p}, "failed")
  /\ UNCHANGED suspensions /\ RunUnchanged

\* The permit, then the `running` row: whatever the row says by now.
Begin(d, p) ==
  /\ At(d, p, "queued")
  /\ Move(d, p, "judging")
  /\ RecordStatus({p}, "running")
  /\ UNCHANGED suspensions /\ RunUnchanged

Verdict(d, p) ==
  /\ At(d, p, "judging") /\ Move(d, p, "off")
  /\ PersistScored(p)
  /\ UNCHANGED suspensions /\ RunUnchanged

\* A run that asked the participant for something writes a verdict first...
Provisional(d, p) ==
  /\ At(d, p, "judging") /\ Move(d, p, "provisional")
  /\ Suspends /\ PersistScored(p)
  /\ RunUnchanged

\* ... and clears it; a turn-driven run is suspended without one.
Suspend(d, p) ==
  /\ \/ At(d, p, "provisional") /\ UNCHANGED suspensions
     \/ At(d, p, "judging") /\ Suspends
  /\ Move(d, p, "off")
  /\ RecordStatus({p}, "waiting")
  /\ RunUnchanged

\* Mutant: an exhausted run returns without its failed row.
FailSilently(d, p) ==
  /\ At(d, p, "judging") /\ Move(d, p, "off")
  /\ UNCHANGED <<verdicts, suspensions>> /\ RunUnchanged

\* The retries are exhausted, or the error is not retryable.
Fail(d, p) ==
  /\ At(d, p, "judging") /\ Move(d, p, "off")
  /\ RecordStatus({p}, "failed")
  /\ UNCHANGED suspensions /\ RunUnchanged

RunStep(d, p) == \/ CommitWaitEnds(d, p) \/ Deny(d, p) \/ Begin(d, p)
                 \/ Verdict(d, p) \/ Provisional(d, p) \/ Suspend(d, p) \/ Fail(d, p)

-----------------------------------------------------------------------------
(* A session-scoped pass (run_one_session_judge)                           *)

Claimed(s) == \E d \in Drivers : pass[<<d, s>>] = "judging"
PassUnchanged == UNCHANGED <<run, drivers, world>>

\* The terminal guard, on rows read before the claim; a forced run skips it.
Entered(d, s) ==
  [pass EXCEPT ![<<d, s>>] =
     IF d # "admin" /\ \A p \in PairsOf[s] : Done(p) THEN "off" ELSE "checked"]

\* IN_FLIGHT: one pass per (session, player, judge), others are skipped.
ClaimPass(d, s) ==
  /\ pass[<<d, s>>] = "checked"
  /\ pass' = [pass EXCEPT ![<<d, s>>] = IF Claimed(s) THEN "off" ELSE "judging"]
  /\ UNCHANGED verdicts /\ PassUnchanged

\* The runner writes the verdicts of its pairs one by one.
PassVerdict(d, s) ==
  /\ pass[<<d, s>>] = "judging"
  /\ \E p \in PairsOf[s] : PersistScored(p)
  /\ UNCHANGED pass /\ PassUnchanged

\* The pairs this pass did not write are closed as failed.  fail_all (no
\* quota, no repository, a failed run) closes every pair, whatever it says.
EndPass(d, s) ==
  /\ pass[<<d, s>>] = "judging"
  /\ \E closed \in SUBSET PairsOf[s] :
       /\ PairsOf[s] \cap Pending \subseteq closed
       /\ RecordStatus(closed, "failed")
  /\ pass' = [pass EXCEPT ![<<d, s>>] = "off"]
  /\ PassUnchanged

PassStep(d, s) == ClaimPass(d, s) \/ PassVerdict(d, s) \/ EndPass(d, s)

-----------------------------------------------------------------------------
(* The settle chain: expiry_judges_then_award                              *)

\* A driver that awaits its runs and passes goes on when they have ended.
Idle(d) == /\ \A p \in TaskPairs : At(d, p, "off")
           /\ \A s \in Passes : pass[<<d, s>>] = "off"

ChainUnchanged == UNCHANGED <<verdicts, sweep, todo, tick, up, ours, age,
                              crashes, reruns, suspensions, slow>>

\* Mutant: nothing resumes the chain of a session with open pairs.
ChainStartsIfSettled ==
  /\ chain = "check" /\ ours /\ age # "abandoned"
  /\ chain' = "off" /\ settled' = (settled \/ Pending = {})
  /\ UNCHANGED <<chainTodo, work>> /\ ChainUnchanged

\* finish_session, or the settle sweep after a restart: announce at once, or
\* start with the tasks a player was on.  No row is looked at per pair.
ChainStarts ==
  /\ chain = "check" /\ ours /\ age # "abandoned"
  /\ IF Pending = {}
       THEN chain' = "off" /\ settled' = TRUE /\ UNCHANGED run
       ELSE /\ chain' = "interrupted" /\ UNCHANGED settled
            /\ run' = [dp \in Drivers \X TaskPairs |->
                         IF dp[1] = "chain" /\ dp[2] \in Interrupted THEN "commit" ELSE run[dp]]
  /\ UNCHANGED <<chainTodo, pass>> /\ ChainUnchanged

\* The settle sweep does not select the session.
ChainSkipped ==
  /\ chain = "check" /\ (~ours \/ age = "abandoned")
  /\ chain' = "off"
  /\ UNCHANGED <<chainTodo, work, settled>> /\ ChainUnchanged

ChainToSession ==
  /\ chain = "interrupted" /\ Idle("chain")
  /\ chain' = "session" /\ chainTodo' = Passes
  /\ UNCHANGED <<work, settled>> /\ ChainUnchanged

ChainPass(s) ==
  /\ chain = "session" /\ Idle("chain") /\ s \in chainTodo
  /\ chainTodo' = chainTodo \ {s}
  /\ pass' = Entered("chain", s)
  /\ UNCHANGED <<chain, run, settled>> /\ ChainUnchanged

\* The settle poll: nothing is pending, or 10 minutes have passed.
ChainSettles ==
  /\ chain = "session" /\ Idle("chain") /\ chainTodo = {}
  /\ chain' = "off" /\ settled' = TRUE
  /\ UNCHANGED <<chainTodo, work>> /\ ChainUnchanged

Chain == \/ ChainStarts \/ ChainSkipped \/ ChainToSession \/ ChainSettles
         \/ \E s \in Passes : ChainPass(s)

-----------------------------------------------------------------------------
(* Recovery sweeps, one pair after the other, on a snapshot of the rows    *)

SweepUnchanged == UNCHANGED <<verdicts, chain, chainTodo, tick, world>>
Snapshot(d, phase, pairs) ==
  /\ sweep' = [sweep EXCEPT ![d] = phase]
  /\ todo' = [todo EXCEPT ![d] = pairs]

\* enqueue_judge_run routes a session-scoped judge to its pass.
Enqueue(d, p) ==
  IF p \in TaskPairs
    THEN Move(d, p, "queued") /\ UNCHANGED pass
    ELSE /\ \E s \in Passes : p \in PairsOf[s] /\ pass' = Entered(d, s)
         /\ UNCHANGED run

\* Mutants: the periodic sweep without its age floor; no periodic sweep.
MissedAtOnce(d) == IF ours /\ age # "abandoned" THEN Pending ELSE {}
MissedAtStartup(d) == IF ours /\ age # "abandoned" /\ d = "startup" THEN Pending ELSE {}

\* enqueue_missed_judge_runs: pairs of a recently finished session of ours
\* without a terminal row; the periodic sweep waits for the age floor.
Missed(d) ==
  IF ours /\ age # "abandoned" /\ (d = "startup" \/ age = "old") THEN Pending ELSE {}

\* requeue_orphaned_judge_runs; the floor is zero at startup.
Orphans(d) ==
  {p \in Pairs : ours /\ row[p] = "running" /\ (d = "startup" \/ rowAge[p] >= 1)}

SweepMissed(d) ==
  /\ up /\ sweep[d] = (IF d = "startup" THEN "boot" ELSE "idle")
  /\ Snapshot(d, "missed", Missed(d))
  /\ UNCHANGED work /\ SweepUnchanged

SweepDrives(d, p) ==
  /\ Idle(d) /\ p \in todo[d]
  /\ todo' = [todo EXCEPT ![d] = @ \ {p}]
  /\ Enqueue(d, p)
  /\ UNCHANGED sweep /\ SweepUnchanged

SweepOrphans(d) ==
  /\ sweep[d] = "missed" /\ Idle(d) /\ todo[d] = {}
  /\ Snapshot(d, "orphans", Orphans(d))
  /\ UNCHANGED work /\ SweepUnchanged

SweepEnds(d) ==
  /\ sweep[d] = "orphans" /\ Idle(d) /\ todo[d] = {}
  /\ Snapshot(d, "idle", {})
  /\ UNCHANGED work /\ SweepUnchanged

Sweep(d) == \/ SweepMissed(d) \/ SweepOrphans(d) \/ SweepEnds(d)
            \/ \E p \in Pairs : SweepDrives(d, p)

\* fail_abandoned_judge_runs: 24 hours after the finish, whoever owns the
\* session.  Only the status of a running row is set; an insert for a pair
\* without a row does nothing when a row has appeared.
ReapRunning(p) ==
  /\ up /\ age = "abandoned" /\ row[p] = "running" /\ rowAge[p] = 2
  /\ row' = [row EXCEPT ![p] = "failed"] /\ rowAge' = [rowAge EXCEPT ![p] = 0]
  /\ UNCHANGED <<points, work, drivers, world>>

ReapMissing(p) ==
  /\ up /\ age = "abandoned" /\ row[p] = "none"
  /\ row' = [row EXCEPT ![p] = "failed"]
  /\ UNCHANGED <<points, rowAge, work, drivers, world>>

-----------------------------------------------------------------------------
(* The probe ticker, and a re-run by hand                                  *)

Waiting == {p \in TaskPairs : row[p] = "waiting"}

TickReads ==
  /\ up /\ tick = {} /\ Waiting # {}
  /\ tick' = Waiting
  /\ UNCHANGED <<verdicts, work, chain, chainTodo, sweep, todo, world>>

\* claim_redrive: while a re-drive of the pair is in flight, no second one.
\* After the finish every unanswered probe counts as expired.
TickDrives(p) ==
  /\ p \in tick /\ tick' = tick \ {p}
  /\ IF ours /\ At("redrive", p, "off") THEN Move("redrive", p, "queued") ELSE UNCHANGED run
  /\ UNCHANGED <<verdicts, pass, chain, chainTodo, sweep, todo, world>>

Ticker == TickReads \/ \E p \in TaskPairs : TickDrives(p)

Rerun(p) ==
  /\ up /\ Disturbable /\ reruns < MaxReruns /\ Idle("admin")
  /\ reruns' = reruns + 1
  /\ Enqueue("admin", p)
  /\ UNCHANGED <<verdicts, drivers, up, ours, age, settled, crashes, suspensions, slow>>

-----------------------------------------------------------------------------
(* Time, crash and restart                                                 *)

SessionAges ==
  /\ \/ age = "fresh" /\ age' = "old"
     \/ age = "old" /\ age' = "abandoned"
  /\ UNCHANGED <<verdicts, work, drivers, up, ours, settled, crashes, reruns, suspensions, slow>>

Driven(p) == p \in TaskPairs /\ \E d \in Drivers : At(d, p, "judging")

RowAges(p) ==
  /\ row[p] = "running" /\ rowAge[p] < 2
  /\ rowAge' = [rowAge EXCEPT ![p] = @ + 1]
  /\ IF rowAge[p] = 0 /\ Driven(p)
       THEN Disturbable /\ slow < MaxSlow /\ slow' = slow + 1
       ELSE UNCHANGED slow
  /\ UNCHANGED <<row, points, work, drivers, up, ours, age, settled, crashes, reruns, suspensions>>

\* Runs, passes, claims, snapshots and the settle chain are all in memory.
Crash ==
  /\ up /\ Disturbable /\ crashes < MaxCrashes
  /\ up' = FALSE /\ crashes' = crashes + 1
  /\ run' = NoRuns /\ pass' = NoPasses
  /\ chain' = "off" /\ chainTodo' = {} /\ tick' = {}
  /\ sweep' = [d \in Sweeps |-> "idle"] /\ todo' = [d \in Sweeps |-> {}]
  /\ UNCHANGED <<verdicts, ours, age, settled, reruns, suspensions, slow>>

\* The settle sweep and the judge sweeps are spawned side by side.  Without
\* a configured id the process gets a fresh one, and no session is its own.
Restart ==
  /\ ~up /\ up' = TRUE
  /\ ours' = (ours /\ StableId)
  /\ chain' = "check" /\ sweep' = [sweep EXCEPT !["startup"] = "boot"]
  /\ UNCHANGED <<verdicts, work, chainTodo, todo, tick, age, settled, crashes,
                 reruns, suspensions, slow>>

-----------------------------------------------------------------------------
Next == \/ \E d \in Drivers : \/ \E p \in TaskPairs : RunStep(d, p)
                              \/ \E s \in Passes : PassStep(d, s)
        \/ Chain \/ Ticker \/ SessionAges \/ Crash \/ Restart
        \/ \E d \in Sweeps : Sweep(d)
        \/ \E p \in Pairs : ReapRunning(p) \/ ReapMissing(p) \/ Rerun(p) \/ RowAges(p)

Spec == Init /\ [][Next]_vars

\* Spawned tasks and tickers keep running, judges answer or time out, a
\* crashed server is restarted, and time passes: five minutes after the
\* finish, and an hour after a row was last written.
Fairness ==
  /\ \A d \in Drivers : /\ \A p \in TaskPairs : WF_vars(RunStep(d, p))
                        /\ \A s \in Passes : WF_vars(ClaimPass(d, s)) /\ WF_vars(EndPass(d, s))
  /\ \A d \in Sweeps : WF_vars(Sweep(d))
  /\ WF_vars(Chain) /\ WF_vars(Ticker) /\ WF_vars(Restart)
  /\ \A p \in Pairs : WF_vars(ReapRunning(p)) /\ WF_vars(ReapMissing(p)) /\ WF_vars(RowAges(p))
  /\ WF_vars(age = "fresh" /\ SessionAges)

FairSpec == Spec /\ Fairness

-----------------------------------------------------------------------------
(* Safety                                                                  *)

(* Points stand only under a verdict.  The leaderboard sums point_delta     *)
(* over all rows whatever their status, so every status a run, a pass or    *)
(* the reaper writes must have cleared the points of the verdict it         *)
(* replaces; the reaper, which clears nothing, relies on the others.        *)
PointsOnlyUnderVerdict == \A p \in Pairs : points[p] # 0 => row[p] = "scored"

(* Without a crash, a row says `running` only while a run is driving it, so *)
(* the player page never shows "Evaluating..." for a run that is gone.      *)
RunningIsDriven ==
  crashes = 0 =>
    \A p \in Pairs : row[p] = "running" => Driven(p)

(* Before the sweeps' floors are reached, and without a crash or a re-run   *)
(* by hand, a pair has one driver at a time: dispatch, settle chain and     *)
(* re-drives do not meet.  Pairs that were dispatched although the session  *)
(* then finished on their task are the exception.                           *)
OneDriver ==
  crashes = 0 /\ reruns = 0 /\ slow = 0 /\ age = "fresh" =>
    \A p \in TaskPairs \ (Completed \cap Interrupted) :
      Cardinality({d \in Drivers : ~At(d, p, "off")}) <= 1

-----------------------------------------------------------------------------
(* Liveness                                                                *)

(* The standings are announced as final, also when the settle chain dies    *)
(* with the process, as long as the restarted server owns the session and   *)
(* comes back within the recovery window.                                   *)
EventuallySettled == <>(settled \/ ~ours \/ age = "abandoned")

(* With a configured server id, every expected pair ends with a terminal    *)
(* verdict and stays there: no loss of a dispatch, of a run, of a claim or  *)
(* of the whole process leaves a judge pending for ever.                    *)
JudgingConverges == <>[](\A p \in Pairs : Done(p))

-----------------------------------------------------------------------------
(* What the comments say and the code does not do: each is violated        *)

(* "Startup entry point: drives every missing pair immediately (after a     *)
(* restart nothing is running, so nothing can be double-driven)."           *)
StartupDrivesAlone ==
  \A p \in TaskPairs : ~At("startup", p, "off") =>
    \A d \in Drivers \ {"startup"} : At(d, p, "off")

(* "Runs the sweeps above can no longer reach (session outside the recovery *)
(* window, or bound to a dead server id) will never happen - settle them as *)
(* failed so their sessions stop reading as "judges scoring" forever."      *)
AbandonedRunsClose == age = "abandoned" ~> \A p \in Pairs : Done(p)

=============================================================================
