--------------------------- MODULE JudgeRunsProofs ---------------------------
(***************************************************************************)
(* What holds of JudgeRuns for every set of pairs and passes, every number *)
(* of crashes, re-runs and suspensions: type correctness, points only      *)
(* under a verdict, and no `running` row without its run.                  *)
(***************************************************************************)
EXTENDS JudgeRuns, FiniteSetTheorems, TLAPS

(* A status upsert, and a scored verdict, keep the rows typed.              *)
LEMMA RecordTyped ==
  ASSUME TypeOK, NEW ps, NEW s \in RowStatus, RecordStatus(ps, s)
  PROVE  row' \in [Pairs -> RowStatus] /\ points' \in [Pairs -> Int] /\ rowAge' \in [Pairs -> 0 .. 2]
BY DEF TypeOK, RecordStatus

LEMMA PersistTyped ==
  ASSUME TypeOK, NEW p, PersistScored(p)
  PROVE  row' \in [Pairs -> RowStatus] /\ points' \in [Pairs -> Int] /\ rowAge' \in [Pairs -> 0 .. 2]
<1>1. PICK delta \in Deltas : points' = [points EXCEPT ![p] = delta]  BY DEF PersistScored
<1>2. delta \in Int  BY BoundsAssumption
<1>3. points' \in [Pairs -> Int]  BY <1>1, <1>2 DEF TypeOK
<1>4. row' \in [Pairs -> RowStatus]  BY DEF TypeOK, PersistScored, RowStatus
<1>5. rowAge' \in [Pairs -> 0 .. 2]
  <2>1. rowAge \in [Pairs -> 0 .. 2] /\ rowAge' = [rowAge EXCEPT ![p] = 0]
    BY DEF TypeOK, PersistScored
  <2>2. 0 \in 0 .. 2  OBVIOUS
  <2> QED  BY <2>1, <2>2, Zenon
<1> QED  BY <1>3, <1>4, <1>5

(* Moving one run keeps the runs typed.                                     *)
LEMMA MoveTyped ==
  ASSUME TypeOK, NEW d, NEW p, NEW stage \in RunStages, Move(d, p, stage)
  PROVE  run' \in [Drivers \X TaskPairs -> RunStages]
BY DEF TypeOK, Move

LEMMA EnteredTyped ==
  ASSUME TypeOK, NEW d, NEW s
  PROVE  Entered(d, s) \in [Drivers \X Passes -> PassStages]
BY DEF TypeOK, Entered, PassStages

LEMMA EnqueueTyped ==
  ASSUME TypeOK, NEW d, NEW p, Enqueue(d, p)
  PROVE  /\ run' \in [Drivers \X TaskPairs -> RunStages]
         /\ pass' \in [Drivers \X Passes -> PassStages]
<1>1. CASE p \in TaskPairs
  <2>1. Move(d, p, "queued") /\ UNCHANGED pass  BY <1>1 DEF Enqueue
  <2> QED  BY <2>1, MoveTyped DEF TypeOK, RunStages
<1>2. CASE p \notin TaskPairs
  <2>1. /\ \E s \in Passes : pass' = Entered(d, s)
        /\ UNCHANGED run
    BY <1>2 DEF Enqueue
  <2> QED  BY <2>1, EnteredTyped DEF TypeOK
<1> QED  BY <1>1, <1>2

-----------------------------------------------------------------------------
LEMMA TypeInit == Init => TypeOK
<1> SUFFICES ASSUME Init PROVE TypeOK  OBVIOUS
<1>1. row \in [Pairs -> RowStatus] /\ points \in [Pairs -> Int] /\ rowAge \in [Pairs -> 0 .. 2]
  BY DEF Init, RowStatus
<1>2. run \in [Drivers \X TaskPairs -> RunStages]  BY DEF Init, RunStages
<1>3. pass \in [Drivers \X Passes -> PassStages]  BY DEF Init, NoPasses, PassStages
<1>4. /\ sweep \in [Sweeps -> {"boot", "missed", "orphans", "idle"}]
      /\ todo \in [Sweeps -> SUBSET Pairs]
  BY DEF Init
<1>5. /\ chain \in {"off", "check", "interrupted", "session"}
      /\ chainTodo \subseteq Passes /\ tick \subseteq TaskPairs
      /\ up \in BOOLEAN /\ ours \in BOOLEAN /\ settled \in BOOLEAN
      /\ age \in {"fresh", "old", "abandoned"}
      /\ crashes \in Nat /\ reruns \in Nat /\ suspensions \in Nat /\ slow \in Nat
  BY DEF Init
<1> QED  BY <1>1, <1>2, <1>3, <1>4, <1>5 DEF TypeOK

(* A step of a task-scoped run keeps the types.                             *)
LEMMA RunStepTyped ==
  ASSUME TypeOK, NEW d \in Drivers, NEW p \in TaskPairs, RunStep(d, p)
  PROVE  TypeOK'
<1> USE DEF RowStatus, RunStages
<1>0. /\ UNCHANGED <<pass, chain, chainTodo, sweep, todo, tick, up, ours, age, settled,
                     crashes, reruns, slow>>
      /\ suspensions' \in Nat
  BY DEF RunStep, CommitWaitEnds, Deny, Begin, Verdict, Provisional, Suspend, Fail,
         RunUnchanged, drivers, Suspends, TypeOK
<1>1. run' \in [Drivers \X TaskPairs -> RunStages]
  <2>1. \E stage \in RunStages : Move(d, p, stage)
    BY DEF RunStep, CommitWaitEnds, Deny, Begin, Verdict, Provisional, Suspend, Fail
  <2> QED  BY <2>1, MoveTyped
<1>2. \/ \E s \in RowStatus : RecordStatus({p}, s)
      \/ PersistScored(p)
      \/ UNCHANGED verdicts
  BY DEF RunStep, CommitWaitEnds, Deny, Begin, Verdict, Provisional, Suspend, Fail
<1>3. row' \in [Pairs -> RowStatus] /\ points' \in [Pairs -> Int] /\ rowAge' \in [Pairs -> 0 .. 2]
  <2>1. CASE \E s \in RowStatus : RecordStatus({p}, s)  BY <2>1, RecordTyped
  <2>2. CASE PersistScored(p)  BY <2>2, PersistTyped
  <2>3. CASE UNCHANGED verdicts  BY <2>3 DEF verdicts, TypeOK
  <2> QED  BY <1>2, <2>1, <2>2, <2>3
<1> QED  BY <1>0, <1>1, <1>3 DEF TypeOK

(* A step of a session-scoped pass keeps the types.                         *)
LEMMA PassStepTyped ==
  ASSUME TypeOK, NEW d \in Drivers, NEW s \in Passes, PassStep(d, s)
  PROVE  TypeOK'
<1>0. UNCHANGED <<run, chain, chainTodo, sweep, todo, tick, up, ours, age, settled,
                  crashes, reruns, suspensions, slow>>
  BY DEF PassStep, ClaimPass, PassVerdict, EndPass, PassUnchanged, drivers, world
<1>1. pass' \in [Drivers \X Passes -> PassStages]
  BY DEF PassStep, ClaimPass, PassVerdict, EndPass, TypeOK, PassStages
<1>2. \/ \E closed : RecordStatus(closed, "failed")
      \/ \E p \in PairsOf[s] : PersistScored(p)
      \/ UNCHANGED verdicts
  BY DEF PassStep, ClaimPass, PassVerdict, EndPass
<1>3. row' \in [Pairs -> RowStatus] /\ points' \in [Pairs -> Int] /\ rowAge' \in [Pairs -> 0 .. 2]
  <2>1. CASE \E closed : RecordStatus(closed, "failed")  BY <2>1, RecordTyped DEF RowStatus
  <2>2. CASE \E p \in PairsOf[s] : PersistScored(p)  BY <2>2, PersistTyped
  <2>3. CASE UNCHANGED verdicts  BY <2>3 DEF verdicts, TypeOK
  <2> QED  BY <1>2, <2>1, <2>2, <2>3
<1> QED  BY <1>0, <1>1, <1>3 DEF TypeOK

(* A step of the settle chain keeps the types.                              *)
LEMMA ChainTyped == ASSUME TypeOK, Chain PROVE TypeOK'
<1>0. UNCHANGED <<row, points, rowAge, sweep, todo, tick, up, ours, age,
                  crashes, reruns, suspensions, slow>>
  BY DEF Chain, ChainStarts, ChainSkipped, ChainToSession, ChainSettles, ChainPass,
         ChainUnchanged, verdicts
<1>1. CASE ChainStarts  BY <1>0, <1>1 DEF ChainStarts, TypeOK, RunStages
<1>2. CASE ChainSkipped \/ ChainToSession \/ ChainSettles
  BY <1>0, <1>2 DEF ChainSkipped, ChainToSession, ChainSettles, work, TypeOK
<1>3. CASE \E s \in Passes : ChainPass(s)
  <2>1. PICK s \in Passes : ChainPass(s)  BY <1>3
  <2>2. pass' \in [Drivers \X Passes -> PassStages]  BY <2>1, EnteredTyped DEF ChainPass
  <2> QED  BY <1>0, <2>1, <2>2 DEF ChainPass, TypeOK
<1> QED  BY <1>1, <1>2, <1>3 DEF Chain

(* A step of a recovery sweep keeps the types.                              *)
LEMMA SweepTyped == ASSUME TypeOK, NEW d \in Sweeps, Sweep(d) PROVE TypeOK'
<1>0. UNCHANGED <<row, points, rowAge, chain, chainTodo, tick, up, ours, age, settled,
                  crashes, reruns, suspensions, slow>>
  BY DEF Sweep, SweepMissed, SweepOrphans, SweepEnds, SweepDrives, SweepUnchanged, verdicts, world
<1>1. CASE SweepMissed(d) \/ SweepOrphans(d) \/ SweepEnds(d)
  <2>1. Missed(d) \subseteq Pairs /\ Orphans(d) \subseteq Pairs
    BY DEF Missed, Orphans, Pending
  <2> QED  BY <1>0, <1>1, <2>1
           DEF SweepMissed, SweepOrphans, SweepEnds, Snapshot, work, TypeOK
<1>2. CASE \E p \in Pairs : SweepDrives(d, p)
  <2>1. PICK p \in Pairs : SweepDrives(d, p)  BY <1>2
  <2>2. /\ run' \in [Drivers \X TaskPairs -> RunStages]
        /\ pass' \in [Drivers \X Passes -> PassStages]
    BY <2>1, EnqueueTyped DEF SweepDrives
  <2> QED  BY <1>0, <2>1, <2>2 DEF SweepDrives, TypeOK
<1> QED  BY <1>1, <1>2 DEF Sweep

(* The ticker, the reaper, time, a crash and a restart keep the types.      *)
LEMMA OtherTyped ==
  ASSUME TypeOK,
         \/ Ticker \/ SessionAges \/ Crash \/ Restart
         \/ \E p \in Pairs : ReapRunning(p) \/ ReapMissing(p) \/ Rerun(p) \/ RowAges(p)
  PROVE  TypeOK'
<1> USE DEF TypeOK, RowStatus, verdicts, work, drivers, world
<1>1. CASE TickReads  BY <1>1 DEF TickReads, Waiting
<1>2. CASE \E p \in TaskPairs : TickDrives(p)
  <2>1. PICK p \in TaskPairs : TickDrives(p)  BY <1>2
  <2>2. run' \in [Drivers \X TaskPairs -> RunStages]
    BY <2>1, MoveTyped DEF TickDrives, RunStages
  <2> QED  BY <2>1, <2>2 DEF TickDrives
<1>3. CASE SessionAges  BY <1>3 DEF SessionAges
<1>4. CASE Crash
  <2>1. /\ run' \in [Drivers \X TaskPairs -> RunStages]
        /\ pass' \in [Drivers \X Passes -> PassStages]
    BY <1>4 DEF Crash, NoRuns, NoPasses, RunStages, PassStages
  <2>2. /\ sweep' \in [Sweeps -> {"boot", "missed", "orphans", "idle"}]
        /\ todo' \in [Sweeps -> SUBSET Pairs]
    BY <1>4 DEF Crash
  <2>3. chain' = "off" /\ chainTodo' = {} /\ tick' = {} /\ up' = FALSE /\ crashes' \in Nat
    BY <1>4 DEF Crash
  <2>4. UNCHANGED <<row, points, rowAge, ours, age, settled, reruns, suspensions, slow>>
    BY <1>4 DEF Crash
  <2> QED  BY <2>1, <2>2, <2>3, <2>4
<1>5. CASE Restart  BY <1>5, BoundsAssumption DEF Restart
<1>6. CASE \E p \in Pairs : ReapRunning(p) \/ ReapMissing(p)
  BY <1>6 DEF ReapRunning, ReapMissing
<1>7. CASE \E p \in Pairs : Rerun(p)
  <2>1. PICK p \in Pairs : Rerun(p)  BY <1>7
  <2>2. /\ run' \in [Drivers \X TaskPairs -> RunStages]
        /\ pass' \in [Drivers \X Passes -> PassStages]
    BY <2>1, EnqueueTyped DEF Rerun
  <2> QED  BY <2>1, <2>2 DEF Rerun
<1>8. CASE \E p \in Pairs : RowAges(p)
  <2>1. PICK p \in Pairs : RowAges(p)  BY <1>8
  <2>2. rowAge' \in [Pairs -> 0 .. 2]  BY <2>1 DEF RowAges
  <2>3. slow' \in Nat  BY <2>1 DEF RowAges
  <2> QED  BY <2>1, <2>2, <2>3 DEF RowAges
<1> QED  BY <1>1, <1>2, <1>3, <1>4, <1>5, <1>6, <1>7, <1>8 DEF Ticker

LEMMA TypeStep == TypeOK /\ [Next]_vars => TypeOK'
<1> SUFFICES ASSUME TypeOK, [Next]_vars PROVE TypeOK'  OBVIOUS
<1>1. CASE UNCHANGED vars
  BY <1>1 DEF vars, verdicts, work, drivers, world, TypeOK
<1>2. CASE Next
  BY <1>2, RunStepTyped, PassStepTyped, ChainTyped, SweepTyped, OtherTyped DEF Next
<1> QED  BY <1>1, <1>2

(* Type correctness of the judge runs, for every set of pairs.              *)
THEOREM TypeCorrect == Spec => []TypeOK
BY TypeInit, TypeStep, PTL DEF Spec

-----------------------------------------------------------------------------
(* Every writer of judge_results: a status upsert, a scored verdict, and    *)
(* the reaper, which only touches rows without a verdict.                   *)
LEMMA Writers ==
  ASSUME Next
  PROVE  \/ \E ps, s : s # "running" /\ RecordStatus(ps, s)
         \/ \E d \in Drivers, p \in TaskPairs : Begin(d, p)
         \/ \E p : PersistScored(p)
         \/ \E p \in Pairs : /\ row[p] \in {"none", "running"}
                             /\ row' = [row EXCEPT ![p] = "failed"] /\ UNCHANGED points
         \/ UNCHANGED <<row, points>>
<1>1. CASE \E d \in Drivers, p \in TaskPairs : RunStep(d, p)
  BY <1>1 DEF RunStep, CommitWaitEnds, Deny, Verdict, Provisional, Suspend, Fail, verdicts
<1>2. CASE \E d \in Drivers, s \in Passes : PassStep(d, s)
  BY <1>2 DEF PassStep, ClaimPass, PassVerdict, EndPass, verdicts
<1>3. CASE Chain
  BY <1>3 DEF Chain, ChainStarts, ChainSkipped, ChainToSession, ChainSettles, ChainPass,
              ChainUnchanged, verdicts
<1>4. CASE Ticker  BY <1>4 DEF Ticker, TickReads, TickDrives, verdicts
<1>5. CASE SessionAges \/ Crash \/ Restart  BY <1>5 DEF SessionAges, Crash, Restart, verdicts
<1>6. CASE \E d \in Sweeps : Sweep(d)
  BY <1>6 DEF Sweep, SweepMissed, SweepOrphans, SweepEnds, SweepDrives, SweepUnchanged, verdicts
<1>7. CASE \E p \in Pairs : ReapRunning(p) \/ ReapMissing(p)
  BY <1>7 DEF ReapRunning, ReapMissing
<1>8. CASE \E p \in Pairs : Rerun(p) \/ RowAges(p)
  BY <1>8 DEF Rerun, RowAges, verdicts
<1> QED  BY <1>1, <1>2, <1>3, <1>4, <1>5, <1>6, <1>7, <1>8 DEF Next

LEMMA PointsStep ==
  ASSUME TypeOK, PointsOnlyUnderVerdict, [Next]_vars
  PROVE  PointsOnlyUnderVerdict'
<1> SUFFICES ASSUME NEW p \in Pairs, points'[p] # 0 PROVE row'[p] = "scored"
  BY DEF PointsOnlyUnderVerdict
<1>0. /\ row \in [Pairs -> RowStatus] /\ points \in [Pairs -> Int]
      /\ points[p] # 0 => row[p] = "scored"
  BY DEF TypeOK, PointsOnlyUnderVerdict
<1>1. CASE \E ps, s : RecordStatus(ps, s)  BY <1>0, <1>1 DEF RecordStatus
<1>2. CASE \E q : PersistScored(q)  BY <1>0, <1>2 DEF PersistScored
<1>3. CASE \E q \in Pairs : /\ row[q] \in {"none", "running"}
                            /\ row' = [row EXCEPT ![q] = "failed"] /\ UNCHANGED points
  BY <1>0, <1>3
<1>4. CASE UNCHANGED <<row, points>>  BY <1>0, <1>4
<1>5. CASE UNCHANGED vars  BY <1>4, <1>5 DEF vars, verdicts
<1>6. CASE Next  BY <1>1, <1>2, <1>3, <1>4, <1>6, Writers DEF Begin
<1> QED  BY <1>5, <1>6

(* No points stand under a row without a verdict, whatever the drivers,     *)
(* sweeps, the reaper and crashes do, for every set of pairs and deltas.    *)
THEOREM PointsAlwaysUnderVerdict == Spec => []PointsOnlyUnderVerdict
<1>1. Init => PointsOnlyUnderVerdict  BY DEF Init, PointsOnlyUnderVerdict
<1>2. TypeOK /\ PointsOnlyUnderVerdict /\ [Next]_vars => PointsOnlyUnderVerdict'
  BY PointsStep
<1> QED  BY <1>1, <1>2, TypeCorrect, PTL DEF Spec

-----------------------------------------------------------------------------
(* The strengthening RunningIsDriven needs: the settle chain drives nothing *)
(* before it starts and after it settles, so its start takes no run over.   *)
ChainQuiet == chain \in {"off", "check"} => \A p \in TaskPairs : At("chain", p, "off")
DownQuiet  == ~up => chain = "off"
DrivenInv  == RunningIsDriven /\ ChainQuiet /\ DownQuiet

(* Moving a run that is not judging leaves the judging ones alone.          *)
LEMMA StillDriven ==
  ASSUME TypeOK, NEW p \in TaskPairs, Driven(p),
         NEW d, NEW q, ~At(d, q, "judging"), NEW stage, Move(d, q, stage)
  PROVE  Driven(p)'
<1>1. PICK e \in Drivers : At(e, p, "judging")  BY DEF Driven
<1>2. <<e, p>> # <<d, q>>  BY <1>1 DEF At
<1>3. run'[<<e, p>>] = "judging"  BY <1>1, <1>2 DEF At, Move, TypeOK
<1> QED  BY <1>3 DEF Driven, At

LEMMA EnqueueKeepsDriven ==
  ASSUME TypeOK, NEW p \in TaskPairs, Driven(p), NEW d, Idle(d), NEW q, Enqueue(d, q)
  PROVE  Driven(p)'
<1>1. CASE q \in TaskPairs
  <2>1. ~At(d, q, "judging")  BY <1>1 DEF Idle, At
  <2>2. Move(d, q, "queued")  BY <1>1 DEF Enqueue
  <2> QED  BY <2>1, <2>2, StillDriven
<1>2. CASE q \notin TaskPairs
  BY <1>2 DEF Enqueue, Driven, At
<1> QED  BY <1>1, <1>2

(* A run's own step: it stops judging only with a write of its row.         *)
LEMMA RunStepDriven ==
  ASSUME TypeOK, NEW d \in Drivers, NEW q \in TaskPairs, RunStep(d, q),
         NEW p \in Pairs, row'[p] = "running",
         row[p] = "running" => Driven(p)
  PROVE  Driven(p)'
<1>0. row \in [Pairs -> RowStatus] /\ run \in [Drivers \X TaskPairs -> RunStages]
      /\ q \in Pairs
  BY DEF TypeOK, Pairs
<1>1. CASE CommitWaitEnds(d, q)
  <2>1. Driven(p) /\ p \in TaskPairs  BY <1>1 DEF CommitWaitEnds, verdicts, Driven
  <2>2. ~At(d, q, "judging") /\ Move(d, q, "queued")  BY <1>1 DEF CommitWaitEnds, At
  <2> QED  BY <2>1, <2>2, StillDriven
<1>2. CASE Begin(d, q)
  <2>1. CASE p = q
    BY <1>0, <1>2, <2>1 DEF Begin, Move, Driven, At
  <2>2. CASE p # q
    <3>1. row[p] = "running"  BY <1>0, <1>2, <2>2 DEF Begin, RecordStatus
    <3>2. Driven(p) /\ p \in TaskPairs  BY <3>1 DEF Driven
    <3>3. ~At(d, q, "judging") /\ Move(d, q, "judging")  BY <1>2 DEF Begin, At
    <3> QED  BY <3>2, <3>3, StillDriven
  <2> QED  BY <2>1, <2>2
<1>3. CASE \/ Deny(d, q) \/ Verdict(d, q) \/ Provisional(d, q) \/ Suspend(d, q) \/ Fail(d, q)
  <2>1. \/ \E s \in {"failed", "waiting"} : RecordStatus({q}, s)
        \/ PersistScored(q)
    BY <1>3 DEF Deny, Verdict, Provisional, Suspend, Fail
  <2>2. p # q /\ row[p] = "running"
    BY <1>0, <2>1 DEF RecordStatus, PersistScored
  <2>3. PICK e \in Drivers : At(e, p, "judging")  BY <2>2 DEF Driven
  <2>4. p \in TaskPairs  BY <2>2 DEF Driven
  <2>5. \E stage : Move(d, q, stage)
    BY <1>3 DEF Deny, Verdict, Provisional, Suspend, Fail
  <2>6. run'[<<e, p>>] = "judging"  BY <1>0, <2>2, <2>3, <2>4, <2>5 DEF At, Move
  <2> QED  BY <2>4, <2>6 DEF Driven, At
<1> QED  BY <1>1, <1>2, <1>3 DEF RunStep

LEMMA DrivenInit == Init => DrivenInv
<1> SUFFICES ASSUME Init PROVE DrivenInv  OBVIOUS
<1>1. RunningIsDriven
  <2>1. \A p \in Pairs : row[p] = "none"  BY DEF Init
  <2> QED  BY <2>1 DEF RunningIsDriven
<1>2. ChainQuiet
  <2>1. PICK spawned \in SUBSET Completed :
          run = [dp \in Drivers \X TaskPairs |->
                   IF dp[1] = "task" /\ dp[2] \in spawned THEN "commit" ELSE "off"]
    BY DEF Init
  <2>2. SUFFICES ASSUME NEW p \in TaskPairs PROVE run[<<"chain", p>>] = "off"
    BY DEF ChainQuiet, At
  <2>3. <<"chain", p>> \in Drivers \X TaskPairs  BY DEF Drivers
  <2> QED  BY <2>1, <2>3
<1>3. DownQuiet  BY DEF Init, DownQuiet
<1> QED  BY <1>1, <1>2, <1>3 DEF DrivenInv

(* Another driver's move leaves the settle chain's runs alone.              *)
LEMMA ChainUntouched ==
  ASSUME TypeOK, NEW d, d # "chain", NEW q, NEW stage, Move(d, q, stage),
         NEW p \in TaskPairs
  PROVE  run'[<<"chain", p>>] = run[<<"chain", p>>]
<1>1. <<"chain", p>> \in Drivers \X TaskPairs  BY DEF Drivers
<1>2. <<"chain", p>> # <<d, q>>  OBVIOUS
<1> QED  BY <1>1, <1>2 DEF Move, TypeOK

(* The settle chain keeps to its own runs, and to none while it is off.     *)
LEMMA ChainQuietStep ==
  ASSUME TypeOK, ChainQuiet, DownQuiet, [Next]_vars
  PROVE  ChainQuiet' /\ DownQuiet'
<1> USE DEF ChainQuiet, DownQuiet, At
<1>0. run \in [Drivers \X TaskPairs -> RunStages]  BY DEF TypeOK
<1>1. CASE \E d \in Drivers, q \in TaskPairs : RunStep(d, q)
  <2>1. PICK d \in Drivers, q \in TaskPairs : RunStep(d, q)  BY <1>1
  <2>2. ~At(d, q, "off") /\ (\E stage : Move(d, q, stage)) /\ UNCHANGED <<chain, up>>
    BY <2>1 DEF RunStep, CommitWaitEnds, Deny, Begin, Verdict, Provisional, Suspend, Fail,
                RunUnchanged, drivers
  <2>3. \A p \in TaskPairs : At("chain", p, "off") => run'[<<"chain", p>>] = "off"
    BY <1>0, <2>2 DEF Move
  <2> QED  BY <2>2, <2>3
<1>2. CASE \E d \in Drivers, s \in Passes : PassStep(d, s)
  BY <1>2 DEF PassStep, ClaimPass, PassVerdict, EndPass, PassUnchanged, drivers, world
<1>3. CASE Chain
  <2>1. CASE ChainStarts
    <3>1. CASE Pending = {}  BY <2>1, <3>1 DEF ChainStarts, ChainUnchanged
    <3>2. CASE Pending # {}  BY <2>1, <3>2 DEF ChainStarts, ChainUnchanged
    <3> QED  BY <3>1, <3>2
  <2>2. CASE ChainSkipped  BY <2>2 DEF ChainSkipped, ChainUnchanged, work
  <2>3. CASE ChainToSession  BY <2>3 DEF ChainToSession, ChainUnchanged, work
  <2>4. CASE \E s \in Passes : ChainPass(s)  BY <2>4 DEF ChainPass, ChainUnchanged
  <2>5. CASE ChainSettles  BY <2>5 DEF ChainSettles, ChainUnchanged, work, Idle
  <2> QED  BY <1>3, <2>1, <2>2, <2>3, <2>4, <2>5 DEF Chain
<1>4. CASE \E d \in Sweeps : Sweep(d)
  <2>1. PICK d \in Sweeps : Sweep(d)  BY <1>4
  <2>2. UNCHANGED <<chain, up>>
    BY <2>1 DEF Sweep, SweepMissed, SweepOrphans, SweepEnds, SweepDrives, SweepUnchanged, world
  <2>3. UNCHANGED run \/ \E q \in TaskPairs : Move(d, q, "queued")
    BY <2>1 DEF Sweep, SweepMissed, SweepOrphans, SweepEnds, SweepDrives, Enqueue, work
  <2>4. d # "chain"  BY DEF Sweeps
  <2>5. \A p \in TaskPairs : run'[<<"chain", p>>] = run[<<"chain", p>>]
    BY <2>3, <2>4, ChainUntouched
  <2> QED  BY <2>2, <2>5
<1>5. CASE Ticker
  <2>1. UNCHANGED <<chain, up>>  BY <1>5 DEF Ticker, TickReads, TickDrives, world
  <2>2. UNCHANGED run \/ \E q \in TaskPairs : Move("redrive", q, "queued")
    BY <1>5 DEF Ticker, TickReads, TickDrives, work
  <2>3. \A p \in TaskPairs : run'[<<"chain", p>>] = run[<<"chain", p>>]
    BY <2>2, ChainUntouched
  <2> QED  BY <2>1, <2>3
<1>6. CASE \E p \in Pairs : Rerun(p)
  <2>1. UNCHANGED <<chain, up>>  BY <1>6 DEF Rerun, drivers
  <2>2. UNCHANGED run \/ \E q \in TaskPairs : Move("admin", q, "queued")
    BY <1>6 DEF Rerun, Enqueue
  <2>3. \A p \in TaskPairs : run'[<<"chain", p>>] = run[<<"chain", p>>]
    BY <2>2, ChainUntouched
  <2> QED  BY <2>1, <2>3
<1>7. CASE Crash  BY <1>7 DEF Crash, NoRuns, Drivers
<1>8. CASE Restart  BY <1>8 DEF Restart, work
<1>9. CASE SessionAges \/ \E p \in Pairs : ReapRunning(p) \/ ReapMissing(p) \/ RowAges(p)
  BY <1>9 DEF SessionAges, ReapRunning, ReapMissing, RowAges, work, drivers, world
<1>10. CASE UNCHANGED vars  BY <1>10 DEF vars, work, drivers, world
<1> QED  BY <1>1, <1>2, <1>3, <1>4, <1>5, <1>6, <1>7, <1>8, <1>9, <1>10 DEF Next

(* A row comes to say `running` by Begin alone, and the run that wrote it   *)
(* writes again when it stops judging; only a crash takes it away.          *)
LEMMA DrivenStep ==
  ASSUME TypeOK, DrivenInv, [Next]_vars
  PROVE  RunningIsDriven'
<1> SUFFICES ASSUME crashes' = 0, NEW p \in Pairs, row'[p] = "running" PROVE Driven(p)'
  BY DEF RunningIsDriven
<1>0. /\ row \in [Pairs -> RowStatus] /\ run \in [Drivers \X TaskPairs -> RunStages]
      /\ crashes \in Nat
  BY DEF TypeOK
<1>1. CASE \E d \in Drivers, q \in TaskPairs : RunStep(d, q)
  <2>1. PICK d \in Drivers, q \in TaskPairs : RunStep(d, q)  BY <1>1
  <2>2. crashes = 0
    BY <2>1 DEF RunStep, CommitWaitEnds, Deny, Begin, Verdict, Provisional, Suspend, Fail,
                RunUnchanged
  <2>3. row[p] = "running" => Driven(p)  BY <2>2 DEF DrivenInv, RunningIsDriven
  <2> QED  BY <2>1, <2>3, RunStepDriven
<1>2. CASE \E d \in Drivers, s \in Passes : PassStep(d, s)
  <2>1. UNCHANGED <<run, crashes>>
    BY <1>2 DEF PassStep, ClaimPass, PassVerdict, EndPass, PassUnchanged, world
  <2>2. \/ \E closed : RecordStatus(closed, "failed")
        \/ \E q : PersistScored(q)
        \/ UNCHANGED row
    BY <1>2 DEF PassStep, ClaimPass, PassVerdict, EndPass, verdicts
  <2>3. row[p] = "running"  BY <1>0, <2>2 DEF RecordStatus, PersistScored
  <2>4. Driven(p)  BY <2>1, <2>3 DEF DrivenInv, RunningIsDriven
  <2> QED  BY <2>1, <2>4 DEF Driven, At
<1>3. CASE Chain
  <2>1. UNCHANGED <<row, crashes>>
    BY <1>3 DEF Chain, ChainStarts, ChainSkipped, ChainToSession, ChainSettles, ChainPass,
                ChainUnchanged, verdicts
  <2>2. Driven(p)  BY <2>1 DEF DrivenInv, RunningIsDriven
  <2>3. CASE UNCHANGED run  BY <2>2, <2>3 DEF Driven, At
  <2>4. CASE ChainStarts /\ ~UNCHANGED run
    <3>1. PICK e \in Drivers : At(e, p, "judging")  BY <2>2 DEF Driven
    <3>2. p \in TaskPairs  BY <2>2 DEF Driven
    <3>3. At("chain", p, "off")  BY <2>4, <3>2 DEF ChainStarts, DrivenInv, ChainQuiet
    <3>4. e # "chain"  BY <3>1, <3>3 DEF At
    <3>5. run'[<<e, p>>] = run[<<e, p>>]  BY <1>0, <2>4, <3>2, <3>4 DEF ChainStarts
    <3> QED  BY <3>1, <3>2, <3>5 DEF Driven, At
  <2> QED  BY <1>3, <2>3, <2>4
           DEF Chain, ChainStarts, ChainSkipped, ChainToSession, ChainSettles, ChainPass, work
<1>4. CASE \E d \in Sweeps : Sweep(d)
  <2>1. PICK d \in Sweeps : Sweep(d)  BY <1>4
  <2>2. UNCHANGED <<row, crashes>>
    BY <2>1 DEF Sweep, SweepMissed, SweepOrphans, SweepEnds, SweepDrives, SweepUnchanged,
                verdicts, world
  <2>3. Driven(p) /\ p \in TaskPairs  BY <2>2 DEF DrivenInv, RunningIsDriven, Driven
  <2>4. UNCHANGED run \/ (Idle(d) /\ \E q : Enqueue(d, q))
    BY <2>1 DEF Sweep, SweepMissed, SweepOrphans, SweepEnds, SweepDrives, work
  <2>5. CASE UNCHANGED run  BY <2>3, <2>5 DEF Driven, At
  <2> QED  BY <2>3, <2>4, <2>5, EnqueueKeepsDriven
<1>5. CASE Ticker
  <2>1. UNCHANGED <<row, crashes>>  BY <1>5 DEF Ticker, TickReads, TickDrives, verdicts, world
  <2>2. Driven(p) /\ p \in TaskPairs  BY <2>1 DEF DrivenInv, RunningIsDriven, Driven
  <2>3. \/ UNCHANGED run
        \/ \E q \in TaskPairs : At("redrive", q, "off") /\ Move("redrive", q, "queued")
    BY <1>5 DEF Ticker, TickReads, TickDrives, work
  <2>4. CASE UNCHANGED run  BY <2>2, <2>4 DEF Driven, At
  <2>5. CASE \E q \in TaskPairs : At("redrive", q, "off") /\ Move("redrive", q, "queued")
    <3>1. PICK q \in TaskPairs : At("redrive", q, "off") /\ Move("redrive", q, "queued")
      BY <2>5
    <3>2. ~At("redrive", q, "judging")  BY <3>1 DEF At
    <3> QED  BY <2>2, <3>1, <3>2, StillDriven
  <2> QED  BY <2>3, <2>4, <2>5
<1>6. CASE \E q \in Pairs : Rerun(q)
  <2>1. UNCHANGED <<row, crashes>>  BY <1>6 DEF Rerun, verdicts
  <2>2. Driven(p) /\ p \in TaskPairs  BY <2>1 DEF DrivenInv, RunningIsDriven, Driven
  <2>3. Idle("admin") /\ \E q : Enqueue("admin", q)  BY <1>6 DEF Rerun
  <2> QED  BY <2>2, <2>3, EnqueueKeepsDriven
<1>7. CASE Crash  BY <1>0, <1>7 DEF Crash
<1>8. CASE SessionAges \/ Restart \/ \E q \in Pairs : ReapRunning(q) \/ ReapMissing(q) \/ RowAges(q)
  <2>1. UNCHANGED <<run, crashes>>
    BY <1>8 DEF SessionAges, Restart, ReapRunning, ReapMissing, RowAges, work, world
  <2>2. row[p] = "running"
    BY <1>0, <1>8 DEF SessionAges, Restart, ReapRunning, ReapMissing, RowAges, verdicts
  <2>3. Driven(p)  BY <2>1, <2>2 DEF DrivenInv, RunningIsDriven
  <2> QED  BY <2>1, <2>3 DEF Driven, At
<1>9. CASE UNCHANGED vars
  <2>1. UNCHANGED <<row, run, crashes>>  BY <1>9 DEF vars, verdicts, work, world
  <2>2. Driven(p)  BY <2>1 DEF DrivenInv, RunningIsDriven
  <2> QED  BY <2>1, <2>2 DEF Driven, At
<1> QED  BY <1>1, <1>2, <1>3, <1>4, <1>5, <1>6, <1>7, <1>8, <1>9 DEF Next

(* Without a crash no row says `running` once its run is gone, for every    *)
(* set of pairs and every number of re-runs, suspensions and sweeps.        *)
THEOREM RunningAlwaysDriven == Spec => []RunningIsDriven
<1>1. TypeOK /\ DrivenInv /\ [Next]_vars => DrivenInv'
  BY ChainQuietStep, DrivenStep DEF DrivenInv
<1>2. DrivenInv => RunningIsDriven  BY DEF DrivenInv
<1> QED  BY DrivenInit, <1>1, <1>2, TypeCorrect, PTL DEF Spec

-----------------------------------------------------------------------------
(* The strengthening OneDriver needs.  As long as nothing has disturbed the *)
(* session, the sweeps find no work, and a pair comes from its dispatch or  *)
(* from the settle chain to the ticker, never back: once it waits, is on    *)
(* the ticker's snapshot, or is driven again, both are done with it.        *)
Calm == crashes = 0 /\ reruns = 0 /\ slow = 0 /\ age = "fresh"

Others == {"startup", "periodic", "admin"}
SweepsRest ==
  /\ up /\ sweep["startup"] = "idle" /\ \A d \in Sweeps : todo[d] = {}
  /\ \A p \in Pairs : row[p] = "running" => rowAge[p] = 0
  /\ \A d \in Others : \A p \in TaskPairs : At(d, p, "off")

DispatchDone(p) == /\ At("task", p, "off") /\ At("chain", p, "off")
                   /\ ~(chain = "check" /\ p \in Interrupted)
Origins == \A p \in TaskPairs : /\ ~At("task", p, "off") => p \in Completed
                                /\ ~At("chain", p, "off") => p \in Interrupted
OfOne   == TaskPairs \ (Completed \cap Interrupted)
Handed  == \A p \in OfOne :
  row[p] = "waiting" \/ p \in tick \/ ~At("redrive", p, "off") => DispatchDone(p)

OneInv == Calm => SweepsRest /\ Origins /\ Handed

(* While it is calm, a pair's drivers are told apart by where it comes from. *)
LEMMA OneInvSuffices == ASSUME TypeOK, OneInv PROVE OneDriver
<1> SUFFICES ASSUME Calm, NEW p \in OfOne
             PROVE  Cardinality({d \in Drivers : ~At(d, p, "off")}) <= 1
  BY DEF OneDriver, Calm, OfOne
<1> DEFINE Active == {d \in Drivers : ~At(d, p, "off")}
<1>0. SweepsRest /\ Origins /\ Handed /\ p \in TaskPairs  BY DEF OneInv, OfOne
<1>1. Active \subseteq {"task", "chain", "redrive"}
  BY <1>0 DEF SweepsRest, Others, Drivers
<1>2. ASSUME NEW d \in Active, NEW e \in Active PROVE d = e
  <2>1. ~(At("task", p, "off") /\ At("chain", p, "off")) => At("redrive", p, "off")
    BY <1>0 DEF Handed, DispatchDone
  <2>2. At("task", p, "off") \/ At("chain", p, "off")
    BY <1>0 DEF Origins, OfOne
  <2> QED  BY <1>1, <2>1, <2>2
<1>3. CASE Active = {}  BY <1>3, FS_EmptySet
<1>4. CASE Active # {}
  <2>1. PICK d \in Active : TRUE  BY <1>4
  <2>2. Active = {d}  BY <1>2, <2>1
  <2>3. Cardinality({d}) = 1  BY FS_Singleton
  <2> QED  BY <2>2, <2>3
<1> QED  BY <1>3, <1>4

LEMMA OneInvInit == Init => OneInv
<1> SUFFICES ASSUME Init PROVE SweepsRest /\ Origins /\ Handed  BY DEF OneInv
<1>1. PICK spawned \in SUBSET Completed :
        run = [dp \in Drivers \X TaskPairs |->
                 IF dp[1] = "task" /\ dp[2] \in spawned THEN "commit" ELSE "off"]
  BY DEF Init
<1>2. ASSUME NEW d \in Drivers, NEW p \in TaskPairs, ~(d = "task" /\ p \in spawned)
      PROVE  At(d, p, "off")
  BY <1>1, <1>2 DEF At
<1>3. SweepsRest
  <2>1. \A p \in Pairs : row[p] # "running"  BY DEF Init
  <2>2. \A d \in Others : d \in Drivers /\ d # "task"  BY DEF Others, Drivers
  <2>3. up /\ sweep["startup"] = "idle" /\ \A d \in Sweeps : todo[d] = {}
    BY DEF Init, Sweeps
  <2> QED  BY <1>2, <2>1, <2>2, <2>3 DEF SweepsRest
<1>4. Origins
  <2>1. {"task", "chain"} \subseteq Drivers /\ "chain" # "task"  BY DEF Drivers
  <2> QED  BY <1>2, <2>1 DEF Origins
<1>5. Handed
  <2>1. \A p \in OfOne : p \in TaskPairs /\ row[p] # "waiting"  BY DEF Init, OfOne, Pairs
  <2>2. tick = {}  BY DEF Init
  <2>3. "redrive" \in Drivers /\ "redrive" # "task"  BY DEF Drivers
  <2> QED  BY <1>2, <2>1, <2>2, <2>3 DEF Handed
<1> QED  BY <1>3, <1>4, <1>5

(* The observers only grow, and the session does not grow younger.          *)
LEMMA CalmBefore ==
  ASSUME TypeOK, [Next]_vars, Calm'
  PROVE  Calm
<1> USE DEF Calm
<1>0. crashes \in Nat /\ reruns \in Nat /\ slow \in Nat /\ age \in {"fresh", "old", "abandoned"}
  BY DEF TypeOK
<1>1. CASE \E d \in Drivers, p \in TaskPairs : RunStep(d, p)
  BY <1>1 DEF RunStep, CommitWaitEnds, Deny, Begin, Verdict, Provisional, Suspend, Fail,
              RunUnchanged
<1>2. CASE \E d \in Drivers, s \in Passes : PassStep(d, s)
  BY <1>2 DEF PassStep, ClaimPass, PassVerdict, EndPass, PassUnchanged, world
<1>3. CASE Chain
  BY <1>3 DEF Chain, ChainStarts, ChainSkipped, ChainToSession, ChainSettles, ChainPass,
              ChainUnchanged
<1>4. CASE \E d \in Sweeps : Sweep(d)
  BY <1>4 DEF Sweep, SweepMissed, SweepOrphans, SweepEnds, SweepDrives, SweepUnchanged, world
<1>5. CASE Ticker  BY <1>5 DEF Ticker, TickReads, TickDrives, world
<1>6. CASE SessionAges \/ Crash \/ Restart  BY <1>0, <1>6 DEF SessionAges, Crash, Restart
<1>7. CASE \E p \in Pairs : ReapRunning(p) \/ ReapMissing(p)
  BY <1>7 DEF ReapRunning, ReapMissing, world
<1>8. CASE \E p \in Pairs : Rerun(p) \/ RowAges(p)  BY <1>0, <1>8 DEF Rerun, RowAges
<1>9. CASE UNCHANGED vars  BY <1>9 DEF vars, world
<1> QED  BY <1>1, <1>2, <1>3, <1>4, <1>5, <1>6, <1>7, <1>8, <1>9 DEF Next

(* A move of one run leaves the others where they are.                      *)
LEMMA MoveLeaves ==
  ASSUME TypeOK, NEW d, NEW q, NEW stage, Move(d, q, stage),
         NEW e \in Drivers, NEW p \in TaskPairs, e # d \/ p # q, NEW at
  PROVE  At(e, p, at)' <=> At(e, p, at)
BY DEF TypeOK, Move, At

LEMMA MoveSets ==
  ASSUME TypeOK, NEW d \in Drivers, NEW q \in TaskPairs, NEW stage, Move(d, q, stage), NEW at
  PROVE  At(d, q, at)' <=> stage = at
BY DEF TypeOK, Move, At

(* A run of the dispatch, the settle chain or the ticker.                   *)
LEMMA RunStepOne ==
  ASSUME TypeOK, ChainQuiet, SweepsRest, Origins, Handed,
         NEW d \in Drivers, NEW q \in TaskPairs, RunStep(d, q)
  PROVE  SweepsRest' /\ Origins' /\ Handed'
<1>0. /\ ~At(d, q, "off") /\ UNCHANGED <<up, sweep, todo, chain, tick>>
      /\ \/ \E s \in {"failed", "running"} : RecordStatus({q}, s)
         \/ RecordStatus({q}, "waiting") /\ Move(d, q, "off")
         \/ PersistScored(q)
         \/ UNCHANGED verdicts
  BY DEF RunStep, CommitWaitEnds, Deny, Begin, Verdict, Provisional, Suspend, Fail,
         RunUnchanged, drivers, At
<1>1. PICK stage : Move(d, q, stage)
  BY DEF RunStep, CommitWaitEnds, Deny, Begin, Verdict, Provisional, Suspend, Fail
<1>2. d \notin Others  BY <1>0 DEF SweepsRest
<1>3. q \in Pairs /\ row \in [Pairs -> RowStatus] /\ rowAge \in [Pairs -> 0 .. 2]
  BY DEF Pairs, TypeOK
<1>4. \A p \in Pairs : p # q => row'[p] = row[p]
  BY <1>0, <1>3 DEF RecordStatus, PersistScored, verdicts
<1>5. SweepsRest'
  <2>1. \A p \in Pairs : row'[p] = "running" => rowAge'[p] = 0
    BY <1>0, <1>3 DEF RecordStatus, PersistScored, verdicts, SweepsRest
  <2>2. \A e \in Others : \A p \in TaskPairs : At(e, p, "off")'
    <3> SUFFICES ASSUME NEW e \in Others, NEW p \in TaskPairs PROVE At(e, p, "off")'
      OBVIOUS
    <3>1. e \in Drivers /\ e # d  BY <1>2 DEF Others, Drivers
    <3> QED  BY <1>1, <3>1, MoveLeaves DEF SweepsRest
  <2> QED  BY <1>0, <2>1, <2>2 DEF SweepsRest, Sweeps
<1>6. Origins'
  <2> SUFFICES ASSUME NEW p \in TaskPairs, NEW e \in {"task", "chain"}, ~At(e, p, "off")'
               PROVE  ~At(e, p, "off")
    BY DEF Origins
  <2>1. e \in Drivers  BY DEF Drivers
  <2> QED  BY <1>0, <1>1, <2>1, MoveLeaves
<1>7. Handed'
  <2> SUFFICES ASSUME NEW p \in OfOne,
                      row'[p] = "waiting" \/ p \in tick' \/ ~At("redrive", p, "off")'
               PROVE  DispatchDone(p)'
    BY DEF Handed, OfOne
  <2>0. {"task", "chain", "redrive"} \subseteq Drivers /\ p \in TaskPairs /\ p \in Pairs
    BY DEF Drivers, OfOne, Pairs
  <2>1. CASE DispatchDone(p)
    <3>1. (p = q => d = "redrive")
      BY <1>0, <1>2, <2>1 DEF DispatchDone, Others, Drivers
    <3> QED  BY <1>0, <1>1, <2>0, <2>1, <3>1, MoveLeaves DEF DispatchDone
  <2>2. CASE ~DispatchDone(p)
    <3>1. row[p] # "waiting" /\ p \notin tick /\ At("redrive", p, "off")
      BY <2>2 DEF Handed
    <3>2. d # "redrive" \/ p # q  BY <1>0, <3>1
    <3>3. At("redrive", p, "off")'  BY <1>1, <2>0, <3>1, <3>2, MoveLeaves
    <3>4. row'[p] = "waiting"  BY <1>0, <3>1, <3>3
    <3>5. p = q  BY <1>4, <2>0, <3>1, <3>4
    <3>6. Move(d, p, "off")
      BY <1>0, <1>3, <3>1, <3>4, <3>5 DEF RecordStatus, PersistScored, verdicts
    <3>7. At(d, p, "off")'  BY <2>0, <3>6, MoveSets
    <3>8. CASE d = "task"
      <4>1. p \in Completed /\ p \notin Interrupted
        BY <1>0, <2>0, <3>5, <3>8 DEF Origins, OfOne
      <4>2. At("chain", p, "off")  BY <2>0, <4>1 DEF Origins
      <4>3. At("chain", p, "off")'  BY <2>0, <3>6, <3>8, <4>2, MoveLeaves
      <4> QED  BY <3>7, <3>8, <4>1, <4>3 DEF DispatchDone
    <3>9. CASE d = "chain"
      <4>1. p \in Interrupted /\ p \notin Completed
        BY <1>0, <2>0, <3>5, <3>9 DEF Origins, OfOne
      <4>2. At("task", p, "off")  BY <2>0, <4>1 DEF Origins
      <4>3. At("task", p, "off")'  BY <2>0, <3>6, <3>9, <4>2, MoveLeaves
      <4>4. chain # "check"  BY <1>0, <2>0, <3>5, <3>9 DEF ChainQuiet
      <4> QED  BY <1>0, <3>7, <3>9, <4>3, <4>4 DEF DispatchDone
    <3>10. d \in {"task", "chain"}  BY <1>2, <3>2, <3>5 DEF Drivers, Others
    <3> QED  BY <3>8, <3>9, <3>10
  <2> QED  BY <2>1, <2>2
<1> QED  BY <1>5, <1>6, <1>7

(* A pass of a session-scoped judge writes rows and drives no pair.         *)
LEMMA PassStepOne ==
  ASSUME TypeOK, SweepsRest, Origins, Handed,
         NEW d \in Drivers, NEW s \in Passes, PassStep(d, s)
  PROVE  SweepsRest' /\ Origins' /\ Handed'
<1>0. UNCHANGED <<run, up, sweep, todo, chain, tick>>
  BY DEF PassStep, ClaimPass, PassVerdict, EndPass, PassUnchanged, drivers, world
<1>1. \/ \E closed : RecordStatus(closed, "failed")
      \/ \E q : PersistScored(q)
      \/ UNCHANGED verdicts
  BY DEF PassStep, ClaimPass, PassVerdict, EndPass
<1>2. row \in [Pairs -> RowStatus] /\ rowAge \in [Pairs -> 0 .. 2]  BY DEF TypeOK
<1>3. \A p \in Pairs : /\ row'[p] = "running" => row[p] = "running" /\ rowAge'[p] \in {0, rowAge[p]}
                       /\ row'[p] = "waiting" => row[p] = "waiting"
  BY <1>1, <1>2 DEF RecordStatus, PersistScored, verdicts
<1>4. \A p \in OfOne : p \in Pairs  BY DEF OfOne, Pairs
<1>5. SweepsRest'  BY <1>0, <1>3 DEF SweepsRest, At
<1>6. Origins' /\ Handed'  BY <1>0, <1>3, <1>4 DEF Origins, Handed, DispatchDone, At
<1> QED  BY <1>5, <1>6

(* The settle chain starts its runs once, with the interrupted pairs.       *)
LEMMA ChainOne ==
  ASSUME TypeOK, SweepsRest, Origins, Handed, Chain
  PROVE  SweepsRest' /\ Origins' /\ Handed'
<1>0. /\ UNCHANGED <<row, rowAge, up, sweep, todo, tick>>
      /\ chain' # "check" \/ UNCHANGED chain
  BY DEF Chain, ChainStarts, ChainSkipped, ChainToSession, ChainSettles, ChainPass,
         ChainUnchanged, verdicts
<1>1. CASE UNCHANGED run
  BY <1>0, <1>1 DEF SweepsRest, Origins, Handed, DispatchDone, At
<1>2. CASE ~UNCHANGED run
  <2>1. /\ chain = "check" /\ chain' = "interrupted"
        /\ run' = [dp \in Drivers \X TaskPairs |->
                     IF dp[1] = "chain" /\ dp[2] \in Interrupted THEN "commit" ELSE run[dp]]
    BY <1>2 DEF Chain, ChainStarts, ChainSkipped, ChainToSession, ChainSettles, ChainPass, work
  <2>2. \A e \in Drivers : \A p \in TaskPairs :
          ~(e = "chain" /\ p \in Interrupted) => run'[<<e, p>>] = run[<<e, p>>]
    BY <2>1
  <2>3. {"task", "chain", "redrive"} \cup Others \subseteq Drivers /\ "chain" \notin Others
    BY DEF Drivers, Others
  <2>4. SweepsRest'  BY <1>0, <2>2, <2>3 DEF SweepsRest, At
  <2>5. Origins'  BY <2>2, <2>3 DEF Origins, At
  <2>6. Handed'  BY <1>0, <2>1, <2>2, <2>3 DEF Handed, DispatchDone, OfOne, At
  <2> QED  BY <2>4, <2>5, <2>6
<1> QED  BY <1>1, <1>2

(* The sweeps find nothing, and so drive nothing.                           *)
LEMMA SweepOne ==
  ASSUME TypeOK, Calm, SweepsRest, Origins, Handed, NEW d \in Sweeps, Sweep(d)
  PROVE  SweepsRest' /\ Origins' /\ Handed'
<1>0. UNCHANGED <<row, rowAge, chain, tick, up>>
  BY DEF Sweep, SweepMissed, SweepOrphans, SweepEnds, SweepDrives, SweepUnchanged, verdicts, world
<1>1. d = "periodic"
  BY DEF SweepsRest, Sweeps, Sweep, SweepMissed, SweepOrphans, SweepEnds, SweepDrives
<1>2. Missed(d) = {} /\ Orphans(d) = {}
  BY <1>1 DEF Missed, Orphans, Calm, SweepsRest
<1>3. UNCHANGED run /\ \E phase : Snapshot(d, phase, {})
  BY <1>2 DEF Sweep, SweepMissed, SweepOrphans, SweepEnds, SweepDrives, SweepsRest, work
<1>4. \A e \in Sweeps : todo'[e] = {}  BY <1>3 DEF Snapshot, SweepsRest, TypeOK
<1>5. sweep'["startup"] = "idle"  BY <1>1, <1>3 DEF Snapshot, SweepsRest, TypeOK
<1> QED  BY <1>0, <1>3, <1>4, <1>5 DEF SweepsRest, Origins, Handed, DispatchDone, At

(* The ticker takes over the pairs that wait.                               *)
LEMMA TickerOne ==
  ASSUME TypeOK, SweepsRest, Origins, Handed, Ticker
  PROVE  SweepsRest' /\ Origins' /\ Handed'
<1>0. UNCHANGED <<row, rowAge, chain, up, sweep, todo>>
  BY DEF Ticker, TickReads, TickDrives, verdicts, world
<1>1. CASE TickReads
  BY <1>0, <1>1 DEF TickReads, Waiting, work, SweepsRest, Origins, Handed, DispatchDone, At
<1>2. CASE \E q \in TaskPairs : TickDrives(q)
  <2>1. PICK q \in TaskPairs : TickDrives(q)  BY <1>2
  <2>2. q \in tick /\ tick' = tick \ {q}  BY <2>1 DEF TickDrives
  <2>3. UNCHANGED run \/ Move("redrive", q, "queued")  BY <2>1 DEF TickDrives
  <2>4. {"task", "chain", "redrive"} \cup Others \subseteq Drivers /\ "redrive" \notin Others
    BY DEF Drivers, Others
  <2>5. \A e \in Drivers : \A p \in TaskPairs :
          e # "redrive" \/ p # q => (At(e, p, "off")' <=> At(e, p, "off"))
    <3>1. CASE UNCHANGED run  BY <3>1 DEF At
    <3>2. CASE Move("redrive", q, "queued")  BY <3>2, MoveLeaves
    <3> QED  BY <2>3, <3>1, <3>2
  <2>6. SweepsRest' /\ Origins'  BY <1>0, <2>4, <2>5 DEF SweepsRest, Origins
  <2>7. Handed'  BY <1>0, <2>2, <2>4, <2>5 DEF Handed, DispatchDone, OfOne
  <2> QED  BY <2>6, <2>7
<1> QED  BY <1>1, <1>2 DEF Ticker

LEMMA OneInvStep ==
  ASSUME TypeOK, DrivenInv, OneInv, [Next]_vars
  PROVE  OneInv'
<1> SUFFICES ASSUME Calm' PROVE SweepsRest' /\ Origins' /\ Handed'  BY DEF OneInv
<1>0. Calm /\ SweepsRest /\ Origins /\ Handed /\ ChainQuiet
  BY CalmBefore DEF OneInv, DrivenInv
<1>1. CASE \E d \in Drivers, q \in TaskPairs : RunStep(d, q)  BY <1>0, <1>1, RunStepOne
<1>2. CASE \E d \in Drivers, s \in Passes : PassStep(d, s)  BY <1>0, <1>2, PassStepOne
<1>3. CASE Chain  BY <1>0, <1>3, ChainOne
<1>4. CASE \E d \in Sweeps : Sweep(d)  BY <1>0, <1>4, SweepOne
<1>5. CASE Ticker  BY <1>0, <1>5, TickerOne
<1>6. ~Crash /\ ~Restart /\ ~SessionAges /\ \A p \in Pairs : ~Rerun(p)
  BY <1>0 DEF Crash, Restart, SessionAges, Rerun, Calm, SweepsRest
<1>7. \A p \in Pairs : ~ReapRunning(p) /\ ~ReapMissing(p)
  BY <1>0 DEF ReapRunning, ReapMissing, Calm
<1>8. ASSUME NEW p \in Pairs, RowAges(p) PROVE FALSE
  <2>1. row[p] = "running" /\ rowAge[p] = 0  BY <1>0, <1>8 DEF RowAges, SweepsRest
  <2>2. Driven(p)  BY <1>0, <2>1 DEF DrivenInv, RunningIsDriven, Calm
  <2>3. slow' = slow + 1  BY <1>8, <2>1, <2>2 DEF RowAges
  <2> QED  BY <1>0, <2>3 DEF Calm
<1>9. CASE UNCHANGED vars
  BY <1>0, <1>9 DEF vars, verdicts, work, drivers, world, SweepsRest, Origins, Handed,
                    DispatchDone, At
<1> QED  BY <1>1, <1>2, <1>3, <1>4, <1>5, <1>6, <1>7, <1>8, <1>9 DEF Next

(* Until the sweeps' floors are reached, and without a crash or a re-run by *)
(* hand, a pair has one driver at a time, for every set of pairs and passes *)
(* and any number of suspensions and re-drives.                             *)
THEOREM OneDriverAtATime == Spec => []OneDriver
<1>1. Init => DrivenInv /\ OneInv  BY DrivenInit, OneInvInit
<1>2. TypeOK /\ DrivenInv /\ OneInv /\ [Next]_vars => DrivenInv' /\ OneInv'
  BY ChainQuietStep, DrivenStep, OneInvStep DEF DrivenInv
<1>3. TypeOK /\ OneInv => OneDriver  BY OneInvSuffices
<1> QED  BY <1>1, <1>2, <1>3, TypeCorrect, PTL DEF Spec

=============================================================================
