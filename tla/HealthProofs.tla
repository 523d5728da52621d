---------------------------- MODULE HealthProofs ----------------------------
(***************************************************************************)
(* Types of Health, and the bonus: paid once, never on a late checkpoint,  *)
(* and on the final tree if that verified and the task was closed once.    *)
(***************************************************************************)
EXTENDS Health, FiniteSetTheorems, WellFoundedInduction, TLAPS

Busy   == {"verify", "wait", "scan"}
Served == {"off", "done"} \cup Busy

\* A worker's checkpoint: a report's is of a probe, a closer's the final one or
\* its gap, a resumed one the one it was started for.
KeyInv ==
  /\ \A r \in Reports : key[r] \in Commits
  /\ \A c \in Closers : key[c] \in {Final, Missing}
  /\ \A w \in Resumes : pc[w] \in Served /\ (pc[w] # "off" => key[w] = w[2])

\* Only a checkpoint with a row is verified.
RowInv == \A w \in Workers : pc[w] \in Busy => status[key[w]] # "none"

\* Nothing runs in a process that is down.
DownInv == up \/ \A w \in Workers : pc[w] \in {"off", "done"}

BornInv == \A k \in Keys : born[k] <= Cardinality(Keys) + 1

SInv == TypeOK /\ KeyInv /\ RowInv /\ DownInv /\ BornInv

\* A checkpoint that may be paid on: it has a row, and was in time.
Payable(k) == k = "none" \/ (k \in Keys \ late /\ status[k] # "none")
BasisInv == paid <= 1 /\ Payable(paidOn) /\ \A c \in Closers : Payable(basis[c])

Resumed == <<"resume", Final>>

\* The final checkpoint is not being verified again, nor will be.
Alone == pc[Resumed] \notin Busy
Quiet == Alone /\ status[Final] # "pending"

\* What holds of the only close of the task, by where its worker is.
OnlyClose(c) ==
  /\ pc[c] \in {"final", "find", "insert"} => status[Final] = "none" /\ paid = 0
  /\ pc[c] \in Busy => paid = 0 /\ key[c] = Final /\ Alone
  /\ pc[c] \in {"award", "pay"} => paid = 0 /\ Quiet
  /\ pc[c] = "pay" /\ status[Final] = "ok" => basis[c] = Final
  /\ paid = 1 => Quiet /\ (status[Final] = "ok" => paidOn = Final)

FinalInv ==
  /\ (\A c \in Closers : pc[c] = "off") => status[Final] = "none" /\ paid = 0
  /\ ClosedOnce => \A c \in Closers : Started(c) => OnlyClose(c)

IInv == SInv /\ BasisInv /\ FinalInv

-----------------------------------------------------------------------------
(* Workers and checkpoints                                                 *)

LEMMA WorkerFacts ==
  /\ Reports \subseteq Workers /\ Closers \subseteq Workers /\ Resumes \subseteq Workers
  /\ Workers = Reports \cup Closers \cup Resumes
  /\ Reports \cap Closers = {} /\ Reports \cap Resumes = {} /\ Closers \cap Resumes = {}
  /\ \A w \in Resumes : w[2] \in Keys /\ w = <<"resume", w[2]>>
  /\ \A k \in Keys : <<"resume", k>> \in Resumes
  /\ Resumed \in Resumes /\ Resumed[2] = Final
BY KeysAssumption, WorkersAssumption DEF Workers, Resumes, Resumed, Keys

LEMMA KeyFacts ==
  /\ Commits \subseteq Keys /\ Final \in Keys /\ Missing \in Keys
  /\ Keys = Commits \cup {Final, Missing}
  /\ Final \notin Commits /\ Missing \notin Commits /\ Final # Missing
  /\ "none" \notin Keys
  /\ IsFiniteSet(Keys) /\ Cardinality(Keys) \in Nat
<1>1. IsFiniteSet(Commits \cup {Final})  BY KeysAssumption, FS_AddElement
<1>2. IsFiniteSet((Commits \cup {Final}) \cup {Missing})  BY <1>1, FS_AddElement
<1>3. Keys = (Commits \cup {Final}) \cup {Missing}  BY DEF Keys
<1>4. IsFiniteSet(Keys)  BY <1>2, <1>3
<1> QED  BY <1>4, FS_CardinalityType, KeysAssumption DEF Keys

LEMMA RowsAreFew == Cardinality(Rows) \in Nat /\ Cardinality(Rows) <= Cardinality(Keys)
<1>1. Rows \subseteq Keys  BY DEF Rows
<1>2. IsFiniteSet(Rows)  BY <1>1, KeyFacts, FS_Subset
<1> QED  BY <1>1, <1>2, KeyFacts, FS_Subset, FS_CardinalityType

\* Of some probes' checkpoints one was created last.
LEMMA Latest ==
  ASSUME SInv, Eligible # {}
  PROVE  \E k \in Eligible : \A l \in Eligible : born[l] <= born[k]
<1> DEFINE n == Cardinality(Keys) + 1
           T == {n - born[k] : k \in Eligible}
<1>1. \A k \in Eligible : born[k] \in Nat /\ n - born[k] \in Nat
  <2> SUFFICES ASSUME NEW k \in Eligible PROVE born[k] \in Nat /\ n - born[k] \in Nat
    OBVIOUS
  <2>1. k \in Keys  BY KeyFacts DEF Eligible
  <2>2. born[k] \in Nat  BY <2>1 DEF SInv, TypeOK
  <2>3. born[k] <= n  BY <2>1 DEF SInv, BornInv
  <2>4. n \in Nat  BY KeyFacts
  <2> HIDE DEF n
  <2> QED  BY <2>2, <2>3, <2>4
<1>2. T \subseteq Nat /\ T # {}
  <2> HIDE DEF n
  <2> QED  BY <1>1
<1>3. PICK x \in T : \A y \in T : ~ (<<y, x>> \in OpToRel(<, Nat))
  <2> HIDE DEF T
  <2> QED  BY <1>2, WFMin, NatLessThanWellFounded
<1>4. \A y \in T : ~ (y < x)  BY <1>2, <1>3 DEF OpToRel
<1>5. PICK k \in Eligible : x = n - born[k]  OBVIOUS
<1>6. ASSUME NEW l \in Eligible PROVE born[l] <= born[k]
  <2>1. ~ (n - born[l] < n - born[k])  BY <1>4, <1>5
  <2>2. n \in Nat  BY KeyFacts
  <2> HIDE DEF n
  <2> QED  BY <1>1, <2>1, <2>2
<1> QED  BY <1>6

-----------------------------------------------------------------------------
(* SInv is inductive                                                       *)

LEMMA SInvInit == Init => SInv
<1> SUFFICES ASSUME Init PROVE SInv  OBVIOUS
<1>1. TypeOK
  <2> USE DEF Init
  <2>1. status \in [Keys -> {"none", "pending"} \cup Terminal] /\ born \in [Keys -> Nat]
    OBVIOUS
  <2>2. late \subseteq Commits /\ repo \in [Commits \cup {Final} -> {"absent", "served", "off"}]
    OBVIOUS
  <2>3. pc \in [Workers -> Stages]  BY DEF Stages
  <2>4. key \in [Workers -> Keys]
    <3>1. \A w \in Reports : CommitOf[w] \in Keys  BY KeysAssumption, KeyFacts
    <3> QED  BY <3>1, KeyFacts
  <2>5. basis \in [Closers -> Keys \cup {"none"}]  OBVIOUS
  <2>6. paid \in Nat /\ paidOn \in Keys \cup {"none"} /\ crashes \in 0 .. MaxCrashes
    BY WorkersAssumption
  <2>7. closed \in BOOLEAN /\ up \in BOOLEAN  OBVIOUS
  <2> QED  BY <2>1, <2>2, <2>3, <2>4, <2>5, <2>6, <2>7 DEF TypeOK
<1>2. KeyInv
  BY WorkerFacts, KeyFacts, KeysAssumption DEF Init, KeyInv, Served
<1>3. RowInv /\ DownInv  BY DEF Init, RowInv, DownInv, Busy
<1>4. BornInv  BY KeyFacts DEF Init, BornInv
<1> QED  BY <1>1, <1>2, <1>3, <1>4 DEF SInv

LEMMA Creating ==
  ASSUME SInv, NEW k \in Keys, NEW s \in {"pending"} \cup Terminal, Create(k, s)
  PROVE  /\ status' \in [Keys -> {"none", "pending"} \cup Terminal]
         /\ born' \in [Keys -> Nat] /\ BornInv'
         /\ \A l \in Keys : status[l] # "none" => status'[l] # "none"
         /\ status'[k] = s /\ status'[k] # "none"
<1> DEFINE n == Cardinality(Rows) + 1
<1>1. n \in Nat /\ n <= Cardinality(Keys) + 1  BY RowsAreFew, KeyFacts
<1>2. born' = [born EXCEPT ![k] = n]  BY DEF Create
<1>3. born' \in [Keys -> Nat]  BY <1>1, <1>2 DEF SInv, TypeOK
<1>4. BornInv'
  <2> SUFFICES ASSUME NEW l \in Keys PROVE born'[l] <= Cardinality(Keys) + 1
    BY DEF BornInv
  <2> HIDE DEF n
  <2> QED  BY <1>1, <1>2 DEF SInv, TypeOK, BornInv
<1> QED  BY <1>3, <1>4 DEF Create, SInv, TypeOK, Terminal

LEMMA Settling ==
  ASSUME SInv, NEW w \in Workers, NEW s \in Terminal, up, pc[w] \in Busy, Settle(w, s)
  PROVE  SInv'
<1> USE WorkerFacts, KeyFacts DEF SInv, Settle, Verified, Go, bonus
<1>1. TypeOK'
  <2>1. status' \in [Keys -> {"none", "pending"} \cup Terminal]  BY DEF TypeOK
  <2>2. pc' \in [Workers -> Stages]  BY DEF TypeOK, Stages
  <2> QED  BY <2>1, <2>2 DEF TypeOK
<1>2. KeyInv'  BY DEF KeyInv, TypeOK, Served, Busy
<1>3. RowInv'  BY DEF RowInv, TypeOK, Busy, Terminal
<1>4. DownInv' /\ BornInv'  BY DEF DownInv, BornInv
<1> QED  BY <1>1, <1>2, <1>3, <1>4

LEMMA SInvVerify ==
  ASSUME SInv, NEW w \in Workers, Verify(w)
  PROVE  SInv'
<1> USE DEF At
<1>1. CASE VerifyStarts(w)
  <2> USE <1>1, WorkerFacts, KeyFacts DEF SInv, VerifyStarts, Verified, Go, rows, bonus
  <2>1. TypeOK'  BY DEF TypeOK, Stages
  <2>2. KeyInv'  BY DEF KeyInv, TypeOK, Served, Busy
  <2>3. RowInv'  BY DEF RowInv, TypeOK, Busy, Terminal
  <2>4. DownInv' /\ BornInv'  BY DEF DownInv, BornInv
  <2> QED  BY <2>1, <2>2, <2>3, <2>4
<1>2. CASE GivesUp(w)
  BY <1>2, Settling DEF GivesUp, Terminal, Busy
<1>3. CASE OffTheLine(w)
  BY <1>3, Settling DEF OffTheLine, Terminal, Busy
<1>4. CASE Exports(w)
  <2> USE <1>4, WorkerFacts, KeyFacts DEF SInv, Exports, Go, rows, bonus
  <2>1. TypeOK'  BY DEF TypeOK, Stages
  <2>2. KeyInv'  BY DEF KeyInv, TypeOK, Served, Busy
  <2>3. RowInv'  BY DEF RowInv, TypeOK, Busy, Terminal
  <2>4. DownInv' /\ BornInv'  BY DEF DownInv, BornInv
  <2> QED  BY <2>1, <2>2, <2>3, <2>4
<1>5. CASE \E s \in Terminal : Scans(w, s)
  BY <1>5, Settling DEF Scans, Busy, Terminal
<1> QED  BY <1>1, <1>2, <1>3, <1>4, <1>5 DEF Verify

LEMMA SInvReport ==
  ASSUME SInv, NEW r \in Reports, Report(r) \/ ReportFinds(r) \/ Inserts(r)
  PROVE  SInv'
<1> USE WorkerFacts, KeyFacts DEF SInv, At, Go, rows, bonus
<1>1. CASE Report(r)
  <2> USE <1>1 DEF Report
  <2>1. TypeOK'  BY DEF TypeOK, Stages
  <2>2. KeyInv'  BY DEF KeyInv, TypeOK
  <2>3. RowInv'  BY DEF RowInv, TypeOK, Busy
  <2>4. DownInv' /\ BornInv'  BY DEF DownInv, BornInv
  <2> QED  BY <2>1, <2>2, <2>3, <2>4
<1>2. CASE ReportFinds(r)
  <2> USE <1>2 DEF ReportFinds
  <2>1. TypeOK'  BY DEF TypeOK, Stages
  <2>2. KeyInv'  BY DEF KeyInv, TypeOK
  <2>3. RowInv'  BY DEF RowInv, TypeOK, Busy, Rows
  <2>4. DownInv' /\ BornInv'  BY DEF DownInv, BornInv
  <2> QED  BY <2>1, <2>2, <2>3, <2>4
<1>3. CASE Inserts(r)
  <2>1. PICK rewritten \in BOOLEAN : ReportInserts(r, rewritten)  BY <1>3 DEF Inserts
  <2>2. CASE key[r] \in Rows
    <3> USE <2>1, <2>2 DEF ReportInserts
    <3>1. TypeOK'  BY DEF TypeOK, Stages
    <3>2. KeyInv'  BY DEF KeyInv, TypeOK
    <3>3. RowInv'  BY DEF RowInv, TypeOK, Busy
    <3>4. DownInv' /\ BornInv'  BY DEF DownInv, BornInv
    <3> QED  BY <3>1, <3>2, <3>3, <3>4
  <2>3. CASE key[r] \notin Rows
    <3> DEFINE s == IF rewritten THEN "unverified" ELSE "pending"
    <3> USE <2>1, <2>3 DEF ReportInserts
    <3>1. key[r] \in Commits /\ key[r] \in Keys  BY DEF KeyInv
    <3>2. Create(key[r], s) /\ s \in {"pending"} \cup Terminal  BY DEF Terminal
    <3>3. /\ status' \in [Keys -> {"none", "pending"} \cup Terminal]
          /\ born' \in [Keys -> Nat] /\ BornInv'
          /\ \A l \in Keys : status[l] # "none" => status'[l] # "none"
          /\ status'[key[r]] # "none"
      BY <3>1, <3>2, Creating
    <3>4. TypeOK'  BY <3>1, <3>3 DEF TypeOK, Stages
    <3>5. KeyInv'  BY DEF KeyInv, TypeOK
    <3>6. RowInv'  BY <3>3 DEF RowInv, TypeOK, Busy
    <3>7. DownInv'  BY DEF DownInv
    <3> QED  BY <3>3, <3>4, <3>5, <3>6, <3>7
  <2> QED  BY <2>2, <2>3
<1> QED  BY <1>1, <1>2, <1>3

LEMMA SInvClose ==
  ASSUME SInv, NEW c \in Closers,
         Close(c) \/ FinalResolved(c) \/ CloserFinds(c) \/ CloserInserts(c)
  PROVE  SInv'
<1> USE WorkerFacts, KeyFacts DEF SInv, At, Go, rows, bonus
<1>1. CASE Close(c)
  <2> USE <1>1 DEF Close
  <2>1. TypeOK'  BY DEF TypeOK, Stages
  <2>2. KeyInv'  BY DEF KeyInv, TypeOK
  <2>3. RowInv'  BY DEF RowInv, TypeOK, Busy
  <2>4. DownInv' /\ BornInv'  BY DEF DownInv, BornInv
  <2> QED  BY <2>1, <2>2, <2>3, <2>4
<1>2. CASE FinalResolved(c)
  <2> USE <1>2 DEF FinalResolved
  <2>1. TypeOK'  BY DEF TypeOK, Stages
  <2>2. KeyInv'  BY DEF KeyInv, TypeOK
  <2>3. RowInv'  BY DEF RowInv, TypeOK, Busy
  <2>4. DownInv' /\ BornInv'  BY DEF DownInv, BornInv
  <2> QED  BY <2>1, <2>2, <2>3, <2>4
<1>3. CASE CloserFinds(c)
  <2> USE <1>3 DEF CloserFinds
  <2>1. TypeOK'  BY DEF TypeOK, Stages
  <2>2. KeyInv'  BY DEF KeyInv, TypeOK
  <2>3. RowInv'  BY DEF RowInv, TypeOK, Busy, Rows
  <2>4. DownInv' /\ BornInv'  BY DEF DownInv, BornInv
  <2> QED  BY <2>1, <2>2, <2>3, <2>4
<1>4. CASE CloserInserts(c)
  <2>1. CASE key[c] \in Rows
    <3> USE <1>4, <2>1 DEF CloserInserts
    <3>1. TypeOK'  BY DEF TypeOK, Stages
    <3>2. KeyInv'  BY DEF KeyInv, TypeOK
    <3>3. RowInv'  BY DEF RowInv, TypeOK, Busy
    <3>4. DownInv' /\ BornInv'  BY DEF DownInv, BornInv
    <3> QED  BY <3>1, <3>2, <3>3, <3>4
  <2>2. CASE key[c] \notin Rows
    <3> DEFINE s == IF key[c] = Final THEN "pending" ELSE "commit_missing"
    <3> USE <1>4, <2>2 DEF CloserInserts
    <3>1. key[c] \in Keys  BY DEF KeyInv
    <3>2. Create(key[c], s) /\ s \in {"pending"} \cup Terminal  BY DEF Terminal
    <3>3. /\ status' \in [Keys -> {"none", "pending"} \cup Terminal]
          /\ born' \in [Keys -> Nat] /\ BornInv'
          /\ \A l \in Keys : status[l] # "none" => status'[l] # "none"
          /\ status'[key[c]] # "none"
      BY <3>1, <3>2, Creating
    <3>4. TypeOK'  BY <3>1, <3>3 DEF TypeOK, Stages
    <3>5. KeyInv'  BY DEF KeyInv, TypeOK
    <3>6. RowInv'  BY <3>3 DEF RowInv, TypeOK, Busy
    <3>7. DownInv'  BY DEF DownInv
    <3> QED  BY <3>3, <3>4, <3>5, <3>6, <3>7
  <2> QED  BY <2>1, <2>2
<1> QED  BY <1>1, <1>2, <1>3, <1>4

LEMMA SInvPays ==
  ASSUME SInv, NEW c \in Closers, Award(c) \/ Pay(c)
  PROVE  SInv'
<1> USE WorkerFacts, KeyFacts DEF SInv, At, Go, rows, bonus
<1>1. CASE Award(c)
  <2> USE <1>1 DEF Award
  <2>1. Best \in Keys \cup {"none"}
    <3>1. Eligible \subseteq Keys  BY DEF Eligible
    <3>2. Eligible # {} => Best \in Keys
      <4> SUFFICES ASSUME Eligible # {} PROVE Best \in Keys  OBVIOUS
      <4>1. \E k \in Eligible : \A l \in Eligible : born[l] <= born[k]  BY Latest
      <4> QED  BY <3>1, <4>1 DEF Best
    <3> QED  BY <3>2 DEF Best
  <2>2. TypeOK'  BY <2>1 DEF TypeOK, Stages
  <2>3. KeyInv'  BY DEF KeyInv, TypeOK
  <2>4. RowInv'  BY DEF RowInv, TypeOK, Busy
  <2>5. DownInv' /\ BornInv'  BY DEF DownInv, BornInv
  <2> QED  BY <2>2, <2>3, <2>4, <2>5
<1>2. CASE Pay(c)
  <2> USE <1>2 DEF Pay
  <2>1. TypeOK'
    <3>1. basis[c] \in Keys \cup {"none"}  BY DEF TypeOK
    <3>2. paid' \in Nat /\ paidOn' \in Keys \cup {"none"}  BY <3>1 DEF TypeOK
    <3> QED  BY <3>2 DEF TypeOK, Stages
  <2>2. KeyInv'  BY DEF KeyInv, TypeOK
  <2>3. RowInv'  BY DEF RowInv, TypeOK, Busy
  <2>4. DownInv' /\ BornInv'  BY DEF DownInv, BornInv
  <2> QED  BY <2>1, <2>2, <2>3, <2>4
<1> QED  BY <1>1, <1>2

LEMMA SInvWorld ==
  ASSUME SInv, (\E k \in Commits \cup {Final} : Push(k)) \/ Crash \/ Restart
  PROVE  SInv'
<1> USE WorkerFacts, KeyFacts DEF SInv, rows, bonus, workers
<1>1. ASSUME NEW k \in Commits \cup {Final}, Push(k) PROVE SInv'
  <2> USE <1>1 DEF Push
  <2>1. repo' \in [Commits \cup {Final} -> {"absent", "served", "off"}]  BY DEF TypeOK
  <2>2. TypeOK'  BY <2>1 DEF TypeOK
  <2>3. KeyInv' /\ RowInv' /\ DownInv' /\ BornInv'
    BY DEF KeyInv, RowInv, DownInv, BornInv
  <2> QED  BY <2>2, <2>3
<1>2. CASE Crash
  <2> USE <1>2 DEF Crash
  <2>1. \A w \in Workers :
          pc'[w] = IF w \in Resumes \/ pc[w] = "off" THEN "off" ELSE "done"
    OBVIOUS
  <2>2. \A w \in Workers : pc'[w] \in {"off", "done"}  BY <2>1
  <2>3. crashes' \in 0 .. MaxCrashes  BY WorkersAssumption DEF TypeOK
  <2>4. pc' \in [Workers -> Stages]  BY DEF Stages
  <2>5. TypeOK'  BY <2>3, <2>4 DEF TypeOK
  <2>6. KeyInv'  BY <2>1 DEF KeyInv, Served
  <2>7. RowInv' /\ DownInv'  BY <2>2 DEF RowInv, DownInv, Busy
  <2>8. BornInv'  BY DEF BornInv
  <2> QED  BY <2>5, <2>6, <2>7, <2>8
<1>3. CASE Restart
  <2> USE <1>3 DEF Restart
  <2>1. /\ \A w \in Workers : pc[w] \in {"off", "done"}
        /\ up' = TRUE
    BY DEF DownInv
  <2>2. \A w \in Workers : pc'[w] = "verify" \/ pc'[w] = pc[w]  OBVIOUS
  <2>3. \A w \in Workers : pc'[w] = "verify" => w \in Resumes /\ status[w[2]] = "pending"
    <3> SUFFICES ASSUME NEW w \in Workers, pc'[w] = "verify"
                 PROVE  w \in Resumes /\ status[w[2]] = "pending"
      OBVIOUS
    <3>1. PICK k \in Pending : w = <<"resume", k>>  BY <2>1
    <3> QED  BY <3>1 DEF Pending
  <2>4. \A w \in Workers : key'[w] = IF w \in Resumes THEN w[2] ELSE key[w]  OBVIOUS
  <2>5. pc' \in [Workers -> Stages]  BY <2>2 DEF TypeOK, Stages
  <2>6. key' \in [Workers -> Keys]
    <3>1. \A w \in Workers : key'[w] \in Keys  BY <2>4 DEF TypeOK
    <3> QED  BY <3>1
  <2>7. TypeOK'  BY <2>5, <2>6 DEF TypeOK
  <2>8. KeyInv'  BY <2>1, <2>2, <2>4 DEF KeyInv, Served, Busy
  <2>9. RowInv'  BY <2>1, <2>2, <2>3, <2>4 DEF RowInv, Busy
  <2>10. DownInv' /\ BornInv'  BY DEF DownInv, BornInv
  <2> QED  BY <2>7, <2>8, <2>9, <2>10
<1> QED  BY <1>1, <1>2, <1>3

LEMMA SInvStep == SInv /\ [Next]_vars => SInv'
<1> SUFFICES ASSUME SInv, [Next]_vars PROVE SInv'  OBVIOUS
<1>1. ASSUME NEW r \in Reports, Report(r) \/ Reporting(r) PROVE SInv'
  BY <1>1, SInvReport, SInvVerify, WorkerFacts DEF Reporting
<1>2. ASSUME NEW c \in Closers, Close(c) \/ Closing(c) PROVE SInv'
  BY <1>2, SInvClose, SInvVerify, SInvPays, WorkerFacts DEF Closing
<1>3. ASSUME NEW w \in Resumes, Verify(w) PROVE SInv'
  BY <1>3, SInvVerify, WorkerFacts
<1>4. CASE (\E k \in Commits \cup {Final} : Push(k)) \/ Crash \/ Restart
  BY <1>4, SInvWorld
<1>5. CASE UNCHANGED vars
  BY <1>5 DEF vars, rows, workers, bonus, SInv, TypeOK, KeyInv, RowInv, DownInv, BornInv
<1> QED  BY <1>1, <1>2, <1>3, <1>4, <1>5 DEF Next

\* Every checkpoint, worker and bonus is of its kind in every reachable state:
\* in particular only probes' checkpoints are ever marked late.
THEOREM HealthTyped == Spec => []TypeOK
<1>1. SInv => TypeOK  BY DEF SInv
<1> QED  BY <1>1, SInvInit, SInvStep, PTL DEF Spec

-----------------------------------------------------------------------------
(* BasisInv is inductive                                                   *)

\* A row stays a row, and only a checkpoint without one becomes late.
Grows ==
  /\ \A k \in Keys : status[k] # "none" => status'[k] # "none"
  /\ \A k \in Keys : k \in late' => k \in late \/ status[k] = "none"

LEMMA RowsGrow == SInv /\ [Next]_vars => Grows
<1> SUFFICES ASSUME SInv, [Next]_vars PROVE Grows  OBVIOUS
<1> USE WorkerFacts, KeyFacts DEF Grows, SInv, TypeOK, rows, bonus, workers, Go, At
<1>1. ASSUME NEW w \in Workers, Verify(w) PROVE Grows
  BY <1>1 DEF Verify, VerifyStarts, GivesUp, OffTheLine, Exports, Scans, Settle, Verified
<1>2. ASSUME NEW r \in Reports, Report(r) \/ ReportFinds(r) \/ Inserts(r) PROVE Grows
  <2>1. CASE Report(r) \/ ReportFinds(r)  BY <2>1 DEF Report, ReportFinds
  <2>2. ASSUME NEW rewritten \in BOOLEAN, ReportInserts(r, rewritten) PROVE Grows
    <3>1. CASE key[r] \in Rows  BY <2>2, <3>1 DEF ReportInserts
    <3>2. CASE key[r] \notin Rows
      <4>1. key[r] \in Keys /\ status[key[r]] = "none"  BY <3>2 DEF Rows
      <4>2. status' = [status EXCEPT ![key[r]] = IF rewritten THEN "unverified" ELSE "pending"]
        BY <2>2, <3>2 DEF ReportInserts, Create
      <4>3. late' = late \/ late' = late \cup {key[r]}  BY <2>2, <3>2 DEF ReportInserts
      <4> QED  BY <4>1, <4>2, <4>3
    <3> QED  BY <3>1, <3>2
  <2> QED  BY <1>2, <2>1, <2>2 DEF Inserts
<1>3. ASSUME NEW c \in Closers,
             Close(c) \/ FinalResolved(c) \/ CloserFinds(c) \/ CloserInserts(c)
      PROVE  Grows
  BY <1>3 DEF Close, FinalResolved, CloserFinds, CloserInserts, Create, Rows
<1>4. ASSUME NEW c \in Closers, Award(c) \/ Pay(c) PROVE Grows
  BY <1>4 DEF Award, Pay
<1>5. CASE (\E k \in Commits \cup {Final} : Push(k)) \/ Crash \/ Restart
  BY <1>5 DEF Push, Crash, Restart
<1>6. CASE UNCHANGED vars  BY <1>6 DEF vars
<1> QED  BY <1>1, <1>2, <1>3, <1>4, <1>5, <1>6 DEF Next, Reporting, Closing

LEMMA StaysPayable ==
  ASSUME Grows, NEW k, Payable(k)
  PROVE  k = "none" \/ (k \in Keys \ late' /\ status'[k] # "none")
BY DEF Grows, Payable

\* What a close is about to be paid on has a row, and was in time.
LEMMA BestIsPayable ==
  ASSUME SInv
  PROVE  Payable(Best)
<1>1. CASE status[Final] = "ok"
  BY <1>1, KeyFacts DEF Best, Payable, SInv, TypeOK
<1>2. CASE status[Final] # "ok" /\ Eligible = {}
  BY <1>2 DEF Best, Payable
<1>3. CASE status[Final] # "ok" /\ Eligible # {}
  <2>1. \E k \in Eligible : \A l \in Eligible : born[l] <= born[k]  BY <1>3, Latest
  <2>2. Best \in Eligible  BY <1>3, <2>1 DEF Best
  <2> QED  BY <2>2, KeyFacts DEF Eligible, Payable
<1> QED  BY <1>1, <1>2, <1>3

LEMMA BasisStep == SInv /\ BasisInv /\ [Next]_vars => BasisInv'
<1> SUFFICES ASSUME SInv, BasisInv, [Next]_vars PROVE BasisInv'  OBVIOUS
<1>1. Grows  BY RowsGrow
<1> DEFINE Still(k) == k = "none" \/ (k \in Keys \ late' /\ status'[k] # "none")
<1>2. Still(paidOn) /\ \A c \in Closers : Still(basis[c])
  BY <1>1, StaysPayable DEF BasisInv
<1>3. ASSUME UNCHANGED <<basis, bonus>> PROVE BasisInv'
  BY <1>2, <1>3 DEF BasisInv, Payable, bonus
<1>4. ASSUME NEW c \in Closers, Award(c) PROVE BasisInv'
  <2> USE <1>4 DEF Award, rows, bonus
  <2>1. Still(Best)  BY <1>1, BestIsPayable, StaysPayable
  <2>2. basis' = basis \/ basis' = [basis EXCEPT ![c] = Best]  OBVIOUS
  <2>3. ASSUME NEW d \in Closers PROVE Still(basis'[d])
    BY <1>2, <2>1, <2>2 DEF SInv, TypeOK
  <2>4. paid' = paid /\ paidOn' = paidOn  OBVIOUS
  <2> QED  BY <1>2, <2>3, <2>4 DEF BasisInv, Payable
<1>5. ASSUME NEW c \in Closers, Pay(c) PROVE BasisInv'
  BY <1>2, <1>5 DEF BasisInv, Payable, Pay, bonus
<1>6. ASSUME NEW w \in Workers, Verify(w) PROVE BasisInv'
  BY <1>3, <1>6 DEF Verify, VerifyStarts, GivesUp, OffTheLine, Exports, Scans, Settle
<1>7. ASSUME NEW r \in Reports, Report(r) \/ ReportFinds(r) \/ Inserts(r) PROVE BasisInv'
  BY <1>3, <1>7 DEF Report, ReportFinds, Inserts, ReportInserts
<1>8. ASSUME NEW c \in Closers,
             Close(c) \/ FinalResolved(c) \/ CloserFinds(c) \/ CloserInserts(c)
      PROVE  BasisInv'
  BY <1>3, <1>8 DEF Close, FinalResolved, CloserFinds, CloserInserts
<1>9. CASE (\E k \in Commits \cup {Final} : Push(k)) \/ Crash \/ Restart
  BY <1>3, <1>9 DEF Push, Crash, Restart, workers
<1>10. CASE UNCHANGED vars  BY <1>3, <1>10 DEF vars, workers
<1> QED
  BY <1>4, <1>5, <1>6, <1>7, <1>8, <1>9, <1>10, WorkerFacts DEF Next, Reporting, Closing

-----------------------------------------------------------------------------
(* FinalInv is inductive                                                   *)

\* A step that leaves the closers, the bonus and the final checkpoint alone.
LEMMA FinalFrame ==
  ASSUME FinalInv, UNCHANGED <<basis, paid, paidOn>>, status'[Final] = status[Final],
         \A c \in Closers : pc'[c] = pc[c] /\ key'[c] = key[c],
         pc'[Resumed] \in Busy => pc[Resumed] \in Busy
  PROVE  FinalInv'
<1>1. ASSUME NEW c \in Closers, OnlyClose(c) PROVE OnlyClose(c)'
  BY <1>1 DEF OnlyClose, Alone, Quiet
<1>2. \A c \in Closers : Started(c)' <=> Started(c)  BY DEF Started
<1>3. ClosedOnce' => ClosedOnce  BY <1>2 DEF ClosedOnce
<1> QED  BY <1>1, <1>2, <1>3 DEF FinalInv

\* A step of a closer: if it is the only one, what holds of it still does.
LEMMA CloserFrame ==
  ASSUME FinalInv, NEW c \in Closers, pc[c] # "off",
         \A d \in Closers : pc[d] # "off" => pc'[d] # "off",
         OnlyClose(c) => OnlyClose(c)'
  PROVE  FinalInv'
<1>1. ClosedOnce' => ClosedOnce  BY DEF ClosedOnce, Started
<1>2. Started(c) /\ Started(c)'  BY DEF Started
<1>3. ASSUME ClosedOnce', NEW d \in Closers, Started(d)' PROVE OnlyClose(d)'
  <2>1. d = c  BY <1>2, <1>3 DEF ClosedOnce
  <2>2. OnlyClose(c)  BY <1>1, <1>2, <1>3 DEF FinalInv
  <2> QED  BY <2>1, <2>2
<1>4. ~ (\A d \in Closers : pc'[d] = "off")  BY <1>2 DEF Started
<1> QED  BY <1>3, <1>4 DEF FinalInv

\* While the final checkpoint is verified again, no close is being paid.
LEMMA ResumedFrame ==
  ASSUME SInv, FinalInv, pc[Resumed] \in Busy, UNCHANGED <<paid, paidOn>>,
         \A c \in Closers : pc'[c] = pc[c]
  PROVE  FinalInv'
<1>1. key[Resumed] = Final /\ status[Final] # "none"
  <2>1. pc[Resumed] # "off"  BY DEF Busy
  <2> QED  BY <2>1, WorkerFacts DEF SInv, KeyInv, RowInv
<1>2. ~ (\A c \in Closers : pc'[c] = "off")  BY <1>1 DEF FinalInv
<1>3. ASSUME ClosedOnce', NEW c \in Closers, Started(c)' PROVE OnlyClose(c)'
  <2>1. ClosedOnce /\ Started(c)  BY <1>3 DEF ClosedOnce, Started
  <2>2. OnlyClose(c)  BY <2>1 DEF FinalInv
  <2>3. ~ Alone /\ ~ Quiet  BY DEF Alone, Quiet
  <2>4. paid # 1 /\ pc[c] \notin {"final", "find", "insert", "award", "pay"} \cup Busy
    BY <1>1, <2>2, <2>3 DEF OnlyClose
  <2>5. pc'[c] = pc[c] /\ paid' = paid  OBVIOUS
  <2> QED  BY <2>4, <2>5 DEF OnlyClose
<1> QED  BY <1>2, <1>3 DEF FinalInv

\* Before there is a final checkpoint, it is not being verified.
LEMMA NotYet ==
  ASSUME SInv, status[Final] = "none"
  PROVE  Alone
BY WorkerFacts DEF SInv, KeyInv, RowInv, Alone, Busy

LEMMA FinalVerify ==
  ASSUME SInv, FinalInv, NEW w \in Workers, Verify(w)
  PROVE  FinalInv'
<1> USE WorkerFacts, KeyFacts DEF At
<1>1. pc[w] \in Busy /\ up
  BY DEF Verify, VerifyStarts, GivesUp, OffTheLine, Exports, Scans, Busy
<1> DEFINE same == UNCHANGED <<key, basis, paid, paidOn>>
           next == IF w \in Closers THEN "award" ELSE "done"
           settles(s) == /\ status' = [status EXCEPT ![key[w]] = s]
                         /\ pc' = [pc EXCEPT ![w] = next]
           skips == /\ status' = status /\ status[key[w]] # "pending"
                    /\ pc' = [pc EXCEPT ![w] = next]
           works == /\ status' = status
                    /\ \E to \in Busy : pc' = [pc EXCEPT ![w] = to]
<1>2. /\ UNCHANGED <<key, basis, paid, paidOn>>
      /\ (\E s \in Terminal : settles(s)) \/ skips \/ works
  <2> USE DEF Go, Verified, rows, bonus
  <2>1. ASSUME NEW s \in Terminal, Settle(w, s) PROVE same /\ settles(s)
    BY <2>1 DEF Settle
  <2>2. ASSUME VerifyStarts(w) PROVE same /\ (skips \/ works)
    BY <2>2 DEF VerifyStarts, Busy
  <2>3. ASSUME Exports(w) PROVE same /\ works
    BY <2>3 DEF Exports, Busy
  <2>4. ASSUME GivesUp(w) \/ OffTheLine(w) \/ \E s \in Terminal : Scans(w, s)
        PROVE  \E s \in Terminal : Settle(w, s)
    BY <2>4 DEF GivesUp, OffTheLine, Scans, Terminal
  <2> HIDE DEF settles, skips, works
  <2> QED  BY <2>1, <2>2, <2>3, <2>4 DEF Verify
<1>3. /\ \E to \in Busy \cup {next} : pc' = [pc EXCEPT ![w] = to]
      /\ status' = status \/ \E s \in Terminal : status' = [status EXCEPT ![key[w]] = s]
      /\ pc'[w] = "award" /\ key[w] = Final => status'[Final] # "pending"
  BY <1>2, <1>1 DEF SInv, TypeOK, Terminal, Busy
<1>4. \A d \in Workers : d # w => pc'[d] = pc[d]  BY <1>3 DEF SInv, TypeOK
<1>5. CASE w = Resumed
  BY <1>1, <1>2, <1>4, <1>5, ResumedFrame
<1>6. CASE w \in (Reports \cup Resumes) \ {Resumed}
  <2>1. key[w] # Final
    <3>1. CASE w \in Reports  BY <3>1 DEF SInv, KeyInv
    <3>2. CASE w \in Resumes
      <4>1. key[w] = w[2]  BY <1>1, <3>2 DEF SInv, KeyInv, Busy
      <4>2. w[2] # Final  BY <1>6, <3>2 DEF Resumed
      <4> QED  BY <4>1, <4>2
    <3> QED  BY <1>6, <3>1, <3>2
  <2>2. status'[Final] = status[Final]  BY <1>3, <2>1 DEF SInv, TypeOK
  <2>3. pc'[Resumed] = pc[Resumed] /\ \A c \in Closers : pc'[c] = pc[c]  BY <1>4, <1>6
  <2> QED  BY <1>2, <2>2, <2>3, FinalFrame
<1>7. CASE w \in Closers
  <2>1. pc'[Resumed] = pc[Resumed]  BY <1>4, <1>7
  <2>2. pc'[w] \in Busy \cup {"award"}
    BY <1>7, <1>3 DEF SInv, TypeOK
  <2>3. ASSUME OnlyClose(w) PROVE OnlyClose(w)'
    <3>1. paid = 0 /\ key[w] = Final /\ Alone  BY <1>1, <2>3 DEF OnlyClose
    <3>2. paid' = 0 /\ key'[w] = Final  BY <1>2, <3>1
    <3>3. Alone'  BY <2>1, <3>1 DEF Alone
    <3>4. pc'[w] = "award" => status'[Final] # "pending"
      BY <1>3, <3>1
    <3> QED  BY <2>2, <3>2, <3>3, <3>4 DEF OnlyClose, Busy, Quiet
  <2>4. pc[w] # "off" /\ \A d \in Closers : pc[d] # "off" => pc'[d] # "off"
    BY <1>1, <1>4, <2>2 DEF Busy
  <2> QED  BY <1>7, <2>3, <2>4, CloserFrame
<1> QED  BY <1>5, <1>6, <1>7

LEMMA FinalReport ==
  ASSUME SInv, FinalInv, NEW r \in Reports, Report(r) \/ ReportFinds(r) \/ Inserts(r)
  PROVE  FinalInv'
<1> USE WorkerFacts, KeyFacts DEF SInv, TypeOK, Go, rows, bonus
<1>1. key[r] # Final  BY DEF KeyInv
<1>2. UNCHANGED <<key, basis, paid, paidOn>> /\ \A d \in Workers : d # r => pc'[d] = pc[d]
  BY DEF Report, ReportFinds, Inserts, ReportInserts
<1>3. status'[Final] = status[Final]
  BY <1>1 DEF Report, ReportFinds, Inserts, ReportInserts, Create
<1>4. r # Resumed /\ r \notin Closers  OBVIOUS
<1>5. pc'[Resumed] = pc[Resumed] /\ \A c \in Closers : pc'[c] = pc[c]  BY <1>2, <1>4
<1> HIDE DEF SInv, TypeOK
<1> QED  BY <1>2, <1>3, <1>5, FinalFrame

LEMMA FinalClose ==
  ASSUME SInv, FinalInv, NEW c \in Closers,
         \/ Close(c) \/ FinalResolved(c) \/ CloserFinds(c) \/ CloserInserts(c)
         \/ Award(c) \/ Pay(c)
  PROVE  FinalInv'
<1> USE WorkerFacts, KeyFacts DEF Go, At, rows, bonus
<1>1. \A d \in Workers : d # c => pc'[d] = pc[d]
  BY DEF Close, FinalResolved, CloserFinds, CloserInserts, Award, Pay, SInv, TypeOK
<1>2. pc'[Resumed] = pc[Resumed]  BY <1>1
<1>3. pc'[c] # "off"
  BY DEF Close, FinalResolved, CloserFinds, CloserInserts, Award, Pay, SInv, TypeOK
<1>4. \A d \in Closers : pc[d] # "off" => pc'[d] # "off"  BY <1>1, <1>3
<1>5. CASE Close(c)
  <2> USE <1>5 DEF Close
  <2>1. pc'[c] = "final"  BY DEF SInv, TypeOK
  <2>2. ASSUME ClosedOnce', NEW d \in Closers, Started(d)' PROVE OnlyClose(d)'
    <3>1. \A e \in Closers : Started(e)' => e = c
      BY <1>3, <2>2 DEF ClosedOnce, Started
    <3>2. \A e \in Closers : pc[e] = "off"
      BY <1>4, <3>1 DEF Started
    <3>3. status[Final] = "none" /\ paid = 0  BY <3>2 DEF FinalInv
    <3>4. d = c  BY <2>2, <3>1
    <3>5. status'[Final] = "none" /\ paid' = 0  BY <3>3
    <3> QED  BY <2>1, <3>4, <3>5 DEF OnlyClose, Busy
  <2>3. ~ (\A d \in Closers : pc'[d] = "off")  BY <1>3
  <2> QED  BY <2>2, <2>3 DEF FinalInv
<1>6. ASSUME pc[c] # "off", OnlyClose(c) => OnlyClose(c)' PROVE FinalInv'
  BY <1>4, <1>6, CloserFrame
<1>7. CASE FinalResolved(c)
  <2> USE <1>7 DEF FinalResolved
  <2>1. pc[c] = "final" /\ pc'[c] = "find"  BY DEF SInv, TypeOK
  <2>2. ASSUME OnlyClose(c) PROVE OnlyClose(c)'
    BY <2>1, <2>2 DEF OnlyClose, Busy
  <2> QED  BY <1>6, <2>1, <2>2
<1>8. CASE CloserFinds(c)
  <2> USE <1>8 DEF CloserFinds
  <2>1. pc[c] = "find" /\ pc'[c] \in {"insert", "verify", "award"}  BY DEF SInv, TypeOK
  <2>2. ASSUME OnlyClose(c) PROVE OnlyClose(c)'
    <3>1. status[Final] = "none" /\ paid = 0  BY <2>1, <2>2 DEF OnlyClose
    <3>2. status'[Final] = "none" /\ paid' = 0  BY <3>1
    <3>3. pc'[c] # "verify"
      BY <3>1 DEF SInv, TypeOK, Rows
    <3>4. Alone'  BY <1>2, <3>1, NotYet DEF Alone
    <3> QED  BY <2>1, <3>2, <3>3, <3>4 DEF OnlyClose, Busy, Quiet
  <2> QED  BY <1>6, <2>1, <2>2
<1>9. CASE CloserInserts(c)
  <2> USE <1>9 DEF CloserInserts
  <2>1. pc[c] = "insert" /\ key' = key /\ paid' = paid  OBVIOUS
  <2>2. ASSUME OnlyClose(c) PROVE OnlyClose(c)'
    <3>1. status[Final] = "none" /\ paid = 0  BY <2>1, <2>2 DEF OnlyClose
    <3>2. paid' = 0  BY <3>1
    <3>3. Alone'  BY <1>2, <3>1, NotYet DEF Alone
    <3>4. CASE key[c] \in Rows
      <4>1. pc'[c] = "done"  BY <3>4 DEF SInv, TypeOK
      <4> QED  BY <3>2, <4>1 DEF OnlyClose, Busy
    <3>5. CASE key[c] \notin Rows /\ key[c] = Final
      <4>1. pc'[c] = "verify" /\ key'[c] = Final  BY <3>5 DEF SInv, TypeOK
      <4> QED  BY <3>2, <3>3, <4>1 DEF OnlyClose, Busy
    <3>6. CASE key[c] \notin Rows /\ key[c] # Final
      <4>1. pc'[c] = "award"  BY <3>6 DEF SInv, TypeOK
      <4>2. status'[Final] = "none"  BY <3>1, <3>6 DEF Create, SInv, TypeOK
      <4> QED  BY <3>2, <3>3, <4>1, <4>2 DEF OnlyClose, Busy, Quiet
    <3> QED  BY <3>4, <3>5, <3>6
  <2> QED  BY <1>6, <2>1, <2>2
<1>10. CASE Award(c)
  <2> USE <1>10 DEF Award
  <2>1. pc[c] = "award"  OBVIOUS
  <2>2. ASSUME OnlyClose(c) PROVE OnlyClose(c)'
    <3>1. paid = 0 /\ Quiet  BY <2>1, <2>2 DEF OnlyClose
    <3>2. /\ pc'[c] = "pay" /\ basis'[c] = Best /\ paid' = 0
          /\ status' = status
      BY <3>1 DEF SInv, TypeOK
    <3>3. Quiet'  BY <1>2, <3>1, <3>2 DEF Quiet, Alone
    <3>4. status'[Final] = "ok" => basis'[c] = Final  BY <3>2 DEF Best
    <3> QED  BY <3>2, <3>3, <3>4 DEF OnlyClose, Busy
  <2> QED  BY <1>6, <2>1, <2>2
<1>11. CASE Pay(c)
  <2> USE <1>11 DEF Pay
  <2>1. pc[c] = "pay"  OBVIOUS
  <2>2. ASSUME OnlyClose(c) PROVE OnlyClose(c)'
    <3>1. paid = 0 /\ Quiet /\ (status[Final] = "ok" => basis[c] = Final)
      BY <2>1, <2>2 DEF OnlyClose
    <3>2. pc'[c] = "done" /\ paidOn' = basis[c] /\ status' = status
      BY <3>1 DEF SInv, TypeOK
    <3>3. Quiet'  BY <1>2, <3>1, <3>2 DEF Quiet, Alone
    <3> QED  BY <3>1, <3>2, <3>3 DEF OnlyClose, Busy
  <2> QED  BY <1>6, <2>1, <2>2
<1> QED  BY <1>5, <1>7, <1>8, <1>9, <1>10, <1>11

LEMMA FinalWorld ==
  ASSUME SInv, FinalInv, (\E k \in Commits \cup {Final} : Push(k)) \/ Crash \/ Restart
  PROVE  FinalInv'
<1> USE WorkerFacts, KeyFacts DEF rows, bonus, workers
<1>1. ASSUME NEW k \in Commits \cup {Final}, Push(k) PROVE FinalInv'
  BY <1>1, FinalFrame DEF Push
<1>2. UNCHANGED <<basis, status, paid, paidOn>>
      \/ \E k \in Commits \cup {Final} : Push(k)
  BY DEF Crash, Restart
<1>3. CASE Crash
  <2> USE <1>3 DEF Crash
  <2>1. \A c \in Closers : pc'[c] = IF pc[c] = "off" THEN "off" ELSE "done"  OBVIOUS
  <2>2. pc'[Resumed] = "off"  OBVIOUS
  <2>3. \A c \in Closers : Started(c)' <=> Started(c)  BY <2>1 DEF Started
  <2>4. ASSUME NEW c \in Closers, Started(c), OnlyClose(c) PROVE OnlyClose(c)'
    <3>1. pc'[c] = "done"  BY <2>1, <2>4 DEF Started
    <3>2. Alone'  BY <2>2 DEF Alone, Busy
    <3> QED  BY <2>4, <3>1, <3>2 DEF OnlyClose, Busy, Quiet
  <2>5. ClosedOnce' => ClosedOnce  BY <2>3 DEF ClosedOnce
  <2>6. (\A c \in Closers : pc'[c] = "off") => \A c \in Closers : pc[c] = "off"  BY <2>1
  <2> QED  BY <2>3, <2>4, <2>5, <2>6 DEF FinalInv
<1>4. CASE Restart
  <2> USE <1>4 DEF Restart
  <2>1. \A w \in Workers : pc[w] \in {"off", "done"}  BY DEF SInv, DownInv
  <2>2. \A c \in Closers : pc'[c] = pc[c]
    <3>1. \A k \in Pending : <<"resume", k>> \in Resumes  BY DEF Pending
    <3> QED  BY <3>1
  <2>3. status[Final] # "pending" => pc'[Resumed] = pc[Resumed]
    <3>1. Resumed \in {<<"resume", k>> : k \in Pending} => status[Final] = "pending"
      BY DEF Resumed, Pending
    <3> QED  BY <3>1
  <2>4. \A c \in Closers : Started(c)' <=> Started(c)  BY <2>2 DEF Started
  <2>5. ASSUME NEW c \in Closers, OnlyClose(c), Started(c) PROVE OnlyClose(c)'
    <3>1. pc'[c] = "done"  BY <2>1, <2>2, <2>5 DEF Started
    <3>2. ASSUME paid = 1 PROVE Quiet' /\ (status'[Final] = "ok" => paidOn' = Final)
      <4>1. Quiet /\ (status[Final] = "ok" => paidOn = Final)  BY <2>5, <3>2 DEF OnlyClose
      <4>2. pc'[Resumed] = pc[Resumed]  BY <2>3, <4>1 DEF Quiet
      <4>3. status' = status /\ paidOn' = paidOn  OBVIOUS
      <4> QED  BY <4>1, <4>2, <4>3 DEF Quiet, Alone
    <3> QED  BY <3>1, <3>2 DEF OnlyClose, Busy
  <2>6. ClosedOnce' => ClosedOnce  BY <2>4 DEF ClosedOnce
  <2> QED  BY <2>2, <2>4, <2>5, <2>6 DEF FinalInv
<1> QED  BY <1>1, <1>3, <1>4

LEMMA FinalStep == SInv /\ FinalInv /\ [Next]_vars => FinalInv'
<1> SUFFICES ASSUME SInv, FinalInv, [Next]_vars PROVE FinalInv'  OBVIOUS
<1>1. ASSUME NEW r \in Reports, Report(r) \/ Reporting(r) PROVE FinalInv'
  BY <1>1, FinalReport, FinalVerify, WorkerFacts DEF Reporting
<1>2. ASSUME NEW c \in Closers, Close(c) \/ Closing(c) PROVE FinalInv'
  BY <1>2, FinalClose, FinalVerify, WorkerFacts DEF Closing
<1>3. ASSUME NEW w \in Resumes, Verify(w) PROVE FinalInv'
  BY <1>3, FinalVerify, WorkerFacts
<1>4. CASE (\E k \in Commits \cup {Final} : Push(k)) \/ Crash \/ Restart
  BY <1>4, FinalWorld
<1>5. CASE UNCHANGED vars
  BY <1>5, FinalFrame DEF vars, rows, workers, bonus
<1> QED  BY <1>1, <1>2, <1>3, <1>4, <1>5 DEF Next

\* The health bonus is paid once, never on a checkpoint that was late, and on
\* the final tree if that verified and the task was closed once: for every
\* number of reports, closes, pushes and restarts.
THEOREM BonusIsPaidOnce == Spec => []PaidOnceOnBest
<1>1. Init => IInv
  <2>1. ASSUME Init PROVE BasisInv
    BY <2>1 DEF Init, BasisInv, Payable
  <2>2. ASSUME Init PROVE FinalInv
    BY <2>2, KeyFacts, WorkerFacts DEF Init, FinalInv, ClosedOnce, Started
  <2> QED  BY <2>1, <2>2, SInvInit DEF IInv
<1>2. IInv /\ [Next]_vars => IInv'
  BY SInvStep, BasisStep, FinalStep DEF IInv
<1>3. IInv => PaidOnceOnBest
  <2> SUFFICES ASSUME SInv, BasisInv, FinalInv PROVE PaidOnceOnBest  BY DEF IInv
  <2>1. paid <= 1  BY DEF BasisInv
  <2>2. paidOn \notin late  BY KeyFacts DEF BasisInv, Payable, SInv, TypeOK
  <2>3. ASSUME paid = 1, status[Final] = "ok", ClosedOnce PROVE paidOn = Final
    <3>1. PICK c \in Closers : pc[c] # "off"  BY <2>3 DEF FinalInv
    <3>2. OnlyClose(c)  BY <2>3, <3>1 DEF FinalInv, Started
    <3> QED  BY <2>3, <3>2 DEF OnlyClose
  <2> QED  BY <2>1, <2>2, <2>3 DEF PaidOnceOnBest
<1> QED  BY <1>1, <1>2, <1>3, PTL DEF Spec
=============================================================================
