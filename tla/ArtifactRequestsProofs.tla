----------------------- MODULE ArtifactRequestsProofs -----------------------
(***************************************************************************)
(* What holds of ArtifactRequests for any number of judges, instructions,  *)
(* requests and polls.                                                     *)
(***************************************************************************)
EXTENDS ArtifactRequests, FiniteSetTheorems, TLAPS

Taken == {n \in Existing : Capture(n)}

\* A judge that looks has its own captures in view; one that goes on to ask
\* for a capture has budget left.
Asking(j) == run[j].stage \in {"number", "insert"}
LookInv == \A j \in Judges :
  /\ At(j, "looking") => /\ run[j].ask \in Captures
                         /\ run[j].saw \subseteq Taken /\ Asked(j) \subseteq run[j].saw
  /\ Asking(j) => run[j].ask \in Asks
BudgetInv == \A j \in Judges :
  /\ Cardinality(Asked(j)) <= Budget[j]
  /\ Asking(j) /\ run[j].ask \in Captures => Cardinality(Asked(j)) < Budget[j]

\* A judge that has seen less than the limit may yet add a capture to it.
May(j) == \/ Asking(j) /\ run[j].ask \in Captures
          \/ At(j, "looking") /\ Cardinality(run[j].saw) < Limit
LimitInv == Cardinality(Taken) + Cardinality({j \in Judges : May(j)}) <= Limit + Cardinality(Judges) - 1

\* Only a request is graded, and what has failed stays known for a command.
FailedInv == \A n \in Numbers :
  latest[n] = "error" => n \in Existing /\ (Capture(n) \/ n \in failed)

\* A run that waits for nothing and is not to mark its verdict has heard
\* everything, and so has the judge whose verdict stands in full.
Clear(j)    == \A n \in Awaited(j) : Heard(n)
Free(j)     == At(j, "free") /\ row[j] = "scored" /\ j \notin partial
Unburdened(j) == /\ run[j].stage \in {"queued", "judging", "looking", "number", "insert"}
                 /\ ~run[j].pending /\ ~run[j].mark
HearInv == \A j \in Judges : Unburdened(j) \/ Free(j) => Clear(j)

IInv == TypeOK /\ LookInv /\ BudgetInv /\ LimitInv /\ FailedInv /\ HearInv

-----------------------------------------------------------------------------
(* Types *)

RunType == [stage : Stages, ask : Asks \cup {""}, confirm : BOOLEAN,
            saw : SUBSET Existing, ordinal : 0 .. MaxRequests,
            pending : BOOLEAN, made : SUBSET Existing, mark : BOOLEAN]

LEMMA Bounds ==
  /\ Limit \in Nat /\ MaxRequests \in Nat /\ MaxPolls \in Nat
  /\ IsFiniteSet(Judges) /\ Judges # {} /\ \A j \in Judges : Budget[j] \in Nat
BY BoundsAssumption

LEMMA RunPut ==
  ASSUME TypeOK, NEW j \in Judges, NEW r \in RunType, Set(j, r), UNCHANGED count
  PROVE  run' \in [Judges -> RunType]'
BY DEF Set, TypeOK, RunType, Existing

LEMMA RunOf == ASSUME TypeOK, NEW j \in Judges PROVE run[j] \in RunType
BY DEF TypeOK, RunType

\* A step of a judge that registers nothing.
RunQuiet(j) ==
  \/ Permit(j)
  \/ \E a \in Asks, confirm \in BOOLEAN : AskCapture(j, a, confirm)
  \/ \E a \in Asks : AskCommand(j, a)
  \/ AskedBefore(j) \/ JoinOpen(j) \/ Refuse(j) \/ AskNew(j)
  \/ Number(j) \/ Conclude(j) \/ Fail(j) \/ Mark(j) \/ Redrive(j)

\* What such a step leaves in the run of the judge.
LEMMA QuietRun ==
  ASSUME IInv, NEW j \in Judges, RunQuiet(j)
  PROVE  /\ \E r \in RunType : Set(j, r)
         /\ UNCHANGED <<count, asked, answers, world>>
         /\ watchers \subseteq watchers' /\ watchers' \subseteq Judges \X Existing
         /\ row' \in [Judges -> {"none", "running", "waiting", "scored", "failed"}]
         /\ partial' \subseteq Judges
<1> USE DEF answers, judging, requests
<1>0. /\ TypeOK /\ run[j] \in RunType /\ MaxRequests \in Nat /\ "" \in Asks \cup {""}
      /\ Existing \subseteq Existing
  BY RunOf, Bounds DEF IInv
<1>a. 0 \in 0 .. MaxRequests /\ {} \in SUBSET Existing /\ "free" \in Stages
  BY <1>0 DEF Stages
<1>1. \A st \in Stages, m \in BOOLEAN : [Idle EXCEPT !.stage = st, !.mark = m] \in RunType
  BY <1>0, <1>a DEF Idle, RunType
<1>2. Idle \in RunType /\ \A st \in Stages : [Idle EXCEPT !.stage = st] \in RunType
  BY <1>0, <1>a DEF Idle, RunType
<1>3. ASSUME Answer(j) \/ Wait(j) PROVE \E r \in RunType : Set(j, r)
  BY <1>0, <1>3 DEF Answer, Wait, RunType, Stages
<1>4. CASE Permit(j)
  BY <1>0, <1>4 DEF Permit, RunType, Stages, TypeOK
<1>5. ASSUME NEW a \in Asks, NEW confirm \in BOOLEAN, AskCapture(j, a, confirm)
      PROVE  \E r \in RunType : Set(j, r)
  BY <1>0, <1>5 DEF AskCapture, RunType, Stages
<1>6. ASSUME NEW a \in Asks, AskCommand(j, a) PROVE \E r \in RunType : Set(j, r)
  BY <1>0, <1>6 DEF AskCommand, RunType, Stages
<1>7. CASE AskedBefore(j)
  BY <1>0, <1>3, <1>7 DEF AskedBefore, TypeOK
<1>8. CASE JoinOpen(j)
  <2>1. run[j].saw \subseteq Existing  BY <1>0 DEF RunType
  <2>2. Joinable(j) \subseteq Existing  BY <2>1 DEF Joinable
  <2>a. PICK n \in Joinable(j) :
          watchers' = IF asked[n].judge = j THEN watchers ELSE watchers \cup {<<j, n>>}
    BY <1>8 DEF JoinOpen
  <2>b. n \in Existing /\ watchers \subseteq Judges \X Existing  BY <1>0, <2>2 DEF TypeOK
  <2>3. watchers \subseteq watchers' /\ watchers' \subseteq Judges \X Existing
    BY <2>a, <2>b
  <2> QED  BY <1>0, <1>3, <1>8, <2>3 DEF JoinOpen, TypeOK
<1>9. CASE Refuse(j)
  BY <1>0, <1>3, <1>9 DEF Refuse, TypeOK
<1>10. CASE AskNew(j)
  BY <1>0, <1>10 DEF AskNew, RunType, Stages, TypeOK
<1>11. CASE Number(j)
  <2>1. count + 1 \in 0 .. MaxRequests
    <3>1. count \in 0 .. MaxRequests /\ MaxRequests \in Nat  BY <1>0 DEF TypeOK
    <3>2. count < MaxRequests  BY <1>11 DEF Number
    <3> QED  BY <3>1, <3>2
  <2>2. [run[j] EXCEPT !.stage = "insert", !.ordinal = count + 1] \in RunType
    BY <1>0, <2>1 DEF RunType, Stages
  <2> QED  BY <1>0, <1>11, <2>2 DEF Number, TypeOK
<1>12. CASE Conclude(j)
  <2>1. \E r \in RunType : Set(j, r)  BY <1>2, <1>12 DEF Conclude, Stages
  <2> QED  BY <1>0, <1>12, <2>1 DEF Conclude, TypeOK
<1>13. CASE Fail(j)
  BY <1>0, <1>2, <1>13 DEF Fail, TypeOK
<1>14. CASE Mark(j)
  BY <1>0, <1>2, <1>14 DEF Mark, TypeOK
<1>15. CASE Redrive(j)
  <2>1. \E r \in RunType : Set(j, r)
    <3> DEFINE m == \E n \in Awaited(j) : Silent(n) \/ GivenUp(n)
    <3>1. m \in BOOLEAN /\ "queued" \in Stages  BY DEF Stages
    <3>2. Set(j, [Idle EXCEPT !.stage = "queued", !.mark = m])  BY <1>15 DEF Redrive
    <3> HIDE DEF m
    <3> QED  BY <1>1, <3>1, <3>2
  <2> QED  BY <1>0, <1>15, <2>1 DEF Redrive, TypeOK
<1>16. UNCHANGED <<count, asked, answers, world>> /\ (UNCHANGED <<watchers, row, partial>> \/
         Permit(j) \/ JoinOpen(j) \/ Conclude(j) \/ Fail(j) \/ Mark(j))
  BY DEF RunQuiet, Permit, AskCapture, AskCommand, AskedBefore, JoinOpen, Refuse, AskNew, Number,
         Conclude, Fail, Mark, Redrive
<1>17. \E r \in RunType : Set(j, r)
  BY <1>4, <1>5, <1>6, <1>7, <1>8, <1>9, <1>10, <1>11, <1>12, <1>13, <1>14, <1>15 DEF RunQuiet
<1> QED  BY <1>0, <1>4, <1>8, <1>12, <1>13, <1>14, <1>16, <1>17 DEF TypeOK

\* What an insert does: the ordinal is taken, or another judge had it.
Lost(j) == /\ UNCHANGED <<count, asked>>
           /\ Set(j, [run[j] EXCEPT !.stage = "judging", !.ask = "", !.ordinal = 0])
Got(j)  == /\ count' = count + 1
           /\ asked' = [asked EXCEPT ![count + 1] = [judge |-> j, ask |-> run[j].ask]]
           /\ Set(j, [run[j] EXCEPT !.stage = "judging", !.ask = "", !.ordinal = 0,
                                    !.pending = TRUE, !.made = @ \cup {count + 1}])

LEMMA InsertCases ==
  ASSUME IInv, NEW j \in Judges, Insert(j)
  PROVE  /\ Lost(j) \/ (Got(j) /\ count + 1 \in Numbers)
         /\ At(j, "insert") /\ run[j].ask \in Asks
         /\ UNCHANGED <<watchers, answers, row, partial, world>>
<1>1. run[j].ordinal \in 0 .. MaxRequests /\ MaxRequests \in Nat /\ count \in 0 .. MaxRequests
  BY RunOf, Bounds DEF IInv, RunType, TypeOK
<1>2. run[j].ordinal = count + 1 => count + 1 \in Numbers  BY <1>1 DEF Numbers
<1>3. At(j, "insert") /\ run[j].ask \in Asks
  BY DEF Insert, IInv, LookInv, Asking, At
<1> QED  BY <1>2, <1>3 DEF Insert, Lost, Got

\* A new request leaves the others as they are.
LEMMA NewRequest ==
  ASSUME TypeOK, NEW j \in Judges, Got(j), count + 1 \in Numbers
  PROVE  /\ count + 1 \notin Existing /\ Existing' = Existing \cup {count + 1}
         /\ \A n \in Existing : asked'[n] = asked[n] /\ Capture(n)' = Capture(n)
         /\ asked'[count + 1] = [judge |-> j, ask |-> run[j].ask]
         /\ \A k \in Judges \ {j} : run'[k] = run[k]
         /\ Existing \subseteq Numbers
<1>1. count \in 0 .. MaxRequests /\ MaxRequests \in Nat  BY Bounds DEF TypeOK
<1>2. /\ count + 1 \notin Existing /\ Existing' = Existing \cup {count + 1}
      /\ Existing \subseteq Numbers
  BY <1>1 DEF Got, Existing, Numbers
<1>3. asked \in [Numbers -> [judge : Judges \cup {""}, ask : Asks \cup {""}]]  BY DEF TypeOK
<1>4. /\ \A n \in Existing : asked'[n] = asked[n]
      /\ asked'[count + 1] = [judge |-> j, ask |-> run[j].ask]
  BY <1>2, <1>3 DEF Got
<1>5. \A k \in Judges \ {j} : run'[k] = run[k]  BY DEF Got, Set, TypeOK
<1>6. \A n \in Existing : Capture(n)' = Capture(n)  BY <1>4 DEF Capture
<1> QED  BY <1>2, <1>4, <1>5, <1>6

-----------------------------------------------------------------------------
(* The type invariant                                                      *)

LEMMA QuietTyped ==
  ASSUME IInv, NEW j \in Judges, RunQuiet(j)
  PROVE  TypeOK'
<1>0. TypeOK  BY DEF IInv
<1>1. PICK r \in RunType : Set(j, r)  BY QuietRun
<1>2. UNCHANGED <<count, asked, answers, world>>  BY QuietRun
<1>3. run' \in [Judges -> RunType]'  BY <1>0, <1>1, <1>2, RunPut
<1>4. Existing' = Existing  BY <1>2 DEF Existing
<1>5. watchers' \subseteq Judges \X Existing'  BY <1>4, QuietRun
<1>6. /\ row' \in [Judges -> {"none", "running", "waiting", "scored", "failed"}]
      /\ partial' \subseteq Judges
  BY QuietRun
<1>7. \A n \in Existing' : asked'[n] \in [judge : Judges, ask : Asks]
  BY <1>0, <1>2, <1>4 DEF TypeOK
<1>8. /\ failed' \subseteq Existing' /\ passed' \subseteq Existing'
      /\ recorded' \subseteq Existing' /\ aged' \subseteq Existing'
  BY <1>0, <1>2, <1>4 DEF TypeOK, answers
<1>9. /\ latest' \in [Numbers -> {"none", "open", "error", "no_response", "pass"}]
      /\ polls' \in [Numbers -> 0 .. MaxPolls]
      /\ file' \in [Numbers -> {"no", "saved", "pushed"}]
      /\ count' \in 0 .. MaxRequests
      /\ asked' \in [Numbers -> [judge : Judges \cup {""}, ask : Asks \cup {""}]]
      /\ session' \in {"running", "away", "paused", "over"} /\ moved' \in BOOLEAN
  BY <1>0, <1>2 DEF TypeOK, answers, world
<1> QED  BY <1>3, <1>5, <1>6, <1>7, <1>8, <1>9 DEF TypeOK, RunType

LEMMA InsertTyped ==
  ASSUME IInv, NEW j \in Judges, Insert(j)
  PROVE  TypeOK'
<1>0. TypeOK /\ run[j] \in RunType /\ "" \in Asks \cup {""}  BY RunOf DEF IInv
<1>a. UNCHANGED <<watchers, answers, row, partial, world>>  BY InsertCases
<1>b. /\ latest' \in [Numbers -> {"none", "open", "error", "no_response", "pass"}]
      /\ polls' \in [Numbers -> 0 .. MaxPolls]
      /\ file' \in [Numbers -> {"no", "saved", "pushed"}]
      /\ session' \in {"running", "away", "paused", "over"} /\ moved' \in BOOLEAN
      /\ row' \in [Judges -> {"none", "running", "waiting", "scored", "failed"}]
      /\ partial' \subseteq Judges
  BY <1>0, <1>a DEF TypeOK, answers, world
<1>c. 0 \in 0 .. MaxRequests /\ "judging" \in Stages  BY Bounds DEF Stages
<1>1. CASE Lost(j)
  <2>1. Existing' = Existing /\ count' = count /\ asked' = asked  BY <1>1 DEF Lost, Existing
  <2>2. [run[j] EXCEPT !.stage = "judging", !.ask = "", !.ordinal = 0] \in RunType
    BY <1>0, <1>c DEF RunType
  <2>3. run' \in [Judges -> RunType]'  BY <1>0, <1>1, <2>1, <2>2, RunPut DEF Lost
  <2>4. /\ failed' \subseteq Existing' /\ passed' \subseteq Existing'
        /\ recorded' \subseteq Existing' /\ aged' \subseteq Existing'
        /\ watchers' \subseteq Judges \X Existing'
    BY <1>0, <1>a, <2>1 DEF TypeOK, answers
  <2>5. /\ \A n \in Existing' : asked'[n] \in [judge : Judges, ask : Asks]
        /\ asked' \in [Numbers -> [judge : Judges \cup {""}, ask : Asks \cup {""}]]
        /\ count' \in 0 .. MaxRequests
    BY <1>0, <2>1 DEF TypeOK
  <2> QED  BY <1>b, <2>3, <2>4, <2>5 DEF TypeOK, RunType
<1>2. CASE Got(j) /\ count + 1 \in Numbers
  <2>0. run[j].ask \in Asks  BY InsertCases
  <2>1. /\ Existing' = Existing \cup {count + 1}
        /\ \A n \in Existing : asked'[n] = asked[n]
        /\ asked'[count + 1] = [judge |-> j, ask |-> run[j].ask]
    BY <1>0, <1>2, NewRequest
  <2>2. count' \in 0 .. MaxRequests
    BY <1>2, Bounds DEF Got, Numbers
  <2>3. /\ failed' \subseteq Existing' /\ passed' \subseteq Existing'
        /\ recorded' \subseteq Existing' /\ aged' \subseteq Existing'
        /\ watchers' \subseteq Judges \X Existing'
    BY <1>0, <1>a, <2>1 DEF TypeOK, answers
  <2>4. \A n \in Existing' : asked'[n] \in [judge : Judges, ask : Asks]
    <3>1. \A n \in Existing : asked[n] \in [judge : Judges, ask : Asks]  BY <1>0 DEF TypeOK
    <3>2. asked'[count + 1] \in [judge : Judges, ask : Asks]  BY <2>0, <2>1
    <3> QED  BY <2>1, <3>1, <3>2
  <2>5. asked' \in [Numbers -> [judge : Judges \cup {""}, ask : Asks \cup {""}]]
    BY <1>0, <1>2, <2>0 DEF TypeOK, Got
  <2>6. run' \in [Judges -> RunType']
    <3> DEFINE r == [run[j] EXCEPT !.stage = "judging", !.ask = "", !.ordinal = 0,
                                   !.pending = TRUE, !.made = @ \cup {count + 1}]
    <3>1. RunType' = [stage : Stages, ask : Asks \cup {""}, confirm : BOOLEAN,
                      saw : SUBSET Existing', ordinal : 0 .. MaxRequests,
                      pending : BOOLEAN, made : SUBSET Existing', mark : BOOLEAN]
      BY DEF RunType
    <3>2. r \in RunType'  BY <1>0, <1>c, <2>1, <3>1 DEF RunType
    <3>3. \A k \in Judges : run[k] \in RunType'  BY <1>0, <2>1, <3>1, RunOf DEF RunType
    <3>4. run' = [run EXCEPT ![j] = r]  BY <1>2 DEF Got, Set
    <3>5. run = [k \in Judges |-> run[k]]  BY <1>0 DEF TypeOK
    <3> HIDE DEF r
    <3> QED  BY <3>2, <3>3, <3>4, <3>5
  <2> QED  BY <1>b, <2>2, <2>3, <2>4, <2>5, <2>6 DEF TypeOK, RunType
<1> QED  BY <1>1, <1>2, InsertCases

LEMMA DeliveryTyped ==
  ASSUME TypeOK, NEW n \in Numbers, Delivery(n)
  PROVE  /\ TypeOK' /\ UNCHANGED <<requests, judging, world>> /\ n \in Existing
         /\ passed \subseteq passed'
<1> USE DEF requests, judging, world
<1>0. /\ failed \subseteq Existing /\ passed \subseteq Existing
      /\ recorded \subseteq Existing /\ aged \subseteq Existing
      /\ latest \in [Numbers -> {"none", "open", "error", "no_response", "pass"}]
      /\ polls \in [Numbers -> 0 .. MaxPolls]
      /\ file \in [Numbers -> {"no", "saved", "pushed"}]
  BY DEF TypeOK
<1>1. UNCHANGED <<requests, judging, world>> /\ n \in Existing
  BY DEF Delivery, Sweep, Silence, Poll, Reply, Save, Push, Age
<1>2. SUFFICES /\ failed' \subseteq Existing /\ passed' \subseteq Existing
               /\ recorded' \subseteq Existing /\ aged' \subseteq Existing
               /\ latest' \in [Numbers -> {"none", "open", "error", "no_response", "pass"}]
               /\ polls' \in [Numbers -> 0 .. MaxPolls]
               /\ file' \in [Numbers -> {"no", "saved", "pushed"}]
               /\ passed \subseteq passed'
  <2>1. Existing' = Existing /\ UNCHANGED <<count, asked, watchers, row, partial, run, session, moved>>
    BY <1>1 DEF Existing
  <2> QED  BY <1>1, <1>2, <2>1 DEF TypeOK
<1>3. CASE Sweep(n)  BY <1>0, <1>1, <1>3 DEF Sweep
<1>4. CASE Silence(n)  BY <1>0, <1>1, <1>4 DEF Silence
<1>5. CASE Poll(n)
  <2>1. polls' \in [Numbers -> 0 .. MaxPolls]
    <3>1. polls[n] \in 0 .. MaxPolls /\ polls[n] < MaxPolls /\ MaxPolls \in Nat
      BY <1>0, <1>5, Bounds DEF Poll
    <3>2. polls[n] + 1 \in 0 .. MaxPolls  BY <3>1
    <3> QED  BY <1>0, <1>5, <3>2 DEF Poll
  <2> QED  BY <1>0, <1>1, <1>5, <2>1 DEF Poll
<1>6. ASSUME NEW good \in BOOLEAN, Reply(n, good)
      PROVE  /\ failed' \subseteq Existing /\ passed' \subseteq Existing
             /\ latest' \in [Numbers -> {"none", "open", "error", "no_response", "pass"}]
             /\ UNCHANGED <<polls, recorded, file, aged>> /\ passed \subseteq passed'
  BY <1>0, <1>1, <1>6 DEF Reply
<1>7. CASE Save(n)  BY <1>0, <1>1, <1>7 DEF Save
<1>8. CASE Push(n)  BY <1>0, <1>1, <1>8 DEF Push
<1>9. CASE Age(n)  BY <1>0, <1>1, <1>9 DEF Age
<1> QED  BY <1>0, <1>3, <1>4, <1>5, <1>6, <1>7, <1>8, <1>9 DEF Delivery

\* The steps that touch neither requests nor answers nor judges.
Elsewhere == UNCHANGED <<requests, answers, judging>>

LEMMA WorldTyped ==
  ASSUME TypeOK, SessionMoves \/ MoveOn
  PROVE  TypeOK' /\ Elsewhere
<1>1. Elsewhere  BY DEF SessionMoves, MoveOn, Elsewhere
<1>2. session' \in {"running", "away", "paused", "over"} /\ moved' \in BOOLEAN
  BY DEF SessionMoves, MoveOn, TypeOK
<1>3. Existing' = Existing /\ UNCHANGED <<count, asked, watchers, row, partial, run>>
      /\ UNCHANGED <<latest, polls, failed, passed, recorded, file, aged>>
  BY <1>1 DEF Elsewhere, requests, answers, judging, Existing
<1> QED  BY <1>1, <1>2, <1>3 DEF TypeOK

LEMMA NextCases ==
  ASSUME Next
  PROVE  \/ \E j \in Judges : RunQuiet(j)
         \/ \E j \in Judges : Insert(j)
         \/ \E n \in Numbers : Delivery(n)
         \/ SessionMoves \/ MoveOn
BY DEF Next, RunStep, RunQuiet

LEMMA TypeStep == ASSUME IInv, [Next]_vars PROVE TypeOK'
<1>0. TypeOK  BY DEF IInv
<1>1. CASE UNCHANGED vars
  <2>1. Existing' = Existing  BY <1>1 DEF vars, requests, Existing
  <2> QED  BY <1>0, <1>1, <2>1 DEF TypeOK, vars, requests, answers, judging, world
<1>2. ASSUME NEW j \in Judges, RunQuiet(j) PROVE TypeOK'  BY <1>2, QuietTyped
<1>3. ASSUME NEW j \in Judges, Insert(j) PROVE TypeOK'  BY <1>3, InsertTyped
<1>4. ASSUME NEW n \in Numbers, Delivery(n) PROVE TypeOK'  BY <1>0, <1>4, DeliveryTyped
<1>5. CASE SessionMoves \/ MoveOn  BY <1>0, <1>5, WorldTyped
<1> QED  BY <1>1, <1>2, <1>3, <1>4, <1>5, NextCases

-----------------------------------------------------------------------------
(* What a judge's own step does to what is said of it                      *)

\* It looks with every capture in view; it goes on to ask for a capture only
\* with budget and limit in hand; it is cleared only by what it was before, or
\* by a re-drive that found everything answered.
Looks(j)   == At(j, "looking")' => run'[j].ask \in Captures /\ run'[j].saw = Taken
Asks1(j)   == Asking(j)' => \/ run'[j].ask \in Commands
                            \/ /\ Asking(j) /\ run'[j].ask = run[j].ask
                            \/ /\ At(j, "looking") /\ Affordable(j) /\ run'[j].ask = run[j].ask
Cleared(j) == (Unburdened(j) \/ Free(j))' =>
                /\ watchers' = watchers
                /\ Unburdened(j) \/ \A n \in Awaited(j) : Answered(n)

LEMMA IdleIs ==
  /\ Idle.stage = "free" /\ [Idle EXCEPT !.stage = "marking"].stage = "marking"
BY DEF Idle

LEMMA RunAfter ==
  ASSUME TypeOK, NEW j \in Judges, NEW r, Set(j, r)
  PROVE  run'[j] = r /\ \A k \in Judges \ {j} : run'[k] = run[k]
BY DEF Set, TypeOK

LEMMA QuietLaws ==
  ASSUME IInv, NEW j \in Judges, RunQuiet(j)
  PROVE  /\ Looks(j) /\ Asks1(j) /\ Cleared(j)
         /\ \A k \in Judges \ {j} : run'[k] = run[k]
<1>0. TypeOK /\ run[j] \in RunType  BY RunOf DEF IInv
<1>1. \A k \in Judges \ {j} : run'[k] = run[k]
  <2>1. PICK r \in RunType : Set(j, r)  BY QuietRun
  <2> QED  BY <1>0, <2>1, RunAfter
<1> SUFFICES Looks(j) /\ Asks1(j) /\ Cleared(j)  BY <1>1
<1> USE DEF Looks, Asks1, Cleared, At, Asking, Unburdened, Free
<1>2. CASE Permit(j)
  <2>1. run'[j] = [run[j] EXCEPT !.stage = "judging"]  BY <1>0, <1>2, RunAfter DEF Permit
  <2> QED  BY <1>0, <1>2, <2>1 DEF Permit, RunType, requests
<1>3. ASSUME NEW a \in Asks, NEW confirm \in BOOLEAN, AskCapture(j, a, confirm)
      PROVE  Looks(j) /\ Asks1(j) /\ Cleared(j)
  <2>1. run'[j] = [run[j] EXCEPT !.stage = "looking", !.ask = a, !.confirm = confirm,
                                 !.saw = Taken]
    BY <1>0, <1>3, RunAfter DEF AskCapture, Taken
  <2> QED  BY <1>0, <1>3, <2>1 DEF AskCapture, RunType, requests
<1>4. ASSUME NEW a \in Asks, AskCommand(j, a) PROVE Looks(j) /\ Asks1(j) /\ Cleared(j)
  <2>1. run'[j] = [run[j] EXCEPT !.stage = "number", !.ask = a]
    BY <1>0, <1>4, RunAfter DEF AskCommand
  <2> QED  BY <1>0, <1>4, <2>1 DEF AskCommand, RunType, requests
<1>5. ASSUME Answer(j), At(j, "looking"), UNCHANGED <<watchers, row, partial>>
      PROVE  Looks(j) /\ Asks1(j) /\ Cleared(j)
  <2>1. run'[j] = [run[j] EXCEPT !.stage = "judging", !.ask = "", !.confirm = FALSE, !.saw = {}]
    BY <1>0, <1>5, RunAfter DEF Answer
  <2> QED  BY <1>0, <1>5, <2>1 DEF RunType
<1>6. ASSUME Wait(j), At(j, "looking") PROVE Looks(j) /\ Asks1(j) /\ Cleared(j)
  <2>1. run'[j] = [run[j] EXCEPT !.stage = "judging", !.ask = "", !.confirm = FALSE, !.saw = {},
                                 !.pending = TRUE]
    BY <1>0, <1>6, RunAfter DEF Wait
  <2> QED  BY <1>0, <1>6, <2>1 DEF RunType
<1>7. CASE AskedBefore(j)
  <2>1. At(j, "looking") /\ (Answer(j) \/ Wait(j)) /\ UNCHANGED <<watchers, row, partial>>
    BY <1>7 DEF AskedBefore, requests
  <2> QED  BY <1>5, <1>6, <2>1
<1>8. CASE JoinOpen(j)  BY <1>6, <1>8 DEF JoinOpen
<1>9. CASE Refuse(j)
  <2>1. At(j, "looking") /\ Answer(j) /\ UNCHANGED <<watchers, row, partial>>
    BY <1>9 DEF Refuse, requests
  <2> QED  BY <1>5, <2>1
<1>10. CASE AskNew(j)
  <2>1. run'[j] = [run[j] EXCEPT !.stage = "number", !.confirm = FALSE, !.saw = {}]
    BY <1>0, <1>10, RunAfter DEF AskNew
  <2>2. Affordable(j)  BY <1>10 DEF AskNew, MayAsk
  <2> QED  BY <1>0, <1>10, <2>1, <2>2 DEF AskNew, RunType, requests
<1>11. CASE Number(j)
  <2>1. run'[j] = [run[j] EXCEPT !.stage = "insert", !.ordinal = count + 1]
    BY <1>0, <1>11, RunAfter DEF Number
  <2> QED  BY <1>0, <1>11, <2>1 DEF Number, RunType, requests
<1>12. CASE Conclude(j)
  <2>1. run'[j] = IF run[j].mark THEN [Idle EXCEPT !.stage = "marking"] ELSE Idle
    BY <1>0, <1>12, RunAfter DEF Conclude
  <2>2. row'[j] = IF run[j].pending THEN "waiting" ELSE "scored"
    BY <1>0, <1>12 DEF Conclude, TypeOK
  <2>3. run'[j].stage = IF run[j].mark THEN "marking" ELSE "free"  BY <2>1, IdleIs
  <2>4. watchers' = watchers /\ run[j].stage = "judging"  BY <1>12 DEF Conclude, requests
  <2> QED  BY <1>0, <2>2, <2>3, <2>4 DEF RunType
<1>13. CASE Fail(j)
  <2>1. run'[j] = Idle  BY <1>0, <1>13, RunAfter DEF Fail
  <2>2. row'[j] = "failed"  BY <1>0, <1>13 DEF Fail, TypeOK
  <2>3. run'[j].stage = "free"  BY <2>1, IdleIs
  <2> QED  BY <2>2, <2>3
<1>14. CASE Mark(j)
  <2>1. run'[j] = Idle  BY <1>0, <1>14, RunAfter DEF Mark
  <2>2. row'[j] = "scored" => j \in partial'  BY <1>14 DEF Mark
  <2>3. run'[j].stage = "free"  BY <2>1, IdleIs
  <2> QED  BY <2>2, <2>3
<1>15. CASE Redrive(j)
  <2> DEFINE m == \E n \in Awaited(j) : Silent(n) \/ GivenUp(n)
  <2>1. m \in BOOLEAN  OBVIOUS
  <2>2. Set(j, [Idle EXCEPT !.stage = "queued", !.mark = m])  BY <1>15 DEF Redrive
  <2>3. \A n \in Awaited(j) : Answered(n) \/ Silent(n) \/ GivenUp(n)  BY <1>15 DEF Redrive
  <2>4. ~m => \A n \in Awaited(j) : Answered(n)  BY <2>3
  <2> HIDE DEF m
  <2>5. run'[j] = [Idle EXCEPT !.stage = "queued", !.mark = m]  BY <1>0, <2>2, RunAfter
  <2>6. watchers' = watchers  BY <1>15 DEF Redrive, requests
  <2> QED  BY <2>1, <2>4, <2>5, <2>6 DEF Idle
<1> QED  BY <1>2, <1>3, <1>4, <1>7, <1>8, <1>9, <1>10, <1>11, <1>12, <1>13, <1>14, <1>15
         DEF RunQuiet

-----------------------------------------------------------------------------
(* What is asked: looks, budgets, the limit                                *)

LEMMA SameRequests ==
  ASSUME UNCHANGED <<count, asked>>, TypeOK
  PROVE  /\ Taken' = Taken /\ Existing' = Existing
         /\ \A n \in Existing : Capture(n)' = Capture(n)
         /\ \A k \in Judges : OwnOf(k)' = OwnOf(k) /\ Asked(k)' = Asked(k)
BY DEF Taken, Existing, Capture, OwnOf, Asked

LEMMA FiniteAsked ==
  ASSUME TypeOK
  PROVE  /\ IsFiniteSet(Taken) /\ Cardinality(Taken) \in Nat
         /\ \A k \in Judges : IsFiniteSet(Asked(k)) /\ Cardinality(Asked(k)) \in Nat
<1>0. count \in 0 .. MaxRequests /\ MaxRequests \in Nat  BY Bounds DEF TypeOK
<1>1. count \in Nat  BY <1>0
<1>2. IsFiniteSet(Existing)  BY <1>1, FS_Interval DEF Existing
<1>3. Taken \subseteq Existing /\ \A k \in Judges : Asked(k) \subseteq Existing
  BY DEF Taken, Asked, OwnOf
<1> QED  BY <1>2, <1>3, FS_Subset, FS_CardinalityType

\* What a new request adds.
LEMMA NewAsked ==
  ASSUME TypeOK, NEW j \in Judges, Got(j), count + 1 \in Numbers, run[j].ask \in Asks
  PROVE  /\ \A k \in Judges \ {j} : Asked(k)' = Asked(k)
         /\ Asked(j)' = IF run[j].ask \in Captures THEN Asked(j) \cup {count + 1} ELSE Asked(j)
         /\ Taken' = IF run[j].ask \in Captures THEN Taken \cup {count + 1} ELSE Taken
         /\ count + 1 \notin Taken /\ \A k \in Judges : count + 1 \notin Asked(k)
<1>1. /\ count + 1 \notin Existing /\ Existing' = Existing \cup {count + 1}
      /\ \A n \in Existing : asked'[n] = asked[n] /\ Capture(n)' = Capture(n)
      /\ asked'[count + 1] = [judge |-> j, ask |-> run[j].ask]
  BY NewRequest
<1>2. asked'[count + 1].judge = j /\ asked'[count + 1].ask = run[j].ask  BY <1>1
<1>3. \A n : Capture(n)' <=> asked'[n].ask \in Captures  BY DEF Capture
<1>4. Taken' = {n \in Existing' : asked'[n].ask \in Captures}  BY <1>3 DEF Taken
<1>5. Taken = {n \in Existing : asked[n].ask \in Captures}  BY DEF Taken, Capture
<1>6. \A k \in Judges :
        /\ Asked(k)' = {n \in Existing' : asked'[n].judge = k /\ asked'[n].ask \in Captures}
        /\ Asked(k) = {n \in Existing : asked[n].judge = k /\ asked[n].ask \in Captures}
  BY DEF Asked, OwnOf, Capture
<1>7. Taken' = IF run[j].ask \in Captures THEN Taken \cup {count + 1} ELSE Taken
  BY <1>1, <1>2, <1>4, <1>5
<1>8. Asked(j)' = IF run[j].ask \in Captures THEN Asked(j) \cup {count + 1} ELSE Asked(j)
  <2>1. /\ Asked(j)' = {n \in Existing' : asked'[n].judge = j /\ asked'[n].ask \in Captures}
        /\ Asked(j) = {n \in Existing : asked[n].judge = j /\ asked[n].ask \in Captures}
    BY <1>6
  <2> QED  BY <1>1, <1>2, <2>1
<1>9. ASSUME NEW k \in Judges \ {j} PROVE Asked(k)' = Asked(k)
  <2>1. /\ Asked(k)' = {n \in Existing' : asked'[n].judge = k /\ asked'[n].ask \in Captures}
        /\ Asked(k) = {n \in Existing : asked[n].judge = k /\ asked[n].ask \in Captures}
    BY <1>6
  <2> QED  BY <1>1, <1>2, <2>1
<1> QED  BY <1>1, <1>5, <1>6, <1>7, <1>8, <1>9

\* Whoever looks knows its own captures; what it could ask for it can afford.
LEMMA LooksWell ==
  ASSUME IInv, NEW j \in Judges, At(j, "looking")
  PROVE  Mine(j) = Asked(j)
<1>1. run[j].saw \subseteq Taken /\ Asked(j) \subseteq run[j].saw  BY DEF IInv, LookInv
<1> QED  BY <1>1 DEF Mine, Asked, OwnOf, Taken

Look(j) == /\ At(j, "looking") => /\ run[j].ask \in Captures
                                  /\ run[j].saw \subseteq Taken /\ Asked(j) \subseteq run[j].saw
           /\ Asking(j) => run[j].ask \in Asks
InBudget(j) == /\ Cardinality(Asked(j)) <= Budget[j]
               /\ Asking(j) /\ run[j].ask \in Captures => Cardinality(Asked(j)) < Budget[j]

LEMMA LooksAndBudgets ==
  /\ LookInv <=> \A j \in Judges : Look(j)
  /\ BudgetInv <=> \A j \in Judges : InBudget(j)
BY DEF LookInv, Look, BudgetInv, InBudget

LEMMA AskStep ==
  ASSUME IInv, [Next]_vars
  PROVE  LookInv' /\ BudgetInv'
<1>0. TypeOK /\ \A k \in Judges : Look(k) /\ InBudget(k)
  BY LooksAndBudgets DEF IInv
<1>1. SUFFICES ASSUME NEW k \in Judges PROVE Look(k)' /\ InBudget(k)'
  BY <1>1 DEF LookInv, BudgetInv, Look, InBudget
<1>2. Captures \cap Commands = {} /\ Captures \subseteq Asks /\ Commands \subseteq Asks
  BY AsksAssumption DEF Asks
<1>3. ASSUME UNCHANGED <<count, asked>>, run'[k] = run[k] PROVE Look(k)' /\ InBudget(k)'
  <2>1. Taken' = Taken /\ Asked(k)' = Asked(k)  BY <1>0, <1>3, SameRequests
  <2> QED  BY <1>0, <1>3, <2>1 DEF Look, InBudget, At, Asking
<1>4. ASSUME NEW j \in Judges, RunQuiet(j) PROVE Look(k)' /\ InBudget(k)'
  <2>0. UNCHANGED <<count, asked>>  BY <1>4, QuietRun
  <2>1. Taken' = Taken /\ Asked(k)' = Asked(k)  BY <1>0, <2>0, SameRequests
  <2>2. CASE k # j  BY <1>3, <1>4, <2>0, <2>2, QuietLaws
  <2>3. CASE k = j
    <3>1. Looks(k) /\ Asks1(k)  BY <1>4, <2>3, QuietLaws
    <3>2. Asked(k) \subseteq Taken  BY DEF Asked, OwnOf, Taken
    <3>3. At(k, "looking") => run[k].ask \in Captures  BY <1>0 DEF Look
    <3>4. Look(k)'
      BY <1>0, <1>2, <2>1, <3>1, <3>2, <3>3 DEF Look, Looks, Asks1, At, Asking
    <3>5. At(k, "looking") /\ Affordable(k) => Cardinality(Asked(k)) < Budget[k]
      BY LooksWell DEF Affordable
    <3>6. InBudget(k)'
      BY <1>0, <1>2, <2>1, <3>1, <3>5 DEF InBudget, Asks1, Asking, At
    <3> QED  BY <3>4, <3>6
  <2> QED  BY <2>2, <2>3
<1>5. ASSUME NEW j \in Judges, Insert(j) PROVE Look(k)' /\ InBudget(k)'
  <2>0. At(j, "insert") /\ run[j].ask \in Asks /\ (Lost(j) \/ (Got(j) /\ count + 1 \in Numbers))
    BY <1>5, InsertCases
  <2>1. CASE Lost(j)
    <3>1. UNCHANGED <<count, asked>>  BY <2>1 DEF Lost
    <3>2. CASE k # j
      <4>1. run'[k] = run[k]  BY <1>0, <2>1, <3>2, RunAfter DEF Lost
      <4> QED  BY <1>3, <3>1, <4>1
    <3>3. CASE k = j
      <4>1. run'[k].stage = "judging"
        <5>1. run'[k] = [run[k] EXCEPT !.stage = "judging", !.ask = "", !.ordinal = 0]
          BY <1>0, <2>1, <3>3, RunAfter DEF Lost
        <5> QED  BY <1>0, <5>1, RunOf DEF RunType
      <4>2. Asked(k)' = Asked(k)  BY <1>0, <3>1, SameRequests
      <4> QED  BY <1>0, <4>1, <4>2 DEF Look, InBudget, At, Asking
    <3> QED  BY <3>2, <3>3
  <2>2. CASE Got(j) /\ count + 1 \in Numbers
    <3>1. /\ k # j => Asked(k)' = Asked(k)
          /\ Asked(j)' = IF run[j].ask \in Captures THEN Asked(j) \cup {count + 1} ELSE Asked(j)
          /\ Taken \subseteq Taken' /\ count + 1 \notin Asked(j)
      BY <1>0, <2>0, <2>2, NewAsked
    <3>2. CASE k # j
      <4>1. run'[k] = run[k]  BY <1>0, <2>2, <3>2, NewRequest
      <4> QED  BY <1>0, <3>1, <3>2, <4>1 DEF Look, InBudget, At, Asking
    <3>3. CASE k = j
      <4>1. run'[k].stage = "judging"
        <5>1. run'[k] = [run[k] EXCEPT !.stage = "judging", !.ask = "", !.ordinal = 0,
                                       !.pending = TRUE, !.made = @ \cup {count + 1}]
          BY <1>0, <2>2, <3>3, RunAfter DEF Got
        <5> QED  BY <1>0, <5>1, RunOf DEF RunType
      <4>2. CASE run[j].ask \in Captures
        <5>1. Cardinality(Asked(k)) < Budget[k]
          BY <1>0, <2>0, <3>3, <4>2 DEF InBudget, Asking, At
        <5>2. Cardinality(Asked(k)') = Cardinality(Asked(k)) + 1
          BY <1>0, <3>1, <3>3, <4>2, FiniteAsked, FS_AddElement
        <5>3. Cardinality(Asked(k)') <= Budget[k]
          BY <1>0, <5>1, <5>2, FiniteAsked, Bounds
        <5> QED  BY <4>1, <5>3 DEF Look, InBudget, At, Asking
      <4>3. CASE run[j].ask \notin Captures
        BY <1>0, <3>1, <3>3, <4>1, <4>3 DEF Look, InBudget, At, Asking
      <4> QED  BY <4>2, <4>3
    <3> QED  BY <3>2, <3>3
  <2> QED  BY <2>0, <2>1, <2>2
<1>6. ASSUME NEW n \in Numbers, Delivery(n) PROVE Look(k)' /\ InBudget(k)'
  <2>1. UNCHANGED <<requests, judging>>  BY <1>0, <1>6, DeliveryTyped
  <2> QED  BY <1>3, <2>1 DEF requests, judging
<1>7. CASE SessionMoves \/ MoveOn
  <2>1. UNCHANGED <<requests, judging>>  BY <1>0, <1>7, WorldTyped DEF Elsewhere
  <2> QED  BY <1>3, <2>1 DEF requests, judging
<1>8. CASE UNCHANGED vars  BY <1>3, <1>8 DEF vars, requests, judging
<1> QED  BY <1>4, <1>5, <1>6, <1>7, <1>8, NextCases

\* The judges that may yet add a capture.
Pending == {j \in Judges : May(j)}

LEMMA FinitePending ==
  IsFiniteSet(Pending) /\ Cardinality(Pending) \in Nat
  /\ Cardinality(Judges) \in Nat /\ Cardinality(Pending) <= Cardinality(Judges)
<1>1. Pending \subseteq Judges  BY DEF Pending
<1> QED  BY <1>1, Bounds, FS_Subset, FS_CardinalityType

LEMMA LimitStep ==
  ASSUME IInv, TypeOK', [Next]_vars
  PROVE  LimitInv'
<1>0. TypeOK /\ Cardinality(Taken) + Cardinality(Pending) <= Limit + Cardinality(Judges) - 1
  BY DEF IInv, LimitInv, Pending
<1>1. SUFFICES Cardinality(Taken') + Cardinality(Pending') <= Limit + Cardinality(Judges) - 1
  BY <1>1 DEF LimitInv, Pending
<1>n. /\ Cardinality(Taken) \in Nat /\ Cardinality(Pending) \in Nat
      /\ Cardinality(Taken') \in Nat /\ Cardinality(Pending') \in Nat
      /\ Cardinality(Judges) \in Nat /\ Limit \in Nat /\ IsFiniteSet(Pending)
      /\ Cardinality(Pending') <= Cardinality(Judges)
  <2>1. Cardinality(Taken') \in Nat
    <3>1. count' \in 0 .. MaxRequests  BY DEF TypeOK
    <3>2. count' \in Nat  BY <3>1, Bounds
    <3>3. Taken' \subseteq 1 .. count'  BY DEF Taken, Existing
    <3>4. IsFiniteSet(1 .. count')  BY <3>2, FS_Interval
    <3> QED  BY <3>3, <3>4, FS_Subset, FS_CardinalityType
  <2>2. Cardinality(Pending') \in Nat /\ Cardinality(Pending') <= Cardinality(Judges)
    <3>1. Pending' \subseteq Judges  BY DEF Pending
    <3> QED  BY <3>1, Bounds, FS_Subset, FS_CardinalityType
  <2> QED  BY <1>0, <2>1, <2>2, FiniteAsked, FinitePending, Bounds
<1>2. CASE Cardinality(Taken') < Limit  BY <1>n, <1>2
<1>3. CASE Taken' = Taken /\ Pending' \subseteq Pending
  <2>1. Cardinality(Pending') <= Cardinality(Pending)  BY <1>n, <1>3, FS_Subset
  <2> QED  BY <1>0, <1>3, <1>n, <2>1
<1>4. ASSUME UNCHANGED <<count, asked, run>> PROVE Taken' = Taken /\ Pending' \subseteq Pending
  <2>1. Taken' = Taken  BY <1>0, <1>4, SameRequests
  <2>2. \A j \in Judges : May(j)' => May(j)  BY <1>4 DEF May, Asking, At
  <2> QED  BY <2>1, <2>2 DEF Pending
<1>5. ASSUME NEW j \in Judges, RunQuiet(j), ~(Cardinality(Taken') < Limit)
      PROVE  Taken' = Taken /\ Pending' \subseteq Pending
  <2>1. Taken' = Taken  BY <1>0, <1>5, QuietRun, SameRequests
  <2>2. /\ Looks(j) /\ Asks1(j) /\ \A k \in Judges \ {j} : run'[k] = run[k]
    BY <1>5, QuietLaws
  <2>3. \A k \in Judges \ {j} : May(k)' => May(k)  BY <2>2 DEF May, Asking, At
  <2>4. May(j)' => May(j)
    <3>1. ~(At(j, "looking")' /\ Cardinality(run'[j].saw) < Limit)
      BY <1>5, <2>1, <2>2 DEF Looks
    <3>2. ASSUME Asking(j)', run'[j].ask \in Captures PROVE May(j)
      <4>1. CASE Asking(j) /\ run'[j].ask = run[j].ask  BY <3>2, <4>1 DEF May
      <4>2. CASE At(j, "looking") /\ Affordable(j)  BY <4>2 DEF May, Affordable
      <4> QED  BY <2>2, <3>2, <4>1, <4>2, AsksAssumption DEF Asks1
    <3> QED  BY <3>1, <3>2 DEF May
  <2> QED  BY <2>1, <2>3, <2>4 DEF Pending
<1>6. ASSUME NEW j \in Judges, Insert(j)
      PROVE  Cardinality(Taken') + Cardinality(Pending') <= Limit + Cardinality(Judges) - 1
  <2>0. At(j, "insert") /\ run[j].ask \in Asks /\ (Lost(j) \/ (Got(j) /\ count + 1 \in Numbers))
    BY <1>6, InsertCases
  <2>1. run'[j].stage = "judging" /\ \A k \in Judges \ {j} : run'[k] = run[k]
    <3>1. CASE Lost(j)
      <4>1. /\ run'[j] = [run[j] EXCEPT !.stage = "judging", !.ask = "", !.ordinal = 0]
            /\ \A k \in Judges \ {j} : run'[k] = run[k]
        BY <1>0, <3>1, RunAfter DEF Lost
      <4> QED  BY <1>0, <4>1, RunOf DEF RunType
    <3>2. CASE Got(j)
      <4>1. /\ run'[j] = [run[j] EXCEPT !.stage = "judging", !.ask = "", !.ordinal = 0,
                                        !.pending = TRUE, !.made = @ \cup {count + 1}]
            /\ \A k \in Judges \ {j} : run'[k] = run[k]
        BY <1>0, <3>2, RunAfter DEF Got
      <4> QED  BY <1>0, <4>1, RunOf DEF RunType
    <3> QED  BY <2>0, <3>1, <3>2
  <2>2. /\ \A k \in Judges \ {j} : May(k)' => May(k)
        /\ ~May(j)'
    BY <2>1 DEF May, Asking, At
  <2>3. Pending' \subseteq Pending \ {j}  BY <2>2 DEF Pending
  <2>4. CASE Lost(j) \/ run[j].ask \notin Captures
    <3>1. Taken' = Taken
      <4>1. CASE Lost(j)  BY <1>0, <4>1, SameRequests DEF Lost
      <4>2. CASE run[j].ask \notin Captures /\ Got(j) /\ count + 1 \in Numbers
        BY <1>0, <2>0, <4>2, NewAsked
      <4> QED  BY <2>0, <2>4, <4>1, <4>2
    <3> QED  BY <1>3, <2>3, <3>1
  <2>5. CASE Got(j) /\ count + 1 \in Numbers /\ run[j].ask \in Captures
    <3>1. Taken' = Taken \cup {count + 1} /\ count + 1 \notin Taken
      BY <1>0, <2>0, <2>5, NewAsked
    <3>2. Cardinality(Taken') = Cardinality(Taken) + 1
      BY <1>0, <3>1, FiniteAsked, FS_AddElement
    <3>3. j \in Pending  BY <2>0, <2>5 DEF Pending, May, Asking, At
    <3>4. IsFiniteSet(Pending \ {j}) /\ Cardinality(Pending \ {j}) = Cardinality(Pending) - 1
      BY <1>n, <3>3, FS_RemoveElement
    <3>5. Cardinality(Pending') <= Cardinality(Pending) - 1
      BY <2>3, <3>4, FS_Subset
    <3> QED  BY <1>0, <1>n, <3>2, <3>5
  <2> QED  BY <2>0, <2>4, <2>5
<1>7. ASSUME NEW n \in Numbers, Delivery(n) PROVE UNCHANGED <<count, asked, run>>
  BY <1>0, <1>7, DeliveryTyped DEF requests, judging
<1>8. CASE SessionMoves \/ MoveOn
  <2>1. UNCHANGED <<count, asked, run>>
    BY <1>0, <1>8, WorldTyped DEF Elsewhere, requests, judging
  <2> QED  BY <1>3, <1>4, <2>1
<1>9. CASE UNCHANGED vars
  <2>1. UNCHANGED <<count, asked, run>>  BY <1>9 DEF vars, requests, judging
  <2> QED  BY <1>3, <1>4, <2>1
<1> QED  BY <1>2, <1>3, <1>4, <1>5, <1>6, <1>7, <1>8, <1>9, NextCases

-----------------------------------------------------------------------------
(* What is heard                                                           *)

\* A delivery grades only a request, and a failed command stays failed.
LEMMA FailedDelivery ==
  ASSUME IInv, NEW n \in Numbers, Delivery(n)
  PROVE  FailedInv'
<1>0. /\ TypeOK /\ FailedInv /\ n \in Existing
      /\ latest \in [Numbers -> {"none", "open", "error", "no_response", "pass"}]
  BY DeliveryTyped DEF IInv, TypeOK
<1>1. Existing' = Existing /\ asked' = asked
  BY <1>0, DeliveryTyped DEF requests, Existing
<1>2. \A m : Capture(m)' = Capture(m)  BY <1>1 DEF Capture
<1>3. SUFFICES ASSUME NEW m \in Numbers, latest'[m] = "error"
               PROVE  m \in Existing /\ (Capture(m) \/ m \in failed')
  BY <1>1, <1>2, <1>3 DEF FailedInv
<1>4. latest[m] = "error" => m \in Existing /\ (Capture(m) \/ m \in failed)
  BY <1>0 DEF FailedInv
<1>5. CASE Sweep(n)  BY <1>0, <1>3, <1>4, <1>5 DEF Sweep
<1>6. CASE Silence(n)  BY <1>0, <1>3, <1>4, <1>6 DEF Silence
<1>7. CASE Poll(n)  BY <1>0, <1>3, <1>4, <1>7 DEF Poll
<1>8. ASSUME NEW good \in BOOLEAN, Reply(n, good)
      PROVE  m \in Existing /\ (Capture(m) \/ m \in failed')
  BY <1>0, <1>3, <1>4, <1>8 DEF Reply
<1>9. CASE Save(n) \/ Push(n) \/ Age(n)
  BY <1>3, <1>4, <1>9 DEF Save, Push, Age
<1> QED  BY <1>5, <1>6, <1>7, <1>8, <1>9 DEF Delivery

LEMMA FailedStep ==
  ASSUME IInv, [Next]_vars
  PROVE  FailedInv'
<1>0. TypeOK /\ FailedInv  BY DEF IInv
<1>1. ASSUME UNCHANGED <<count, asked, latest, failed>> PROVE FailedInv'
  BY <1>0, <1>1 DEF FailedInv, Existing, Capture
<1>2. ASSUME NEW j \in Judges, RunQuiet(j) PROVE FailedInv'
  BY <1>1, <1>2, QuietRun DEF answers
<1>3. ASSUME NEW j \in Judges, Insert(j) PROVE FailedInv'
  <2>1. UNCHANGED <<latest, failed>> /\ (Lost(j) \/ (Got(j) /\ count + 1 \in Numbers))
    BY <1>3, InsertCases DEF answers
  <2>2. CASE Lost(j)  BY <1>1, <2>1, <2>2 DEF Lost
  <2>3. CASE Got(j) /\ count + 1 \in Numbers
    <3>1. /\ Existing \subseteq Existing'
          /\ \A n \in Existing : Capture(n)' = Capture(n)
      BY <1>0, <2>3, NewRequest
    <3> QED  BY <1>0, <2>1, <3>1 DEF FailedInv
  <2> QED  BY <2>1, <2>2, <2>3
<1>4. ASSUME NEW n \in Numbers, Delivery(n) PROVE FailedInv'  BY <1>4, FailedDelivery
<1>5. CASE SessionMoves \/ MoveOn
  <2>1. UNCHANGED <<count, asked, latest, failed>>
    BY <1>0, <1>5, WorldTyped DEF Elsewhere, requests, answers
  <2> QED  BY <1>1, <2>1
<1>6. CASE UNCHANGED vars  BY <1>1, <1>6 DEF vars, requests, answers
<1> QED  BY <1>2, <1>3, <1>4, <1>5, <1>6, NextCases

\* What has been heard stays heard.
LEMMA HeardStays ==
  ASSUME IInv, [Next]_vars, NEW m \in Existing, Heard(m)
  PROVE  Heard(m)' /\ m \in Existing'
<1>0. TypeOK  BY DEF IInv
<1>1. ASSUME UNCHANGED <<count, asked, passed, failed>> PROVE Heard(m)' /\ m \in Existing'
  BY <1>1 DEF Heard, Capture, Existing
<1>2. ASSUME NEW j \in Judges, RunQuiet(j) PROVE Heard(m)' /\ m \in Existing'
  BY <1>1, <1>2, QuietRun DEF answers
<1>3. ASSUME NEW j \in Judges, Insert(j) PROVE Heard(m)' /\ m \in Existing'
  <2>1. UNCHANGED <<passed, failed>> /\ (Lost(j) \/ (Got(j) /\ count + 1 \in Numbers))
    BY <1>3, InsertCases DEF answers
  <2>2. CASE Lost(j)  BY <1>1, <2>1, <2>2 DEF Lost
  <2>3. CASE Got(j) /\ count + 1 \in Numbers
    <3>1. Existing \subseteq Existing' /\ Capture(m)' = Capture(m)  BY <1>0, <2>3, NewRequest
    <3> QED  BY <2>1, <3>1 DEF Heard
  <2> QED  BY <2>1, <2>2, <2>3
<1>4. ASSUME NEW n \in Numbers, Delivery(n) PROVE Heard(m)' /\ m \in Existing'
  <2>1. /\ passed \subseteq passed' /\ asked' = asked /\ count' = count
    BY <1>0, <1>4, DeliveryTyped DEF requests
  <2>2. Capture(m)' = Capture(m) /\ Existing' = Existing  BY <2>1 DEF Capture, Existing
  <2>3. CASE m \in passed  BY <2>1, <2>2, <2>3 DEF Heard
  <2>4. CASE ~Capture(m) /\ m \in failed
    <3>1. failed \subseteq failed' \/ (failed' = failed \ {n} /\ Capture(n))
      BY <1>4 DEF Delivery, Sweep, Silence, Poll, Reply, Save, Push, Age
    <3> QED  BY <2>2, <2>4, <3>1 DEF Heard
  <2> QED  BY <2>3, <2>4 DEF Heard
<1>5. CASE SessionMoves \/ MoveOn
  <2>1. UNCHANGED <<count, asked, passed, failed>>
    BY <1>0, <1>5, WorldTyped DEF Elsewhere, requests, answers
  <2> QED  BY <1>1, <2>1
<1>6. CASE UNCHANGED vars  BY <1>1, <1>6 DEF vars, requests, answers
<1> QED  BY <1>2, <1>3, <1>4, <1>5, <1>6, NextCases

\* A judge with nothing new to wait for stays clear.
LEMMA ClearStays ==
  ASSUME IInv, [Next]_vars, NEW k \in Judges, Clear(k), Awaited(k)' \subseteq Awaited(k)
  PROVE  Clear(k)'
<1>1. Awaited(k) \subseteq Existing  BY DEF Awaited, OwnOf, Watched
<1>2. \A n \in Awaited(k)' : Heard(n)'  BY <1>1, HeardStays DEF Clear
<1> QED  BY <1>2 DEF Clear

LEMMA SameAwaited ==
  ASSUME TypeOK, UNCHANGED <<count, asked>>, NEW k \in Judges,
         \A n \in Existing : <<k, n>> \in watchers' => <<k, n>> \in watchers
  PROVE  Awaited(k)' \subseteq Awaited(k)
<1>1. OwnOf(k)' = OwnOf(k) /\ Existing' = Existing  BY SameRequests
<1> QED  BY <1>1 DEF Awaited, Watched

\* Only the judge itself attaches itself to a request.
LEMMA JoinsAlone ==
  ASSUME IInv, NEW j \in Judges, RunQuiet(j), NEW k \in Judges \ {j}
  PROVE  \A n \in Existing : <<k, n>> \in watchers' => <<k, n>> \in watchers
<1>1. CASE JoinOpen(j)
  <2>1. PICK m \in Joinable(j) :
          watchers' = IF asked[m].judge = j THEN watchers ELSE watchers \cup {<<j, m>>}
    BY <1>1 DEF JoinOpen
  <2> QED  BY <2>1
<1>2. watchers' = watchers \/ JoinOpen(j)
  BY DEF RunQuiet, Permit, AskCapture, AskCommand, AskedBefore, Refuse, AskNew, Number, Conclude,
         Fail, Mark, Redrive, requests
<1> QED  BY <1>1, <1>2

Ears(k) == Unburdened(k) \/ Free(k) => Clear(k)

LEMMA HearStep ==
  ASSUME IInv, [Next]_vars
  PROVE  HearInv'
<1>0. TypeOK /\ \A k \in Judges : Ears(k)  BY DEF IInv, HearInv, Ears
<1>1. SUFFICES ASSUME NEW k \in Judges PROVE Ears(k)'  BY <1>1 DEF HearInv, Ears
<1>2. ASSUME run'[k] = run[k], row' = row, partial' = partial,
             Awaited(k)' \subseteq Awaited(k)
      PROVE  Ears(k)'
  <2>1. (Unburdened(k) \/ Free(k))' => Unburdened(k) \/ Free(k)
    BY <1>2 DEF Unburdened, Free, At
  <2> QED  BY <1>0, <1>2, <2>1, ClearStays DEF Ears
<1>3. ASSUME UNCHANGED <<requests, judging>> PROVE Ears(k)'
  <2>1. Awaited(k)' \subseteq Awaited(k)  BY <1>0, <1>3, SameAwaited DEF requests
  <2> QED  BY <1>2, <1>3, <2>1 DEF judging
<1>4. ASSUME NEW j \in Judges, RunQuiet(j) PROVE Ears(k)'
  <2>0. UNCHANGED <<count, asked>>  BY <1>4, QuietRun
  <2>1. CASE k # j
    <3>1. Awaited(k)' \subseteq Awaited(k)
      BY <1>0, <1>4, <2>0, <2>1, JoinsAlone, SameAwaited
    <3>2. run'[k] = run[k]  BY <1>4, <2>1, QuietLaws
    <3>3. row'[k] = row[k] /\ (k \in partial' <=> k \in partial)
      BY <1>0, <1>4, <2>1 DEF RunQuiet, Permit, AskCapture, AskCommand, AskedBefore, JoinOpen,
         Refuse, AskNew, Number, Conclude, Fail, Mark, Redrive, TypeOK
    <3>4. (Unburdened(k) \/ Free(k))' => Unburdened(k) \/ Free(k)
      BY <3>2, <3>3 DEF Unburdened, Free, At
    <3> QED  BY <1>0, <3>1, <3>4, ClearStays DEF Ears
  <2>2. CASE k = j /\ (Unburdened(k) \/ Free(k))'
    <3>1. watchers' = watchers /\ (Unburdened(k) \/ \A n \in Awaited(k) : Answered(n))
      BY <1>4, <2>2, QuietLaws DEF Cleared
    <3>2. Awaited(k)' \subseteq Awaited(k)  BY <1>0, <2>0, <3>1, SameAwaited
    <3>3. CASE \A n \in Awaited(k) : Answered(n)
      <4>a. count \in 0 .. MaxRequests /\ MaxRequests \in Nat  BY <1>0, Bounds DEF TypeOK
      <4>b. Existing \subseteq Numbers  BY <4>a DEF Existing, Numbers
      <4>1. Awaited(k) \subseteq Existing /\ Existing \subseteq Numbers
        BY <4>b DEF Awaited, OwnOf, Watched
      <4>2. Clear(k)  BY <3>3, <4>1 DEF Clear, Answered, Heard, IInv, FailedInv
      <4> QED  BY <3>2, <4>2, ClearStays DEF Ears
    <3> QED  BY <1>0, <3>1, <3>2, <3>3, ClearStays DEF Ears
  <2> QED  BY <2>1, <2>2 DEF Ears
<1>5. ASSUME NEW j \in Judges, Insert(j) PROVE Ears(k)'
  <2>0. /\ At(j, "insert") /\ UNCHANGED <<watchers, row, partial>>
        /\ Lost(j) \/ (Got(j) /\ count + 1 \in Numbers)
    BY <1>5, InsertCases
  <2>1. CASE Lost(j)
    <3>1. UNCHANGED <<count, asked>>  BY <2>1 DEF Lost
    <3>2. Awaited(k)' \subseteq Awaited(k)  BY <1>0, <2>0, <3>1, SameAwaited
    <3>3. CASE k # j
      <4>1. run'[k] = run[k]  BY <1>0, <2>1, <3>3, RunAfter DEF Lost
      <4> QED  BY <1>2, <2>0, <3>2, <4>1
    <3>4. CASE k = j
      <4>1. run'[k] = [run[k] EXCEPT !.stage = "judging", !.ask = "", !.ordinal = 0]
        BY <1>0, <2>1, <3>4, RunAfter DEF Lost
      <4>2. (Unburdened(k) \/ Free(k))' => Unburdened(k)
        BY <1>0, <2>0, <3>4, <4>1, RunOf DEF Unburdened, Free, At, RunType
      <4> QED  BY <1>0, <3>2, <4>2, ClearStays DEF Ears
    <3> QED  BY <3>3, <3>4
  <2>2. CASE Got(j) /\ count + 1 \in Numbers
    <3>1. /\ Existing' = Existing \cup {count + 1}
          /\ \A n \in Existing : asked'[n] = asked[n]
          /\ asked'[count + 1] = [judge |-> j, ask |-> run[j].ask]
          /\ count + 1 \notin Existing
      BY <1>0, <2>2, NewRequest
    <3>2. CASE k # j
      <4>1. run'[k] = run[k]  BY <1>0, <2>2, <3>2, NewRequest
      <4>2. OwnOf(k)' \subseteq OwnOf(k)  BY <3>1, <3>2 DEF OwnOf
      <4>3. <<k, count + 1>> \notin watchers  BY <1>0, <3>1 DEF TypeOK
      <4>4. Watched(k)' \subseteq Watched(k)  BY <2>0, <3>1, <4>3 DEF Watched
      <4> QED  BY <1>2, <2>0, <4>1, <4>2, <4>4 DEF Awaited
    <3>3. CASE k = j
      <4>1. run'[k] = [run[k] EXCEPT !.stage = "judging", !.ask = "", !.ordinal = 0,
                                     !.pending = TRUE, !.made = @ \cup {count + 1}]
        BY <1>0, <2>2, <3>3, RunAfter DEF Got
      <4>2. run'[k].stage = "judging" /\ run'[k].pending  BY <1>0, <4>1, RunOf DEF RunType
      <4> QED  BY <4>2 DEF Ears, Unburdened, Free, At
    <3> QED  BY <3>2, <3>3
  <2> QED  BY <2>0, <2>1, <2>2
<1>6. ASSUME NEW n \in Numbers, Delivery(n) PROVE Ears(k)'
  BY <1>0, <1>3, <1>6, DeliveryTyped
<1>7. CASE SessionMoves \/ MoveOn  BY <1>0, <1>3, <1>7, WorldTyped DEF Elsewhere
<1>8. CASE UNCHANGED vars  BY <1>3, <1>8 DEF vars
<1> QED  BY <1>4, <1>5, <1>6, <1>7, <1>8, NextCases

-----------------------------------------------------------------------------
(* The theorems                                                            *)

LEMMA InitHolds == ASSUME Init PROVE IInv
<1>0. count = 0  BY DEF Init
<1>1. count = 0 /\ Existing = {}  BY <1>0 DEF Existing
<1>2. \A j \in Judges : /\ run[j] = [Idle EXCEPT !.stage = "queued"]
                        /\ run[j].stage = "queued" /\ row[j] = "none"
  BY DEF Init, Idle
<1>3. TypeOK
  <2>1. [Idle EXCEPT !.stage = "queued"] \in RunType
    <3>1. 0 \in 0 .. MaxRequests  BY Bounds
    <3> QED  BY <3>1 DEF Idle, RunType, Stages
  <2>2. run \in [Judges -> RunType]  BY <2>1 DEF Init
  <2>a. 0 \in 0 .. MaxRequests /\ 0 \in 0 .. MaxPolls  BY Bounds
  <2>3. count \in 0 .. MaxRequests /\ polls \in [Numbers -> 0 .. MaxPolls]  BY <2>a DEF Init
  <2> QED  BY <1>1, <2>2, <2>3 DEF Init, TypeOK, RunType
<1>4. LookInv /\ HearInv
  BY <1>1, <1>2 DEF LookInv, HearInv, At, Asking, Clear, Awaited, OwnOf, Watched
<1>5. Taken = {} /\ Pending = {} /\ \A j \in Judges : Asked(j) = {}
  BY <1>1, <1>2 DEF Taken, Pending, May, Asked, OwnOf, Asking, At
<1>6. BudgetInv  BY <1>2, <1>5, Bounds, FS_EmptySet DEF BudgetInv, Asking
<1>7. LimitInv
  <2>1. Cardinality(Judges) \in Nat /\ Cardinality(Judges) # 0
    BY Bounds, FS_EmptySet, FS_CardinalityType
  <2>2. Cardinality(Taken) = 0 /\ Cardinality(Pending) = 0  BY <1>5, FS_EmptySet
  <2> QED  BY <2>1, <2>2, Bounds DEF LimitInv, Pending
<1>8. FailedInv  BY DEF Init, FailedInv
<1> QED  BY <1>3, <1>4, <1>6, <1>7, <1>8 DEF IInv

LEMMA Inductive == Spec => []IInv
<1>1. IInv /\ [Next]_vars => IInv'
  BY TypeStep, AskStep, LimitStep, FailedStep, HearStep DEF IInv
<1> QED  BY InitHolds, <1>1, PTL DEF Spec

\* Whatever the judges ask and whatever becomes of it, the rows of requests
\* and of judges keep their types (register_interactive, the ticker's sweeps).
THEOREM ArtifactsTyped == Spec => []TypeOK
<1>1. IInv => TypeOK  BY DEF IInv
<1> QED  BY Inductive, <1>1, PTL

\* For any number of judges, no judge asks for more captures than its budget,
\* and together they pass the task's limit by at most one look each
\* (register_interactive reads the list of requests before it inserts one).
THEOREM AsksStayBounded == Spec => []AsksBounded
<1>1. IInv => AsksBounded
  <2> SUFFICES ASSUME IInv PROVE AsksBounded  OBVIOUS
  <2>1. Cardinality(Taken) <= Limit + Cardinality(Judges) - 1
    <3>1. Cardinality(Taken) \in Nat  BY FiniteAsked DEF IInv
    <3>2. Cardinality(Taken) + Cardinality(Pending) <= Limit + Cardinality(Judges) - 1
      BY DEF IInv, LimitInv, Pending
    <3> QED  BY <3>1, <3>2, FinitePending, Bounds
  <2> QED  BY <2>1 DEF IInv, BudgetInv, AsksBounded, Taken
<1> QED  BY Inductive, <1>1, PTL

\* A judge whose verdict stands in full, not marked partial, has been answered
\* on everything it waited for, its own requests and those it joined, however
\* deliveries, silences and re-drives interleave (redrive_waiting_judges).
THEOREM FullVerdictsHeardAll == Spec => []FullVerdictHeardAll
<1>1. IInv => FullVerdictHeardAll
  BY DEF IInv, HearInv, Free, Clear, FullVerdictHeardAll
<1> QED  BY Inductive, <1>1, PTL
=============================================================================
