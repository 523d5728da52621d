----------------------------- MODULE PagesProofs -----------------------------
(***************************************************************************)
(* What a live page shows, for every set of verdicts, tick size, duration  *)
(* and length of behaviour: first the countdown, then the frames, which    *)
(* share no state (see MCPages).  The names and the run are those of       *)
(* MCPages; this is what TLC checks on Pages.cfg.                          *)
(***************************************************************************)
EXTENDS MCPages, Sequences, TLAPS

-----------------------------------------------------------------------------
(* The countdown.                                                          *)


\* What is left of a difference after the cut to whole seconds.
Lost(from, to) == to - from - Ticks * Seconds(from, to)

(* Cutting a difference to whole seconds loses less than a second.          *)
LEMMA CutLosesLessThanASecond ==
  ASSUME NEW from \in Nat, NEW to \in Nat, from <= to
  PROVE  Seconds(from, to) \in Nat /\ Lost(from, to) \in 0 .. Ticks - 1
<1> DEFINE d == to - from
<1>1. d \in Nat  OBVIOUS
<1>2. d \div Ticks \in Nat  BY <1>1, TicksAssumption, SMT
<1>3. d - Ticks * (d \div Ticks) \in 0 .. Ticks - 1
  BY <1>1, TicksAssumption, SMT
<1> QED  BY <1>2, <1>3 DEF Seconds, Lost

(* Cut differences are monotone, and add up to no more than the cut sum.    *)
LEMMA CutsAddUp ==
  ASSUME NEW a \in Nat, NEW b \in Nat, NEW c \in Nat, a <= b, b <= c
  PROVE  Seconds(a, b) + Seconds(b, c) <= Seconds(a, c)
<1> DEFINE x == Seconds(a, b)  y == Seconds(b, c)  z == Seconds(a, c)
<1>1. /\ x \in Nat /\ y \in Nat /\ z \in Nat
      /\ b - a - Ticks * x \in 0 .. Ticks - 1
      /\ c - b - Ticks * y \in 0 .. Ticks - 1
      /\ c - a - Ticks * z \in 0 .. Ticks - 1
  <2>1. x \in Nat /\ Lost(a, b) \in 0 .. Ticks - 1  BY CutLosesLessThanASecond
  <2>2. y \in Nat /\ Lost(b, c) \in 0 .. Ticks - 1  BY CutLosesLessThanASecond
  <2>3. z \in Nat /\ Lost(a, c) \in 0 .. Ticks - 1
    <3>1. a <= c  OBVIOUS
    <3> QED  BY <3>1, CutLosesLessThanASecond
  <2> QED  BY <2>1, <2>2, <2>3 DEF Lost
<1>2. Ticks * (x + y) < Ticks * (z + 1)
  <2> HIDE DEF x, y, z
  <2>1. Ticks * x + Ticks * y < Ticks * z + Ticks
    BY <1>1, TicksAssumption
  <2> QED  BY <1>1, <2>1, TicksAssumption
<1>3. x + y < z + 1
  <2> HIDE DEF x, y, z
  <2> SUFFICES ASSUME x + y >= z + 1 PROVE FALSE  BY <1>1
  <2>1. Ticks * (x + y) >= Ticks * (z + 1)  BY <1>1, TicksAssumption
  <2> QED  BY <1>1, <1>2, <2>1, TicksAssumption
<1> QED  BY <1>1, <1>3

-----------------------------------------------------------------------------
\* The timestamps are in the order they were taken in, and what was counted
\* before the last start is part of what is counted now.
Ordered == /\ startedAt <= now /\ pausedAt <= now
           /\ status = "Paused" => startedAt <= pausedAt
           /\ credit <= paused

ClockInv == TypeOK /\ Ordered /\ ClockAccountsForPlay /\ NeverCutShort

\* The products in the account, named so that the rest is linear.
Counted   == Ticks * (paused - credit)
Allowance == pauses * (Ticks - 1)
UpTo      == IF status = "Paused" THEN pausedAt ELSE now
Account   == status # "Finished" => UpTo - startedAt - Counted - ran - forgotten \in 0 .. Allowance

(* The account is ClockAccountsForPlay; its products are natural numbers.   *)
LEMMA AccountIs ==
  /\ ClockAccountsForPlay <=> Account
  /\ ClockAccountsForPlay' <=> Account'
  /\ TypeOK /\ Ordered => Counted \in Nat /\ Allowance \in Nat
<1>1. ClockAccountsForPlay <=> Account
  BY DEF ClockAccountsForPlay, Account, UpTo, Counted, Allowance
<1>2. ClockAccountsForPlay' <=> Account'
  BY DEF ClockAccountsForPlay, Account, UpTo, Counted, Allowance
<1>3. TypeOK /\ Ordered => Counted \in Nat /\ Allowance \in Nat
  <2> SUFFICES ASSUME TypeOK, Ordered PROVE Counted \in Nat /\ Allowance \in Nat
    OBVIOUS
  <2>1. paused - credit \in Nat /\ Ticks - 1 \in Nat /\ pauses \in Nat /\ Ticks \in Nat
    BY TicksAssumption DEF TypeOK, Ordered
  <2> QED  BY <2>1 DEF Counted, Allowance
<1> QED  BY <1>1, <1>2, <1>3

(* The first state of a started session.                                    *)
LEMMA ClockBegins == Init => ClockInv
<1> SUFFICES ASSUME Init PROVE ClockInv  OBVIOUS
<1> USE TicksAssumption, DurationsAssumption DEF Init
<1>1. TypeOK  BY DEF TypeOK
<1>2. Ordered  BY <1>1 DEF Ordered, TypeOK
<1>3. ClockAccountsForPlay  BY <1>1 DEF ClockAccountsForPlay, TypeOK
<1>4. NeverCutShort  BY DEF NeverCutShort
<1> QED  BY <1>1, <1>2, <1>3, <1>4 DEF ClockInv

(* A completed pause window adds less than a second of drift.               *)
LEMMA ResumeKeepsAccount ==
  ASSUME TypeOK, Ordered, Account, Resume
  PROVE  paused' \in Nat /\ paused <= paused' /\ Account'
<1> DEFINE w == Seconds(pausedAt, now)  l == Lost(pausedAt, now)
<1>1. w \in Nat /\ l \in 0 .. Ticks - 1 /\ now - pausedAt = Ticks * w + l
  BY CutLosesLessThanASecond, TicksAssumption DEF TypeOK, Ordered, Lost
<1>2. paused' = paused + w
  BY <1>1 DEF Resume, Window, Clamp
<1> HIDE DEF w, l
<1>3. Counted' = Counted + Ticks * w /\ Ticks * w \in Nat
  <2>1. Counted' = Ticks * ((paused - credit) + w)
    BY <1>1, <1>2 DEF Resume, Counted, TypeOK
  <2>2. Ticks * ((paused - credit) + w) = Ticks * (paused - credit) + Ticks * w
    BY <1>1, TicksAssumption DEF TypeOK
  <2> QED  BY <1>1, <2>1, <2>2, TicksAssumption DEF Counted
<1>4. Allowance' = Allowance + (Ticks - 1)
  BY TicksAssumption DEF Resume, Allowance, TypeOK
<1>5. pausedAt - startedAt - Counted - ran - forgotten \in 0 .. Allowance
  BY DEF Account, Resume, UpTo
<1>6. Counted \in Nat /\ Allowance \in Nat  BY AccountIs
<1>7. now - startedAt - Counted' - ran - forgotten \in 0 .. Allowance'
  <2> DEFINE tw == Ticks * w
  <2>1. tw \in Nat /\ Counted' = Counted + tw /\ now - pausedAt = tw + l
    BY <1>1, <1>3
  <2> HIDE DEF tw
  <2> QED  BY <1>1, <1>4, <1>5, <1>6, <2>1, TicksAssumption DEF TypeOK
<1>8. Account'
  BY <1>7 DEF Account, UpTo, Resume
<1> QED  BY <1>1, <1>2, <1>8 DEF TypeOK

(* When the countdown reaches zero, the time really played is the duration, *)
(* less the drift.                                                          *)
LEMMA ExpireIsNotEarly ==
  ASSUME TypeOK, Ordered, Account, Expire PROVE NeverCutShort'
<1> DEFINE e == Seconds(startedAt, now)
<1>1. e \in Nat /\ now - startedAt - Ticks * e \in 0 .. Ticks - 1
  BY CutLosesLessThanASecond DEF TypeOK, Ordered, Lost
<1>2. duration \in Nat  BY DurationsAssumption DEF TypeOK
<1>3. e >= (duration + credit) + (paused - credit)
  BY <1>1, <1>2 DEF Expire, TimeIsUp, ComputeRemaining, Clamp, TypeOK
<1>4. now - startedAt - Counted - ran - forgotten \in 0 .. Allowance
  BY DEF Account, Expire, UpTo
<1>5. Counted \in Nat /\ Allowance \in Nat  BY AccountIs
<1> DEFINE td == Ticks * (duration + credit)  te == Ticks * e
<1>6. td \in Nat /\ te \in Nat /\ te >= td + Counted
  <2> HIDE DEF e
  <2>1. Ticks * e >= Ticks * ((duration + credit) + (paused - credit))
    BY <1>1, <1>2, <1>3, TicksAssumption DEF TypeOK
  <2>2. Ticks * ((duration + credit) + (paused - credit))
          = Ticks * (duration + credit) + Ticks * (paused - credit)
    BY <1>2, TicksAssumption DEF TypeOK
  <2>3. Ticks * e \in Nat /\ Ticks * (duration + credit) \in Nat
    BY <1>1, <1>2, TicksAssumption DEF TypeOK
  <2> QED  BY <2>1, <2>2, <2>3 DEF Counted
<1>7. now - startedAt >= te  BY <1>1, TicksAssumption DEF TypeOK
<1>8. ran >= td - forgotten - Allowance
  <2> HIDE DEF td, te
  <2> DEFINE c == Counted  al == Allowance
  <2>1. c \in Nat /\ al \in Nat /\ te >= td + c
        /\ now - startedAt - c - ran - forgotten >= 0
        /\ now - startedAt - c - ran - forgotten <= al
    BY <1>4, <1>5, <1>6 DEF TypeOK
  <2> HIDE DEF c, al
  <2>2. ran >= td - forgotten - al
    BY <1>6, <1>7, <2>1 DEF TypeOK
  <2> QED  BY <2>2 DEF al
<1> QED  BY <1>8 DEF NeverCutShort, Expire, observed, Allowance, td

(* Every step keeps the invariant.                                          *)
LEMMA ClockStep == ClockInv /\ [Next]_vars => ClockInv'
<1> SUFFICES ASSUME TypeOK, Ordered, Account, NeverCutShort, [Next]_vars
             PROVE  TypeOK' /\ Ordered' /\ Account' /\ NeverCutShort'
  BY AccountIs DEF ClockInv
<1>0. Counted \in Nat /\ Allowance \in Nat  BY AccountIs
<1>a. ASSUME UNCHANGED <<paused, credit, pauses>>
      PROVE  Counted' = Counted /\ Allowance' = Allowance
  BY <1>a DEF Counted, Allowance
<1>1. CASE Tick
  <2>1. TypeOK' /\ Ordered'
    BY <1>1 DEF Tick, TypeOK, Ordered
  <2>2. Account'
    BY <1>0, <1>1, <1>a DEF Tick, Account, UpTo, TypeOK
  <2>3. NeverCutShort'
    BY <1>1 DEF Tick, NeverCutShort, TypeOK
  <2> QED  BY <2>1, <2>2, <2>3
<1>2. CASE Pause
  <2>1. TypeOK' /\ Ordered'
    BY <1>2 DEF Pause, TypeOK, Ordered
  <2>2. Account'
    BY <1>0, <1>2, <1>a DEF Pause, Account, UpTo, TypeOK
  <2>3. NeverCutShort'
    BY <1>2 DEF Pause, NeverCutShort
  <2> QED  BY <2>1, <2>2, <2>3
<1>3. CASE Resume
  <2>1. paused' \in Nat /\ paused <= paused' /\ Account'
    BY <1>3, ResumeKeepsAccount
  <2>2. TypeOK' /\ Ordered'
    BY <1>3, <2>1 DEF Resume, TypeOK, Ordered
  <2>3. NeverCutShort'
    BY <1>3 DEF Resume, NeverCutShort
  <2> QED  BY <2>1, <2>2, <2>3
<1>4. CASE FirstDispatch
  <2>1. TypeOK' /\ Ordered'
    BY <1>4 DEF FirstDispatch, TypeOK, Ordered
  <2>2. Account'
    <3>1. Counted' = 0
      BY <1>4, TicksAssumption DEF FirstDispatch, Counted, TypeOK
    <3>2. Allowance' \in Nat
      BY <1>4, TicksAssumption DEF FirstDispatch, Allowance, TypeOK
    <3> QED  BY <1>4, <3>1, <3>2 DEF FirstDispatch, Account, UpTo, TypeOK
  <2>3. NeverCutShort'
    BY <1>4 DEF FirstDispatch, NeverCutShort
  <2> QED  BY <2>1, <2>2, <2>3
<1>5. CASE EditDuration
  <2>1. TypeOK' /\ Ordered'
    BY <1>5 DEF EditDuration, observed, TypeOK, Ordered
  <2>2. Account'
    BY <1>5, <1>a DEF EditDuration, observed, Account, UpTo
  <2>3. NeverCutShort'
    BY <1>5 DEF EditDuration, NeverCutShort
  <2> QED  BY <2>1, <2>2, <2>3
<1>6. CASE Expire
  <2>1. TypeOK' /\ Ordered'
    BY <1>6 DEF Expire, observed, TypeOK, Ordered
  <2>2. Account'
    BY <1>6 DEF Expire, Account
  <2> QED  BY <1>6, <2>1, <2>2, ExpireIsNotEarly
<1>7. CASE UNCHANGED vars
  <2>1. TypeOK' /\ Ordered' /\ NeverCutShort'
    BY <1>7 DEF vars, observed, TypeOK, Ordered, NeverCutShort
  <2>2. Account'
    BY <1>7, <1>a DEF vars, observed, Account, UpTo
  <2> QED  BY <2>1, <2>2
<1> QED  BY <1>1, <1>2, <1>3, <1>4, <1>5, <1>6, <1>7 DEF Next

(* ClockInv holds in every reachable state.                                     *)
LEMMA ClockInvHolds == Spec => []ClockInv
BY ClockBegins, ClockStep, PTL DEF Spec

(* The clock's variables keep their types.                                  *)
THEOREM ClockTyped == Spec => []TypeOK
<1>1. ClockInv => TypeOK  BY DEF ClockInv
<1> QED  BY <1>1, ClockInvHolds, PTL

(* The timestamps of a session that is still open account for the time it   *)
(* was really played, up to the part of a second each pause window is cut   *)
(* by.                                                                      *)
THEOREM TimestampsAccountForPlay == Spec => []ClockAccountsForPlay
<1>1. ClockInv => ClockAccountsForPlay  BY DEF ClockInv
<1> QED  BY <1>1, ClockInvHolds, PTL

(* No session is cut short by more than the seconds its pauses were cut by. *)
THEOREM SessionsAreNotCutShort == Spec => []NeverCutShort
<1>1. ClockInv => NeverCutShort  BY DEF ClockInv
<1> QED  BY <1>1, ClockInvHolds, PTL

-----------------------------------------------------------------------------
(* A later instant has no more left than an earlier one.                    *)
LEMMA LeftFalls ==
  ASSUME TypeOK, NEW a \in Nat, NEW b \in Nat, startedAt <= a, a <= b
  PROVE  /\ Seconds(startedAt, a) \in Nat /\ Seconds(startedAt, b) \in Nat
         /\ Seconds(startedAt, a) + Clamp(Seconds(a, b)) <= Seconds(startedAt, b)
<1>1. startedAt \in Nat /\ startedAt <= b  BY DEF TypeOK
<1>2. Seconds(a, b) \in Nat  BY CutLosesLessThanASecond
<1>3. Seconds(startedAt, a) \in Nat  BY <1>1, CutLosesLessThanASecond
<1>4. Seconds(startedAt, b) \in Nat  BY <1>1, CutLosesLessThanASecond
<1>5. Seconds(startedAt, a) + Seconds(a, b) <= Seconds(startedAt, b)
  BY <1>1, CutsAddUp
<1> QED  BY <1>2, <1>3, <1>4, <1>5 DEF Clamp

(* No step makes the countdown rise while duration and start stay.          *)
LEMMA StepNeverRaises ==
  ASSUME ClockInv, [Next]_vars, duration' = duration, startedAt' = startedAt,
         status' # "Finished"
  PROVE  Shown' <= Shown
<1> USE DEF ClockInv, Shown, ComputeRemaining
<1>0. duration \in Nat  BY DurationsAssumption DEF TypeOK
<1>a. startedAt <= now /\ Seconds(startedAt, now) \in Nat
      /\ (status = "Paused" => Seconds(startedAt, pausedAt) \in Nat)
  <2>1. startedAt <= now  BY DEF Ordered
  <2>2. Seconds(startedAt, now) \in Nat
    BY <2>1, CutLosesLessThanASecond DEF TypeOK
  <2>3. status = "Paused" => Seconds(startedAt, pausedAt) \in Nat
    BY CutLosesLessThanASecond DEF TypeOK, Ordered
  <2> QED  BY <2>1, <2>2, <2>3
<1>b. ASSUME status = "Paused"
      PROVE  /\ Clamp(Seconds(pausedAt, now)) \in Nat
             /\ Seconds(startedAt, pausedAt) + Clamp(Seconds(pausedAt, now))
                  <= Seconds(startedAt, now)
  <2>1. startedAt <= pausedAt /\ pausedAt <= now  BY <1>b DEF Ordered
  <2>2. Clamp(Seconds(pausedAt, now)) \in Nat
    BY <2>1, CutLosesLessThanASecond DEF TypeOK, Clamp
  <2> QED  BY <2>1, <2>2, LeftFalls DEF TypeOK
<1>1. CASE Tick
  <2>1. Seconds(startedAt, now + 1) \in Nat
        /\ Seconds(startedAt, now) <= Seconds(startedAt, now + 1)
    <3>1. now <= now + 1 /\ now + 1 \in Nat
      BY DEF TypeOK
    <3>2. Seconds(now, now + 1) \in Nat
      BY <3>1, CutLosesLessThanASecond DEF TypeOK
    <3>3. /\ Seconds(startedAt, now) \in Nat /\ Seconds(startedAt, now + 1) \in Nat
          /\ Seconds(startedAt, now) + Clamp(Seconds(now, now + 1))
               <= Seconds(startedAt, now + 1)
      BY <1>a, <3>1, LeftFalls DEF TypeOK
    <3> QED  BY <3>2, <3>3 DEF Clamp
  <2>2. /\ Seconds(startedAt, now)' = Seconds(startedAt, now + 1)
        /\ Seconds(startedAt, pausedAt)' = Seconds(startedAt, pausedAt)
    BY <1>1 DEF Tick, Seconds
  <2> QED  BY <1>0, <1>1, <1>a, <2>1, <2>2 DEF Tick, TypeOK, Clamp
<1>2. CASE Pause
  <2>1. Seconds(startedAt, pausedAt)' = Seconds(startedAt, now)
    BY <1>2 DEF Pause, Seconds
  <2>2. CASE status = "Paused"
    <3>1. Seconds(startedAt, pausedAt) <= Seconds(startedAt, now)
      BY <1>a, <1>b, <2>2
    <3> QED  BY <1>0, <1>2, <1>a, <2>1, <2>2, <3>1 DEF Pause, TypeOK, Clamp
  <2>3. CASE status # "Paused"
    BY <1>0, <1>2, <1>a, <2>1, <2>3 DEF Pause, TypeOK, Clamp
  <2> QED  BY <2>2, <2>3
<1>3. CASE Resume
  <2> DEFINE w == Window(now)
  <2>1. w \in Nat /\ Seconds(startedAt, pausedAt) + w <= Seconds(startedAt, now)
    BY <1>3, <1>b DEF Resume, Window
  <2>2. Seconds(startedAt, now)' = Seconds(startedAt, now) /\ paused' = paused + w
    BY <1>3 DEF Resume, Seconds
  <2> HIDE DEF w
  <2> QED  BY <1>0, <1>3, <1>a, <2>1, <2>2 DEF Resume, TypeOK, Clamp
<1>4. CASE FirstDispatch
  <2>1. startedAt = now /\ pausedAt = now
    BY <1>4 DEF FirstDispatch, Ordered, TypeOK
  <2>2. /\ status = "Paused" /\ status' = "Running"
        /\ now' = now /\ startedAt' = startedAt /\ paused' = paused
    BY <1>4 DEF FirstDispatch
  <2>3. Seconds(startedAt, now)' = Seconds(startedAt, now)
    BY <2>2 DEF Seconds
  <2>4. Seconds(startedAt, pausedAt) = Seconds(startedAt, now)
    BY <2>1, Zenon
  <2>5. Shown = Clamp(duration - Seconds(startedAt, now) + paused)
    BY <2>2, <2>4
  <2>6. Shown' = Clamp(duration - Seconds(startedAt, now) + paused)
    BY <2>2, <2>3
  <2> QED  BY <1>0, <1>a, <2>5, <2>6 DEF TypeOK, Clamp
<1>5. CASE EditDuration \/ UNCHANGED vars
  <2>1. now' = now /\ status' = status /\ startedAt' = startedAt
        /\ pausedAt' = pausedAt /\ paused' = paused
    BY <1>5 DEF EditDuration, vars
  <2>2. /\ Seconds(startedAt, now)' = Seconds(startedAt, now)
        /\ Seconds(startedAt, pausedAt)' = Seconds(startedAt, pausedAt)
    BY <2>1 DEF Seconds
  <2> QED  BY <1>0, <1>a, <2>1, <2>2 DEF Clamp, TypeOK
<1>6. CASE Expire
  BY <1>6 DEF Expire
<1> QED  BY <1>1, <1>2, <1>3, <1>4, <1>5, <1>6 DEF Next

(* The countdown every client sees never goes up while the project's        *)
(* duration and the session's start are left alone: not over a pause, a     *)
(* repeated pause or a resume.                                              *)
THEOREM CountdownOnlyFalls == Spec => CountdownNeverRises
<1>1. ClockInv /\ [Next]_vars
        => [duration' = duration /\ startedAt' = startedAt /\ status' # "Finished"
              => Shown' <= Shown]_vars
  BY StepNeverRaises
<1> QED  BY <1>1, ClockInvHolds, PTL DEF Spec, CountdownNeverRises

-----------------------------------------------------------------------------
(* What is on the way *)

Ended == game.ending \/ standing \in Feed!Over

Events == [kind : {"scored"}, verdict : Verdicts]
            \cup [kind : {"timer"}, status : {"running", "paused"}]
            \cup [kind : {"status"}, status : Feed!Over]
            \cup [kind : {"settled"}]

\* What a sender may have in hand, and what else is in a page's feed.
Scores    == [kind : {"scored"}, version : Nat, verdict : Verdicts]
Plain     == [kind : {"countdown", "board", "settled"}, version : Nat]
Completes == [kind : {"complete"}, version : Nat]
Changes   == [kind : {"change"}, status : Feed!Statuses]
Snapshots == [kind : {"snapshot"}, version : Nat,
              phase : {"running", "paused", "lobby", "over"}, log : SUBSET Verdicts]
InHand    == Scores \cup Plain
Frames    == InHand \cup Completes \cup Changes \cup Snapshots

GameTyped == game \in [tick : {"running", "paused", "none"}, ending : BOOLEAN,
                       sweeping : BOOLEAN, chain : BOOLEAN, settled : BOOLEAN,
                       told : SUBSET Verdicts]
EntryTyped == /\ entry \in [there : BOOLEAN, phase : Feed!Statuses \cup {"lobby"}, version : Nat]
              /\ entry.version > 0
PageTyped == page \in [link : {"closed", "reading", "read", "open"}, last : Nat,
                       phase : {"running", "paused", "over"}, log : SUBSET Verdicts,
                       read : SUBSET Verdicts, settled : BOOLEAN]
Typed ==
  /\ standing \in Feed!Statuses /\ filed \subseteq Verdicts \ OfSession
  /\ GameTyped /\ EntryTyped /\ PageTyped
  /\ hand \in [Feed!Senders -> Seq(InHand)] /\ \A a \in Feed!Senders : Len(hand[a]) <= 1
  /\ owes \in BOOLEAN /\ patch \in [to : Feed!Statuses, next : {"none", "fan", "cache"}]
  /\ web \in {"counting", "waiting", "telling", "gone"}
  /\ missed \subseteq {"lost", "evicted", "cut", "older", "misled"} /\ watching \in BOOLEAN
  /\ stir \in 0..MaxStir

\* An ending is never announced before it is certain.
Announced(e) == /\ e \in Events
                /\ e.kind = "scored" => e.verdict \in game.told
                /\ e.kind = "status" => Ended
Carried(f) == /\ f \in InHand /\ f.version <= entry.version
              /\ f.kind = "scored" => f.verdict \in game.told
Reported(f) == /\ f \in Frames
               /\ f.kind = "scored" => f.verdict \in game.told
               /\ f.kind # "change" => f.version <= entry.version
               /\ f.kind = "complete" => Ended
               /\ f.kind = "change" => (f.status \in Feed!Over => Ended)
               /\ f.kind = "snapshot" => /\ f.phase = "over" => Ended
                                         /\ f.log \subseteq filed /\ page.log \cap filed \subseteq f.log

BusTyped  == bus \in Seq(Events) /\ \A i \in DOMAIN bus : Announced(bus[i])
HandTyped == /\ \A a \in Feed!Senders : \A i \in DOMAIN hand[a] : Carried(hand[a][i])
             /\ hand["route"] # <<>> => entry.there
FeedTyped == /\ feed \in Seq(Frames) /\ \A i \in DOMAIN feed : Reported(feed[i])
             /\ page.link = "closed" => feed = <<>>
             /\ \A i \in DOMAIN feed :
                  feed[i].kind = "snapshot" => i = 1 /\ page.link = "open"

\* Nobody says that the session is over before that is certain.
Certain ==
  /\ game.told \subseteq filed \cup OfSession
  /\ entry.phase \in Feed!Over => Ended
  /\ web = "telling" => Ended
  /\ game.sweeping => Ended
  /\ patch.next # "none" /\ patch.to \in Feed!Over => Ended
  /\ patch.next = "fan" /\ ~Ended => patch.to = standing
PageSound ==
  /\ page.log \subseteq filed \cup OfSession /\ page.read \subseteq filed
  /\ page.link = "read" => page.log \cap filed \subseteq page.read
  /\ page.phase = "over" => Ended
  /\ missed = {} => page.last <= entry.version

-----------------------------------------------------------------------------
(* The verdicts *)

\* A snapshot that will be accepted is yet to be taken.
Stale == page.link # "open" /\ entry.version > page.last

BusHas(v)  == \E i \in DOMAIN bus : bus[i].kind = "scored" /\ bus[i].verdict = v
HandHas(v) == \E i \in DOMAIN hand["route"] :
                hand["route"][i].kind = "scored" /\ hand["route"][i].verdict = v
FeedHas(v) == \E i \in DOMAIN feed : feed[i].kind = "scored" /\ feed[i].verdict = v
OnTheWay(v) == BusHas(v) \/ HandHas(v) \/ FeedHas(v)

Renews(v) ==
  \/ page.link \in {"closed", "reading"} /\ Stale
  \/ page.link = "read" /\ Stale /\ v \in page.read
  \/ \E i \in DOMAIN feed : feed[i].kind = "snapshot" /\ v \in feed[i].log
                             /\ feed[i].version > page.last

Covered == missed \subseteq {"misled"} =>
  \A v \in game.told \cap filed : v \in page.log \/ OnTheWay(v) \/ Renews(v)

-----------------------------------------------------------------------------
(* The phase *)

\* Nothing before the frame has a version that would make the page drop it.
Lands(i) == /\ feed[i].version > page.last
            /\ \A j \in 1..(i - 1) : feed[j].kind = "change" \/ feed[j].version < feed[i].version
Ends(i) == \/ feed[i].kind = "change" /\ feed[i].status \in Feed!Over
           \/ feed[i].kind = "complete" /\ Lands(i)
           \/ feed[i].kind = "snapshot" /\ feed[i].phase = "over" /\ Lands(i)
BusEnds    == \E i \in DOMAIN bus : bus[i].kind = "status"
OverKnown  == page.phase = "over" \/ \E i \in DOMAIN feed : Ends(i)
OverComing == \/ patch.next = "fan" /\ patch.to \in Feed!Over
              \/ web = "telling" \/ game.sweeping
              \/ BusEnds

Changed   == \E i \in DOMAIN feed : feed[i].kind = "change"
Renewed   == \E i \in DOMAIN feed : feed[i].kind = "snapshot" /\ feed[i].version > page.last
LiveKnown ==
  \/ patch.next = "fan" \/ Changed
  \/ /\ ~Changed
     /\ \A i \in DOMAIN feed : feed[i].kind = "snapshot" /\ feed[i].version > page.last =>
                                 Feed!Phase(feed[i].phase) = Feed!Shown(standing)
     /\ Renewed \/ page.phase = Feed!Shown(standing)

\* The last change on the way is the one the row has.
LastIsRight == missed = {} /\ ~Ended /\ patch.next # "fan" =>
  \A i \in DOMAIN feed : feed[i].kind = "change" =>
    \/ feed[i].status = standing
    \/ \E j \in DOMAIN feed : j > i /\ feed[j].kind = "change"

Led == missed = {} /\ ~Stale => IF Ended THEN OverKnown \/ OverComing ELSE LiveKnown
CacheTold == missed = {} /\ ~Stale /\ entry.there /\ entry.phase \in Feed!Over => OverKnown

FeedInv == /\ Typed /\ BusTyped /\ HandTyped /\ FeedTyped /\ Certain /\ PageSound
           /\ Covered /\ LastIsRight /\ Led /\ CacheTold

-----------------------------------------------------------------------------
(* Sequences *)

LEMMA AppendTo ==
  ASSUME NEW S, NEW s \in Seq(S), NEW e \in S
  PROVE  /\ Append(s, e) \in Seq(S) /\ Len(Append(s, e)) = Len(s) + 1 /\ Len(s) \in Nat
         /\ \A i \in DOMAIN s : i \in DOMAIN Append(s, e) /\ Append(s, e)[i] = s[i]
         /\ Len(s) + 1 \in DOMAIN Append(s, e) /\ Append(s, e)[Len(s) + 1] = e
         /\ \A i \in DOMAIN Append(s, e) : i \in DOMAIN s \/ Append(s, e)[i] = e
OBVIOUS

LEMMA TailOf ==
  ASSUME NEW S, NEW s \in Seq(S), s # <<>>
  PROVE  /\ Tail(s) \in Seq(S) /\ Len(s) \in Nat /\ Len(Tail(s)) = Len(s) - 1
         /\ Head(s) = s[1] /\ s[1] \in S /\ 1 \in DOMAIN s
         /\ \A i \in DOMAIN Tail(s) : i + 1 \in DOMAIN s /\ Tail(s)[i] = s[i + 1]
         /\ \A i \in DOMAIN s : i = 1 \/ (i - 1 \in DOMAIN Tail(s) /\ Tail(s)[i - 1] = s[i])
OBVIOUS

LEMMA Joined ==
  ASSUME NEW S, NEW s \in Seq(S), NEW t \in Seq(S)
  PROVE  /\ s \o t \in Seq(S) /\ Len(s \o t) = Len(s) + Len(t)
         /\ Len(s) \in Nat /\ Len(t) \in Nat
         /\ \A i \in 1..Len(s) : (s \o t)[i] = s[i]
         /\ \A i \in 1..Len(t) : (s \o t)[Len(s) + i] = t[i]
OBVIOUS

LEMMA Consed ==
  ASSUME NEW S, NEW s \in Seq(S), NEW e \in S
  PROVE  /\ <<e>> \o s \in Seq(S) /\ Len(<<e>> \o s) = Len(s) + 1 /\ Len(s) \in Nat
         /\ 1 \in DOMAIN (<<e>> \o s) /\ (<<e>> \o s)[1] = e
         /\ \A i \in DOMAIN s : i + 1 \in DOMAIN (<<e>> \o s) /\ (<<e>> \o s)[i + 1] = s[i]
         /\ \A i \in DOMAIN (<<e>> \o s) :
              i = 1 \/ (i - 1 \in DOMAIN s /\ (<<e>> \o s)[i] = s[i - 1])
<1>1. <<e>> \in Seq(S) /\ Len(<<e>>) = 1 /\ <<e>>[1] = e  OBVIOUS
<1>2. PICK t \in Seq(S) : t = <<e>> /\ Len(t) = 1 /\ t[1] = e  BY <1>1, Zenon
<1>3. /\ t \o s \in Seq(S) /\ Len(t \o s) = 1 + Len(s) /\ Len(s) \in Nat
      /\ \A i \in 1..1 : (t \o s)[i] = t[i]
      /\ \A i \in 1..Len(s) : (t \o s)[1 + i] = s[i]
  BY <1>2, Joined
<1>4. DOMAIN s = 1..Len(s) /\ DOMAIN (t \o s) = 1..(1 + Len(s))  BY <1>3
<1>5. \A i \in DOMAIN (t \o s) : i = 1 \/ (i - 1 \in DOMAIN s /\ (t \o s)[i] = s[i - 1])
  <2> SUFFICES ASSUME NEW i \in DOMAIN (t \o s), i # 1
               PROVE  i - 1 \in DOMAIN s /\ (t \o s)[i] = s[i - 1]
    OBVIOUS
  <2>1. i - 1 \in 1..Len(s) /\ 1 + (i - 1) = i  BY <1>3, <1>4
  <2> QED  BY <1>3, <1>4, <2>1
<1>6. 1 \in DOMAIN (t \o s) /\ (t \o s)[1] = e  BY <1>2, <1>3, <1>4
<1>7. \A i \in DOMAIN s : i + 1 \in DOMAIN (t \o s) /\ (t \o s)[i + 1] = s[i]
  <2> SUFFICES ASSUME NEW i \in DOMAIN s
               PROVE  i + 1 \in DOMAIN (t \o s) /\ (t \o s)[i + 1] = s[i]
    OBVIOUS
  <2>1. i \in 1..Len(s) /\ 1 + i = i + 1 /\ i + 1 \in 1..(1 + Len(s))  BY <1>3, <1>4
  <2> QED  BY <1>3, <1>4, <2>1
<1> QED  BY <1>2, <1>3, <1>5, <1>6, <1>7

-----------------------------------------------------------------------------
(* Steps after which the page knows no less *)

Prefix == /\ feed' \in Seq(Frames) /\ Len(feed) <= Len(feed')
          /\ \A i \in 1..Len(feed) : feed'[i] = feed[i]
          /\ Len(feed') > Len(feed) => page.link # "closed"

\* The game server and the main server go on; the page has not moved.
Forward ==
  /\ page' = page /\ filed \subseteq filed' /\ game.told \subseteq game'.told
  /\ (filed' \ filed) \cap page.log = {}
  /\ Ended => Ended'
  /\ entry.version <= entry'.version /\ missed \subseteq missed'
  /\ Prefix
  /\ \A i \in 1..Len(feed') : i > Len(feed) => feed'[i].kind # "snapshot"

LEMMA FeedIndices ==
  ASSUME feed \in Seq(Frames), Prefix
  PROVE  /\ DOMAIN feed = 1..Len(feed) /\ DOMAIN feed' = 1..Len(feed')
         /\ Len(feed) \in Nat /\ Len(feed') \in Nat
         /\ \A i \in DOMAIN feed : i \in DOMAIN feed' /\ feed'[i] = feed[i]
BY DEF Prefix

LEMMA ForwardLands ==
  ASSUME feed \in Seq(Frames), Forward, NEW i \in DOMAIN feed, Lands(i) PROVE Lands(i)'
<1>0. Prefix /\ page' = page  BY DEF Forward
<1>1. i \in 1..Len(feed) /\ Len(feed) \in Nat /\ feed'[i] = feed[i]  BY <1>0, FeedIndices
<1>2. \A j \in 1..(i - 1) : j \in 1..Len(feed) /\ feed'[j] = feed[j]  BY <1>0, <1>1 DEF Prefix
<1> QED  BY <1>0, <1>1, <1>2 DEF Lands

LEMMA ForwardKnown ==
  ASSUME FeedInv, EntryTyped', Forward
  PROVE  /\ OverKnown => OverKnown'
         /\ Stale => Stale'
         /\ Changed => Changed'
         /\ \A v : FeedHas(v) => FeedHas(v)'
         /\ \A v : Renews(v) => Renews(v)'
<1>0. /\ feed \in Seq(Frames) /\ Prefix /\ page' = page
      /\ \A i \in DOMAIN feed : i \in DOMAIN feed' /\ feed'[i] = feed[i]
  BY FeedIndices DEF FeedInv, FeedTyped, Forward
<1>1. OverKnown => OverKnown'
  <2>1. SUFFICES ASSUME NEW i \in DOMAIN feed, Ends(i) PROVE Ends(i)'
    BY <1>0 DEF OverKnown
  <2>2. i \in DOMAIN feed' /\ feed'[i] = feed[i]  BY <1>0
  <2>3. Lands(i) => Lands(i)'  BY <1>0, ForwardLands
  <2> QED  BY <2>1, <2>2, <2>3 DEF Ends
<1>2. Stale => Stale'
  <2>1. entry.version \in Nat /\ entry'.version \in Nat /\ page.last \in Nat
    BY DEF FeedInv, Typed, EntryTyped, PageTyped
  <2> QED  BY <1>0, <2>1 DEF Forward, Stale
<1>3. Changed => Changed'  BY <1>0 DEF Changed
<1>4. \A v : FeedHas(v) => FeedHas(v)'  BY <1>0 DEF FeedHas
<1>5. \A v : Renews(v) => Renews(v)'
  <2> TAKE v
  <2>1. ASSUME NEW i \in DOMAIN feed, feed[i].kind = "snapshot", v \in feed[i].log,
               feed[i].version > page.last
        PROVE  Renews(v)'
    BY <1>0, <2>1 DEF Renews
  <2> QED  BY <1>0, <1>2, <2>1 DEF Renews
<1> QED  BY <1>1, <1>2, <1>3, <1>4, <1>5

\* The frames that were on their way stay what they are.
LEMMA ForwardFeed ==
  ASSUME FeedInv, EntryTyped', Forward,
         \A i \in 1..Len(feed') : i > Len(feed) =>
           \E f \in Frames : f = feed'[i] /\ Reported(f)'
  PROVE  FeedTyped'
<1>0. /\ feed \in Seq(Frames) /\ Prefix /\ page' = page
      /\ DOMAIN feed = 1..Len(feed) /\ DOMAIN feed' = 1..Len(feed')
      /\ Len(feed) \in Nat /\ Len(feed') \in Nat
      /\ \A i \in DOMAIN feed : i \in DOMAIN feed' /\ feed'[i] = feed[i]
  BY FeedIndices DEF FeedInv, FeedTyped, Forward
<1>1. ASSUME NEW f, Reported(f) PROVE Reported(f)'
  <2>1. f \in Frames /\ (f.kind # "change" => f.version \in Nat)
    BY <1>1 DEF Reported, Frames, InHand, Scores, Plain, Completes, Changes, Snapshots
  <2>2. entry.version \in Nat /\ entry'.version \in Nat /\ entry.version <= entry'.version
    BY DEF FeedInv, Typed, EntryTyped, Forward
  <2>3. f.kind # "change" => f.version <= entry'.version
    BY <1>1, <2>1, <2>2 DEF Reported
  <2>4. f.kind = "snapshot" => f.log \subseteq filed' /\ page'.log \cap filed' \subseteq f.log
    BY <1>0, <1>1 DEF Reported, Forward
  <2>5. /\ f.kind = "scored" => f.verdict \in game'.told
        /\ f.kind = "complete" => Ended'
        /\ f.kind = "change" => (f.status \in Feed!Over => Ended')
        /\ f.kind = "snapshot" => (f.phase = "over" => Ended')
    BY <1>1 DEF Reported, Forward
  <2> QED  BY <2>1, <2>3, <2>4, <2>5 DEF Reported
<1>2. ASSUME NEW i \in DOMAIN feed' PROVE Reported(feed[i])'
  <2>1. CASE i \in DOMAIN feed
    <3>1. Reported(feed[i])  BY <2>1 DEF FeedInv, FeedTyped
    <3>2. PICK f : f = feed[i] /\ Reported(f)  BY <3>1
    <3>3. Reported(f)' /\ f = feed'[i]  BY <1>0, <1>1, <2>1, <3>2
    <3> QED  BY <3>3 DEF Reported
  <2>2. CASE i \notin DOMAIN feed
    <3>1. i > Len(feed)  BY <1>0, <2>2
    <3>2. PICK f \in Frames : f = feed'[i] /\ Reported(f)'  BY <1>0, <3>1
    <3> QED  BY <3>2 DEF Reported
  <2> QED  BY <2>1, <2>2
<1>3. page'.link = "closed" => feed' = <<>>
  <2> SUFFICES ASSUME page.link = "closed" PROVE feed' = <<>>  BY <1>0
  <2>1. feed = <<>>  BY DEF FeedInv, FeedTyped
  <2>2. Len(feed') = 0  BY <1>0, <2>1 DEF Prefix
  <2> QED  BY <1>0, <2>2
<1>4. \A i \in DOMAIN feed' : feed'[i].kind = "snapshot" => i = 1 /\ page'.link = "open"
  <2> SUFFICES ASSUME NEW i \in DOMAIN feed', feed'[i].kind = "snapshot"
               PROVE  i = 1 /\ page'.link = "open"
    OBVIOUS
  <2>1. i \in DOMAIN feed  BY <1>0 DEF Forward
  <2> QED  BY <1>0, <2>1 DEF FeedInv, FeedTyped
<1> QED  BY <1>0, <1>2, <1>3, <1>4 DEF FeedTyped, Prefix

LEMMA ForwardSound ==
  ASSUME FeedInv, EntryTyped', Forward PROVE PageSound'
<1>1. entry.version \in Nat /\ entry'.version \in Nat /\ page.last \in Nat
  BY DEF FeedInv, Typed, EntryTyped, PageTyped
<1>2. missed' = {} => missed = {}  BY DEF Forward
<1> QED  BY <1>1, <1>2 DEF FeedInv, PageSound, Forward

LEMMA ForwardCovered ==
  ASSUME FeedInv, EntryTyped', Forward,
         missed' \subseteq {"misled"} =>
           \A v \in game'.told \cap filed' :
             \/ v \in game.told \cap filed
                  /\ (BusHas(v) \/ HandHas(v) => BusHas(v)' \/ HandHas(v)' \/ FeedHas(v)')
             \/ BusHas(v)'
  PROVE  Covered'
<1> SUFFICES ASSUME missed' \subseteq {"misled"}, NEW v \in game'.told \cap filed'
             PROVE  v \in page'.log \/ OnTheWay(v)' \/ Renews(v)'
  BY DEF Covered
<1>1. missed \subseteq {"misled"} /\ page' = page  BY DEF Forward
<1>2. (FeedHas(v) => FeedHas(v)') /\ (Renews(v) => Renews(v)')  BY ForwardKnown
<1>3. v \in game.told \cap filed => v \in page.log \/ OnTheWay(v) \/ Renews(v)
  BY <1>1 DEF FeedInv, Covered
<1> QED  BY <1>1, <1>2, <1>3 DEF OnTheWay

LEMMA ForwardLast ==
  ASSUME FeedInv, Forward,
         missed' = {} /\ ~Ended' /\ patch'.next # "fan" =>
           \/ /\ standing' = standing /\ patch.next # "fan"
              /\ \A i \in 1..Len(feed') : i > Len(feed) => feed'[i].kind # "change"
           \/ \E i \in 1..Len(feed') : i > Len(feed) /\ i = Len(feed')
                                     /\ feed'[i].kind = "change" /\ feed'[i].status = standing'
  PROVE  LastIsRight'
<1>0. /\ feed \in Seq(Frames) /\ Prefix
      /\ DOMAIN feed = 1..Len(feed) /\ DOMAIN feed' = 1..Len(feed')
      /\ Len(feed) \in Nat /\ Len(feed') \in Nat
      /\ \A j \in DOMAIN feed : j \in DOMAIN feed' /\ feed'[j] = feed[j]
  BY FeedIndices DEF FeedInv, FeedTyped, Forward
<1> SUFFICES ASSUME missed' = {}, ~Ended', patch'.next # "fan",
                    NEW i \in 1..Len(feed'), feed'[i].kind = "change"
             PROVE  \/ feed'[i].status = standing'
                    \/ \E j \in DOMAIN feed' : j > i /\ feed'[j].kind = "change"
  BY <1>0 DEF LastIsRight
<1>1. missed = {} /\ ~Ended  BY DEF Forward
<1>2. CASE /\ standing' = standing /\ patch.next # "fan"
           /\ \A j \in 1..Len(feed') : j > Len(feed) => feed'[j].kind # "change"
  <2>0. i \in 1..Len(feed') /\ (i > Len(feed) => feed'[i].kind # "change")
    BY <1>2
  <2>a. Len(feed) \in Nat /\ Len(feed') \in Nat  BY <1>0
  <2>b. i \in Nat /\ i >= 1 /\ ~(i > Len(feed))  BY <2>a, <2>0
  <2>c. i \in 1..Len(feed)  BY <2>a, <2>b
  <2>1. i \in DOMAIN feed /\ feed'[i] = feed[i]  BY <1>0, <2>c
  <2>2. feed[i].status = standing \/ \E j \in DOMAIN feed : j > i /\ feed[j].kind = "change"
    BY <1>1, <1>2, <2>1 DEF FeedInv, LastIsRight
  <2> QED  BY <1>0, <1>2, <2>1, <2>2
<1>3. CASE \E j \in 1..Len(feed') : j > Len(feed) /\ j = Len(feed')
                                   /\ feed'[j].kind = "change" /\ feed'[j].status = standing'
  <2>1. PICK j \in 1..Len(feed') : j = Len(feed') /\ feed'[j].kind = "change"
                                  /\ feed'[j].status = standing'
    BY <1>3
  <2>a. Len(feed') \in Nat  BY <1>0
  <2>b. i \in Nat /\ i <= Len(feed')  BY <2>a
  <2>2. j > i \/ j = i  BY <2>a, <2>b, <2>1
  <2> QED  BY <1>0, <2>1, <2>2
<1> QED  BY <1>1, <1>2, <1>3

LEMMA ForwardLed ==
  ASSUME FeedInv, EntryTyped', Forward,
         missed' = {} /\ ~Stale' =>
           IF Ended' THEN (Ended /\ (OverComing => OverComing' \/ OverKnown')) \/ OverComing'
           ELSE \/ patch'.next = "fan"
                \/ standing' = standing /\ (patch.next = "fan" => Changed')
  PROVE  Led'
<1> SUFFICES ASSUME missed' = {}, ~Stale'
             PROVE  IF Ended' THEN OverKnown' \/ OverComing' ELSE LiveKnown'
  BY DEF Led
<1>1. missed = {} /\ page' = page /\ (Ended => Ended')  BY DEF Forward
<1>2. (OverKnown => OverKnown') /\ ~Stale /\ (Changed => Changed')  BY ForwardKnown
<1>3. CASE Ended'
  <2>1. Ended => OverKnown \/ OverComing  BY <1>1, <1>2 DEF FeedInv, Led
  <2> QED  BY <1>2, <1>3, <2>1
<1>4. CASE ~Ended' /\ patch'.next # "fan"
  <2>1. LiveKnown /\ standing' = standing  BY <1>1, <1>2, <1>4 DEF FeedInv, Led
  <2>2. CASE patch.next = "fan" \/ Changed
    BY <1>2, <1>4, <2>2 DEF LiveKnown
  <2>3. CASE ~(patch.next = "fan" \/ Changed) /\ ~Changed'
    <3>0. /\ feed \in Seq(Frames) /\ Prefix
          /\ DOMAIN feed = 1..Len(feed) /\ DOMAIN feed' = 1..Len(feed')
          /\ \A j \in DOMAIN feed : j \in DOMAIN feed' /\ feed'[j] = feed[j]
          /\ Len(feed) \in Nat /\ Len(feed') \in Nat
      BY FeedIndices DEF FeedInv, FeedTyped, Forward
    <3>1. \A i \in DOMAIN feed' : feed'[i].kind = "snapshot" => i \in DOMAIN feed /\ feed'[i] = feed[i]
      BY <3>0 DEF Forward
    <3>2. /\ \A i \in DOMAIN feed : feed[i].kind = "snapshot" /\ feed[i].version > page.last =>
                                      Feed!Phase(feed[i].phase) = Feed!Shown(standing)
          /\ Renewed \/ page.phase = Feed!Shown(standing)
      BY <2>1, <2>3 DEF LiveKnown
    <3>3. /\ \A to : Feed!Phase(to)' = Feed!Phase(to)
          /\ Feed!Shown(standing)' = Feed!Shown(standing)
      BY <1>1, <2>1 DEF Feed!Phase, Feed!Shown
    <3>4. \A i \in DOMAIN feed' : feed'[i].kind = "snapshot" /\ feed'[i].version > page'.last =>
                                   Feed!Phase(feed[i].phase)' = Feed!Shown(standing)'
      <4> SUFFICES ASSUME NEW i \in DOMAIN feed', feed'[i].kind = "snapshot",
                          feed'[i].version > page'.last
                   PROVE  Feed!Phase(feed[i].phase)' = Feed!Shown(standing)'
        OBVIOUS
      <4>1. i \in DOMAIN feed /\ feed'[i] = feed[i]  BY <3>1
      <4>2. Feed!Phase(feed[i].phase) = Feed!Shown(standing)  BY <1>1, <3>2, <4>1
      <4> QED  BY <1>1, <2>1, <4>1, <4>2 DEF Feed!Phase, Feed!Shown
    <3>5. Renewed => Renewed'  BY <1>1, <3>0 DEF Renewed
    <3> QED  BY <1>1, <1>4, <2>3, <3>2, <3>3, <3>4, <3>5 DEF LiveKnown
  <2> QED  BY <1>4, <2>2, <2>3 DEF LiveKnown
<1>5. CASE ~Ended' /\ patch'.next = "fan"  BY <1>5 DEF LiveKnown
<1> QED  BY <1>3, <1>4, <1>5

LEMMA ForwardCache ==
  ASSUME FeedInv, EntryTyped', Forward,
         missed' = {} /\ entry'.there /\ entry'.phase \in Feed!Over =>
           (entry.there /\ entry.phase \in Feed!Over) \/ OverKnown' \/ Stale'
  PROVE  CacheTold'
<1>1. missed' = {} => missed = {}  BY DEF Forward
<1>2. (OverKnown => OverKnown') /\ (Stale => Stale')  BY ForwardKnown
<1> QED  BY <1>1, <1>2 DEF FeedInv, CacheTold

LEMMA FeedStays ==
  ASSUME FeedInv, UNCHANGED feed
  PROVE  Prefix /\ \A i \in 1..Len(feed') : ~(i > Len(feed))
<1>1. feed \in Seq(Frames) /\ Len(feed) \in Nat  BY DEF FeedInv, FeedTyped
<1> QED  BY <1>1 DEF Prefix

-----------------------------------------------------------------------------
(* The bus *)

LEMMA BusStays ==
  ASSUME FeedInv, UNCHANGED bus, game.told \subseteq game'.told, Ended => Ended'
  PROVE  BusTyped' /\ (BusEnds <=> BusEnds') /\ \A v : BusHas(v) <=> BusHas(v)'
<1>1. \A e : Announced(e) => Announced(e)'  BY DEF Announced
<1>2. bus \in Seq(Events) /\ \A i \in DOMAIN bus : Announced(bus[i])
  BY DEF FeedInv, BusTyped
<1>3. \A i \in DOMAIN bus : Announced(bus[i])'
  <2> TAKE i \in DOMAIN bus
  <2>1. PICK e : e = bus[i] /\ Announced(e)  BY <1>2
  <2> QED  BY <1>1, <2>1 DEF Announced
<1> QED  BY <1>2, <1>3 DEF BusTyped, BusEnds, BusHas

LEMMA Published ==
  ASSUME FeedInv, NEW e \in Events, Feed!Publish(e),
         game.told \subseteq game'.told, Ended => Ended',
         e.kind = "scored" => e.verdict \in game'.told, e.kind = "status" => Ended'
  PROVE  /\ BusTyped' /\ (BusEnds => BusEnds') /\ \A v : BusHas(v) => BusHas(v)'
         /\ e.kind = "status" => BusEnds'
         /\ e.kind = "scored" => BusHas(e.verdict)'
<1>0. bus \in Seq(Events) /\ \A i \in DOMAIN bus : Announced(bus[i])
  BY DEF FeedInv, BusTyped
<1>1. bus' = Append(bus, e)  BY DEF Feed!Publish
<1>2. /\ bus' \in Seq(Events) /\ Len(bus) + 1 \in DOMAIN bus' /\ bus'[Len(bus) + 1] = e
      /\ \A i \in DOMAIN bus : i \in DOMAIN bus' /\ bus'[i] = bus[i]
      /\ \A i \in DOMAIN bus' : i \in DOMAIN bus \/ bus'[i] = e
  BY <1>0, <1>1, AppendTo
<1>3. \A i \in DOMAIN bus' : Announced(bus[i])'
  <2> TAKE i \in DOMAIN bus'
  <2>1. PICK f : f = bus'[i]  OBVIOUS
  <2>2. (i \in DOMAIN bus /\ f = bus[i] /\ Announced(f)) \/ f = e  BY <1>0, <1>2, <2>1
  <2>3. /\ f \in Events
        /\ f.kind = "scored" => f.verdict \in game'.told
        /\ f.kind = "status" => Ended'
    BY <2>2 DEF Announced
  <2> QED  BY <2>1, <2>3 DEF Announced
<1>4. BusTyped'  BY <1>2, <1>3 DEF BusTyped
<1> QED  BY <1>2, <1>4 DEF BusEnds, BusHas

\* Lost or routed.
LEMMA FirstGone ==
  ASSUME FeedInv, bus # <<>>, bus' = Tail(bus), game.told \subseteq game'.told, Ended => Ended'
  PROVE  /\ BusTyped' /\ Head(bus) = bus[1] /\ Announced(bus[1])
         /\ BusEnds => BusEnds' \/ bus[1].kind = "status"
         /\ \A v : BusHas(v) => BusHas(v)' \/ (bus[1].kind = "scored" /\ bus[1].verdict = v)
<1>0. bus \in Seq(Events) /\ \A i \in DOMAIN bus : Announced(bus[i])
  BY DEF FeedInv, BusTyped
<1>1. /\ bus' \in Seq(Events) /\ Head(bus) = bus[1] /\ 1 \in DOMAIN bus
      /\ \A i \in DOMAIN bus' : i + 1 \in DOMAIN bus /\ bus'[i] = bus[i + 1]
      /\ \A i \in DOMAIN bus : i = 1 \/ (i - 1 \in DOMAIN bus' /\ bus'[i - 1] = bus[i])
  BY <1>0, TailOf
<1>2. \A i \in DOMAIN bus' : Announced(bus[i])'
  <2> TAKE i \in DOMAIN bus'
  <2>1. PICK f : f = bus'[i] /\ Announced(f)  BY <1>0, <1>1
  <2> QED  BY <2>1 DEF Announced
<1>3. BusTyped'  BY <1>1, <1>2 DEF BusTyped
<1>4. Announced(bus[1])  BY <1>0, <1>1
<1>5. BusEnds => BusEnds' \/ bus[1].kind = "status"
  <2> SUFFICES ASSUME NEW i \in DOMAIN bus, bus[i].kind = "status", i # 1 PROVE BusEnds'
    BY DEF BusEnds
  <2>1. i - 1 \in DOMAIN bus' /\ bus'[i - 1] = bus[i]  BY <1>1
  <2> QED  BY <2>1 DEF BusEnds
<1>6. \A v : BusHas(v) => BusHas(v)' \/ (bus[1].kind = "scored" /\ bus[1].verdict = v)
  <2> SUFFICES ASSUME NEW v, NEW i \in DOMAIN bus, bus[i].kind = "scored", bus[i].verdict = v,
                      i # 1
               PROVE  BusHas(v)'
    BY DEF BusHas
  <2>1. i - 1 \in DOMAIN bus' /\ bus'[i - 1] = bus[i]  BY <1>1
  <2> QED  BY <2>1 DEF BusHas
<1> QED  BY <1>1, <1>3, <1>4, <1>5, <1>6

-----------------------------------------------------------------------------
(* The game server's steps *)

LEMMA GameStep ==
  ASSUME FeedInv, UNCHANGED <<entry, hand, owes, patch, web, page, feed>>,
         Typed', BusTyped', missed \subseteq missed',
         filed \subseteq filed', game.told \subseteq game'.told,
         (filed' \ filed) \cap page.log = {}, game'.told \subseteq filed' \cup OfSession,
         Ended => Ended', game'.sweeping => Ended', ~Ended' => standing' = standing,
         missed' \subseteq {"misled"} =>
           \A v : /\ v \in game'.told \cap filed' => v \in game.told \cap filed \/ BusHas(v)'
                  /\ BusHas(v) => BusHas(v)',
         missed' = {} => /\ Ended' => Ended \/ game'.sweeping \/ BusEnds'
                         /\ game.sweeping \/ BusEnds => game'.sweeping \/ BusEnds'
  PROVE  FeedInv'
<1>1. Prefix /\ \A i \in 1..Len(feed') : ~(i > Len(feed))  BY FeedStays
<1>2. EntryTyped' /\ entry.version <= entry'.version
  BY DEF FeedInv, Typed, EntryTyped
<1>3. Forward  BY <1>1, <1>2 DEF Forward
<1>4. FeedTyped'  BY <1>1, <1>2, <1>3, ForwardFeed
<1>5. PageSound'  BY <1>2, <1>3, ForwardSound
<1>6. Certain'  BY DEF FeedInv, Certain
<1>7. HandTyped'
  <2>1. \A f : Carried(f) => Carried(f)'  BY DEF Carried
  <2>2. ASSUME NEW a \in Feed!Senders, NEW i \in DOMAIN hand[a] PROVE Carried(hand[a][i])'
    <3>1. PICK f : f = hand[a][i] /\ Carried(f)  BY DEF FeedInv, HandTyped
    <3> QED  BY <2>1, <3>1 DEF Carried
  <2>3. hand["route"] # <<>> => entry.there  BY DEF FeedInv, HandTyped
  <2> QED  BY <2>2, <2>3 DEF HandTyped
<1>8. Covered'
  <2>1. \A v : HandHas(v) => HandHas(v)'  BY DEF HandHas
  <2> QED  BY <1>2, <1>3, <2>1, ForwardCovered
<1>9. LastIsRight'  BY <1>1, <1>3, ForwardLast
<1>10. Led'
  <2>1. patch'.next = patch.next /\ (OverComing' <=> \/ patch.next = "fan" /\ patch.to \in Feed!Over
                                                     \/ web = "telling" \/ game'.sweeping
                                                     \/ BusEnds')
    BY DEF OverComing
  <2> QED  BY <1>2, <1>3, <2>1, ForwardLed DEF OverComing
<1>11. CacheTold'  BY <1>2, <1>3, ForwardCache
<1> QED  BY <1>4, <1>5, <1>6, <1>7, <1>8, <1>9, <1>10, <1>11 DEF FeedInv

LEMMA GameTypes ==
  ASSUME FeedInv, UNCHANGED <<entry, hand, owes, patch, web, page>>,
         standing' \in Feed!Statuses, filed' \subseteq Verdicts \ OfSession, GameTyped',
         missed' \subseteq missed \cup {"lost"}, watching' \in BOOLEAN, stir' \in 0..MaxStir
  PROVE  Typed'
BY DEF FeedInv, Typed, EntryTyped, PageTyped

LEMMA Stirred == ASSUME FeedInv, Feed!Stir \/ UNCHANGED stir PROVE stir' \in 0..MaxStir
<1>1. MaxStir \in Nat /\ stir \in 0..MaxStir
  BY PagesAssumption DEF Feed!FeedAssumption, FeedInv, Typed
<1> QED  BY <1>1 DEF Feed!Stir

LEMMA FileStep == ASSUME FeedInv, NEW v \in Verdicts, Feed!File(v) PROVE FeedInv'
<1>1. /\ v \notin OfSession /\ v \notin filed /\ filed' = filed \cup {v}
      /\ UNCHANGED <<standing, game, bus, entry, hand, owes, patch, web, page, feed, missed,
                     stir, watching>>
  BY DEF Feed!File, Feed!gameOnly, Feed!server
<1>2. Typed'  BY <1>1, GameTypes DEF FeedInv, Typed, GameTyped
<1>3. Ended' = Ended  BY <1>1 DEF Ended
<1>4. BusTyped' /\ (BusEnds <=> BusEnds') /\ \A w : BusHas(w) <=> BusHas(w)'
  BY <1>1, <1>3, BusStays
<1>5. /\ game.told \subseteq filed \cup OfSession /\ page.log \subseteq filed \cup OfSession
      /\ game.sweeping => Ended
  BY DEF FeedInv, Certain, PageSound
<1>6. (filed' \ filed) \cap page.log = {} /\ game.told \cap filed' = game.told \cap filed
  BY <1>1, <1>5
<1> QED  BY <1>1, <1>2, <1>3, <1>4, <1>5, <1>6, GameStep

LEMMA AnnounceStep == ASSUME FeedInv, NEW v \in Verdicts, Feed!Announce(v) PROVE FeedInv'
<1> DEFINE e == [kind |-> "scored", verdict |-> v]
<1>1. /\ v \in filed \cup OfSession /\ Feed!Publish(e)
      /\ game' = [game EXCEPT !.told = game.told \cup {v}]
      /\ UNCHANGED <<standing, filed, entry, hand, owes, patch, web, page, feed, missed,
                     stir, watching>>
  BY DEF Feed!Announce, Feed!gameOnly, Feed!server
<1>2. GameTyped /\ game.told \in SUBSET Verdicts  BY DEF FeedInv, Typed, GameTyped
<1>3. /\ game'.told = game.told \cup {v} /\ game'.ending = game.ending
      /\ game'.sweeping = game.sweeping /\ GameTyped'
  BY <1>1, <1>2 DEF GameTyped
<1>4. Typed'  BY <1>1, <1>3, GameTypes DEF FeedInv, Typed
<1>5. Ended' = Ended  BY <1>1, <1>3 DEF Ended
<1>6. e \in Events /\ e.kind = "scored" /\ e.verdict = v  BY DEF Events
<1> HIDE DEF e
<1>7. /\ BusTyped' /\ (BusEnds => BusEnds') /\ \A w : BusHas(w) => BusHas(w)'
      /\ BusHas(v)'
  BY <1>1, <1>3, <1>5, <1>6, Published
<1>8. game.told \subseteq filed \cup OfSession /\ (game.sweeping => Ended)
  BY DEF FeedInv, Certain
<1> QED  BY <1>1, <1>3, <1>4, <1>5, <1>7, <1>8, GameStep

LEMMA TickReadsStep == ASSUME FeedInv, Feed!TickReads PROVE FeedInv'
<1>1. /\ standing \notin Feed!Over /\ Feed!Stir /\ game' = [game EXCEPT !.tick = standing]
      /\ UNCHANGED <<standing, filed, bus, entry, hand, owes, patch, web, page, feed, missed,
                     watching>>
  BY DEF Feed!TickReads, Feed!server
<1>2. GameTyped /\ standing \in {"running", "paused"}
  BY <1>1 DEF FeedInv, Typed, Feed!Statuses, Feed!Over
<1>3. /\ game'.told = game.told /\ game'.ending = game.ending
      /\ game'.sweeping = game.sweeping /\ GameTyped'
  BY <1>1, <1>2 DEF GameTyped
<1>4. Typed'  BY <1>1, <1>3, GameTypes, Stirred DEF FeedInv, Typed
<1>5. Ended' = Ended  BY <1>1, <1>3 DEF Ended
<1>6. BusTyped' /\ (BusEnds <=> BusEnds') /\ \A w : BusHas(w) <=> BusHas(w)'
  BY <1>1, <1>3, <1>5, BusStays
<1>7. game.told \subseteq filed \cup OfSession /\ (game.sweeping => Ended)
  BY DEF FeedInv, Certain
<1> QED  BY <1>1, <1>3, <1>4, <1>5, <1>6, <1>7, GameStep

LEMMA TickTellsStep == ASSUME FeedInv, Feed!TickTells PROVE FeedInv'
<1> DEFINE e == [kind |-> "timer", status |-> game.tick]
<1>1. /\ game.tick # "none" /\ Feed!Publish(e) /\ game' = [game EXCEPT !.tick = "none"]
      /\ UNCHANGED <<standing, filed, entry, hand, owes, patch, web, page, feed, missed,
                     stir, watching>>
  BY DEF Feed!TickTells, Feed!gameOnly, Feed!server
<1>2. GameTyped /\ game.tick \in {"running", "paused"}
  BY <1>1 DEF FeedInv, Typed, GameTyped
<1>3. /\ game'.told = game.told /\ game'.ending = game.ending
      /\ game'.sweeping = game.sweeping /\ GameTyped'
  BY <1>1, <1>2 DEF GameTyped
<1>4. Typed'  BY <1>1, <1>3, GameTypes DEF FeedInv, Typed
<1>5. Ended' = Ended  BY <1>1, <1>3 DEF Ended
<1>6. e \in Events /\ e.kind = "timer"  BY <1>2 DEF Events
<1> HIDE DEF e
<1>7. BusTyped' /\ (BusEnds => BusEnds') /\ \A w : BusHas(w) => BusHas(w)'
  BY <1>1, <1>3, <1>5, <1>6, Published
<1>8. game.told \subseteq filed \cup OfSession /\ (game.sweeping => Ended)
  BY DEF FeedInv, Certain
<1> QED  BY <1>1, <1>3, <1>4, <1>5, <1>7, <1>8, GameStep

LEMMA FinishStep == ASSUME FeedInv, Feed!Finish PROVE FeedInv'
<1> DEFINE e == [kind |-> "status", status |-> "finished"]
<1>1. /\ Feed!Publish(e) /\ game' = [game EXCEPT !.ending = TRUE]
      /\ UNCHANGED <<standing, filed, entry, hand, owes, patch, web, page, feed, missed,
                     stir, watching>>
  BY DEF Feed!Finish, Feed!gameOnly, Feed!server
<1>2. GameTyped  BY DEF FeedInv, Typed
<1>3. /\ game'.told = game.told /\ game'.ending /\ game'.sweeping = game.sweeping /\ GameTyped'
  BY <1>1, <1>2 DEF GameTyped
<1>4. Typed'  BY <1>1, <1>3, GameTypes DEF FeedInv, Typed
<1>5. Ended'  BY <1>3 DEF Ended
<1>6. e \in Events /\ e.kind = "status"  BY DEF Events, Feed!Over
<1> HIDE DEF e
<1>7. BusTyped' /\ BusEnds' /\ \A w : BusHas(w) => BusHas(w)'
  BY <1>1, <1>3, <1>5, <1>6, Published
<1>8. game.told \subseteq filed \cup OfSession  BY DEF FeedInv, Certain
<1> QED  BY <1>1, <1>3, <1>4, <1>5, <1>7, <1>8, GameStep

LEMMA FinishWritesStep == ASSUME FeedInv, Feed!FinishWrites PROVE FeedInv'
<1>1. /\ game.ending
      /\ game' = [game EXCEPT !.ending = FALSE, !.chain = standing \notin Feed!Over]
      /\ standing' = IF standing \in Feed!Over THEN standing ELSE "finished"
      /\ UNCHANGED <<filed, bus, entry, hand, owes, patch, web, page, feed, missed,
                     stir, watching>>
  BY DEF Feed!FinishWrites, Feed!gameOnly, Feed!server
<1>2. GameTyped  BY DEF FeedInv, Typed
<1>3. /\ game'.told = game.told /\ game'.sweeping = game.sweeping /\ GameTyped'
  BY <1>1, <1>2 DEF GameTyped
<1>a. standing' \in Feed!Over /\ standing' \in Feed!Statuses
  BY <1>1 DEF Feed!Over, Feed!Statuses
<1>4. Typed'  BY <1>1, <1>3, <1>a, GameTypes DEF FeedInv, Typed
<1>5. Ended /\ Ended'  BY <1>1, <1>a DEF Ended
<1>6. BusTyped' /\ (BusEnds <=> BusEnds') /\ \A w : BusHas(w) <=> BusHas(w)'
  BY <1>1, <1>3, <1>5, BusStays
<1>7. game.told \subseteq filed \cup OfSession  BY DEF FeedInv, Certain
<1> QED  BY <1>1, <1>3, <1>4, <1>5, <1>6, <1>7, GameStep

LEMMA SweepStep == ASSUME FeedInv, Feed!Sweep PROVE FeedInv'
<1>1. /\ standing' = "cancelled" /\ game' = [game EXCEPT !.sweeping = TRUE]
      /\ UNCHANGED <<filed, bus, entry, hand, owes, patch, web, page, feed, missed,
                     stir, watching>>
  BY DEF Feed!Sweep, Feed!gameOnly, Feed!server
<1>2. GameTyped  BY DEF FeedInv, Typed
<1>3. /\ game'.told = game.told /\ game'.sweeping /\ GameTyped'
  BY <1>1, <1>2 DEF GameTyped
<1>a. standing' \in Feed!Over /\ standing' \in Feed!Statuses
  BY <1>1 DEF Feed!Over, Feed!Statuses
<1>4. Typed'  BY <1>1, <1>3, <1>a, GameTypes DEF FeedInv, Typed
<1>5. Ended'  BY <1>a DEF Ended
<1>6. BusTyped' /\ (BusEnds <=> BusEnds') /\ \A w : BusHas(w) <=> BusHas(w)'
  BY <1>1, <1>3, <1>5, BusStays
<1>7. game.told \subseteq filed \cup OfSession  BY DEF FeedInv, Certain
<1> QED  BY <1>1, <1>3, <1>4, <1>5, <1>6, <1>7, GameStep

LEMMA SweepTellsStep == ASSUME FeedInv, Feed!SweepTells PROVE FeedInv'
<1> DEFINE e == [kind |-> "status", status |-> "cancelled"]
<1>1. /\ game.sweeping /\ Feed!Publish(e) /\ game' = [game EXCEPT !.sweeping = FALSE]
      /\ UNCHANGED <<standing, filed, entry, hand, owes, patch, web, page, feed, missed,
                     stir, watching>>
  BY DEF Feed!SweepTells, Feed!gameOnly, Feed!server
<1>2. GameTyped  BY DEF FeedInv, Typed
<1>3. /\ game'.told = game.told /\ game'.ending = game.ending /\ ~game'.sweeping /\ GameTyped'
  BY <1>1, <1>2 DEF GameTyped
<1>4. Typed'  BY <1>1, <1>3, GameTypes DEF FeedInv, Typed
<1>8. game.told \subseteq filed \cup OfSession /\ Ended  BY <1>1 DEF FeedInv, Certain
<1>5. Ended'  BY <1>1, <1>3, <1>8 DEF Ended
<1>6. e \in Events /\ e.kind = "status"  BY DEF Events, Feed!Over
<1> HIDE DEF e
<1>7. BusTyped' /\ BusEnds' /\ \A w : BusHas(w) => BusHas(w)'
  BY <1>1, <1>3, <1>5, <1>6, Published
<1> QED  BY <1>1, <1>3, <1>4, <1>5, <1>7, <1>8, GameStep

LEMMA SettleStep == ASSUME FeedInv, Feed!Settle PROVE FeedInv'
<1> DEFINE e == [kind |-> "settled"]
<1>1. /\ Feed!Publish(e) /\ game' = [game EXCEPT !.settled = TRUE]
      /\ watching' = (page.link = "open")
      /\ UNCHANGED <<standing, filed, entry, hand, owes, patch, web, page, feed, missed, stir>>
  BY DEF Feed!Settle, Feed!gameOnly, Feed!server
<1>2. GameTyped  BY DEF FeedInv, Typed
<1>3. /\ game'.told = game.told /\ game'.ending = game.ending
      /\ game'.sweeping = game.sweeping /\ GameTyped'
  BY <1>1, <1>2 DEF GameTyped
<1>a. watching' \in BOOLEAN  BY <1>1
<1>4. Typed'  BY <1>1, <1>3, <1>a, GameTypes DEF FeedInv, Typed
<1>5. Ended' = Ended  BY <1>1, <1>3 DEF Ended
<1>6. e \in Events /\ e.kind = "settled"  BY DEF Events
<1> HIDE DEF e
<1>7. BusTyped' /\ (BusEnds => BusEnds') /\ \A w : BusHas(w) => BusHas(w)'
  BY <1>1, <1>3, <1>5, <1>6, Published
<1>8. game.told \subseteq filed \cup OfSession /\ (game.sweeping => Ended)
  BY DEF FeedInv, Certain
<1> QED  BY <1>1, <1>3, <1>4, <1>5, <1>7, <1>8, GameStep

LEMMA LoseStep == ASSUME FeedInv, Feed!Lose PROVE FeedInv'
<1>1. /\ bus # <<>> /\ bus' = Tail(bus) /\ missed' = missed \cup {"lost"} /\ Feed!Stir
      /\ UNCHANGED <<standing, filed, game, entry, hand, owes, patch, web, page, feed, watching>>
  BY DEF Feed!Lose, Feed!Miss, Feed!server
<1>2. GameTyped'  BY <1>1 DEF FeedInv, Typed, GameTyped
<1>3. Typed'  BY <1>1, <1>2, GameTypes, Stirred DEF FeedInv, Typed
<1>4. Ended' = Ended  BY <1>1 DEF Ended
<1>5. BusTyped'  BY <1>1, <1>4, FirstGone
<1>6. ~(missed' \subseteq {"misled"}) /\ missed' # {}  BY <1>1
<1>7. game.told \subseteq filed \cup OfSession /\ (game.sweeping => Ended)
  BY DEF FeedInv, Certain
<1> QED  BY <1>1, <1>3, <1>4, <1>5, <1>6, <1>7, GameStep

-----------------------------------------------------------------------------
(* What the main server has in hand, and what it sends *)

LEMMA HandStays ==
  ASSUME FeedInv, UNCHANGED <<hand, game>>, EntryTyped', entry.version <= entry'.version,
         hand["route"] # <<>> => entry'.there
  PROVE  HandTyped' /\ \A v : HandHas(v) <=> HandHas(v)'
<1>1. \A f : Carried(f) => f.version \in Nat /\ f \in InHand
  BY DEF Carried, InHand, Scores, Plain
<1>2. \A f : Carried(f) => Carried(f)'  BY <1>1 DEF Carried, EntryTyped, FeedInv, Typed
<1>3. ASSUME NEW a \in Feed!Senders, NEW i \in DOMAIN hand[a] PROVE Carried(hand[a][i])'
  <2>1. PICK f : f = hand[a][i] /\ Carried(f)  BY DEF FeedInv, HandTyped
  <2> QED  BY <1>2, <2>1 DEF Carried
<1> QED  BY <1>3 DEF HandTyped, HandHas

LEMMA HandPut ==
  ASSUME FeedInv, UNCHANGED game, EntryTyped', entry.version <= entry'.version,
         NEW a \in Feed!Senders, NEW f \in InHand, f.version = entry'.version,
         f.kind = "scored" => f.verdict \in game.told,
         hand[a] = <<>>, hand' = [hand EXCEPT ![a] = <<f>>],
         entry.there, entry'.there
  PROVE  /\ HandTyped' /\ hand' \in [Feed!Senders -> Seq(InHand)]
         /\ \A b \in Feed!Senders : Len(hand'[b]) <= 1
         /\ \A v : HandHas(v) => HandHas(v)'
         /\ a = "route" /\ f.kind = "scored" => HandHas(f.verdict)'
<1>0. /\ hand \in [Feed!Senders -> Seq(InHand)] /\ \A b \in Feed!Senders : Len(hand[b]) <= 1
      /\ \A b \in Feed!Senders : \A i \in DOMAIN hand[b] : Carried(hand[b][i])
      /\ entry'.version \in Nat /\ entry.version \in Nat
  BY DEF FeedInv, Typed, EntryTyped, HandTyped
<1>a. <<f>> \in Seq(InHand) /\ Len(<<f>>) = 1 /\ <<f>>[1] = f  OBVIOUS
<1>b. PICK t \in Seq(InHand) : t = <<f>> /\ Len(t) = 1 /\ t[1] = f  BY <1>a, Zenon
<1>1. t \in Seq(InHand) /\ t = <<f>> /\ Len(t) = 1 /\ DOMAIN t = {1} /\ t[1] = f
  BY <1>b
<1>2. /\ hand' \in [Feed!Senders -> Seq(InHand)] /\ hand'[a] = t
      /\ \A b \in Feed!Senders : b # a => hand'[b] = hand[b]
  BY <1>0, <1>1
<1>3. \A b \in Feed!Senders : Len(hand'[b]) <= 1  BY <1>0, <1>1, <1>2
<1>4. \A g : Carried(g) => g.version \in Nat /\ g \in InHand
  BY DEF Carried, InHand, Scores, Plain
<1>5. \A g : Carried(g) => Carried(g)'  BY <1>0, <1>4 DEF Carried
<1>6. Carried(f)'  BY <1>0 DEF Carried
<1>7. ASSUME NEW b \in Feed!Senders, NEW i \in DOMAIN hand'[b] PROVE Carried(hand[b][i])'
  <2>1. PICK g : g = hand'[b][i]  OBVIOUS
  <2>2. Carried(g)'
    <3>1. CASE b = a
      <4>1. g = f  BY <1>1, <1>2, <2>1, <3>1
      <4> QED  BY <1>6, <4>1
    <3>2. CASE b # a
      <4>1. i \in DOMAIN hand[b] /\ g = hand[b][i]  BY <1>2, <2>1, <3>2
      <4>2. Carried(g)  BY <1>0, <4>1
      <4> QED  BY <1>5, <4>2
    <3> QED  BY <3>1, <3>2
  <2> QED  BY <2>1, <2>2 DEF Carried
<1>8. HandTyped'  BY <1>7 DEF HandTyped
<1>9. \A v : HandHas(v) => HandHas(v)'
  <2> SUFFICES ASSUME NEW v, HandHas(v) PROVE HandHas(v)'  OBVIOUS
  <2>1. hand["route"] # <<>>  BY DEF HandHas
  <2>2. hand'["route"] = hand["route"]  BY <1>2, <2>1 DEF Feed!Senders
  <2> QED  BY <2>2 DEF HandHas
<1>10. a = "route" /\ f.kind = "scored" => HandHas(f.verdict)'  BY <1>1, <1>2 DEF HandHas
<1> QED  BY <1>2, <1>3, <1>8, <1>9, <1>10

LEMMA HandSent ==
  ASSUME FeedInv, UNCHANGED <<game, entry>>, NEW a \in Feed!Senders,
         hand' = [hand EXCEPT ![a] = <<>>]
  PROVE  /\ HandTyped' /\ hand' \in [Feed!Senders -> Seq(InHand)]
         /\ \A b \in Feed!Senders : Len(hand'[b]) <= 1
<1>0. /\ hand \in [Feed!Senders -> Seq(InHand)] /\ \A b \in Feed!Senders : Len(hand[b]) <= 1
      /\ \A b \in Feed!Senders : \A i \in DOMAIN hand[b] : Carried(hand[b][i])
      /\ hand["route"] # <<>> => entry.there
  BY DEF FeedInv, Typed, HandTyped
<1>a. <<>> \in Seq(InHand) /\ Len(<<>>) = 0  OBVIOUS
<1>b. PICK t \in Seq(InHand) : t = <<>> /\ Len(t) = 0  BY <1>a, Zenon
<1>1. t \in Seq(InHand) /\ t = <<>> /\ Len(t) = 0 /\ DOMAIN t = {}  BY <1>b
<1>2. /\ hand' \in [Feed!Senders -> Seq(InHand)] /\ hand'[a] = t
      /\ \A b \in Feed!Senders : b # a => hand'[b] = hand[b]
  BY <1>0, <1>1
<1>3. \A b \in Feed!Senders : Len(hand'[b]) <= 1  BY <1>0, <1>1, <1>2
<1>5. \A g : Carried(g) => Carried(g)'  BY DEF Carried
<1>7. ASSUME NEW b \in Feed!Senders, NEW i \in DOMAIN hand'[b] PROVE Carried(hand[b][i])'
  <2>1. PICK g : g = hand'[b][i]  OBVIOUS
  <2>2. i \in DOMAIN hand[b] /\ g = hand[b][i]  BY <1>1, <1>2, <2>1
  <2>3. Carried(g)'  BY <1>0, <1>5, <2>2
  <2> QED  BY <2>1, <2>3 DEF Carried
<1>8. hand'["route"] # <<>> => entry'.there  BY <1>0, <1>1, <1>2 DEF Feed!Senders
<1> QED  BY <1>2, <1>3, <1>7, <1>8 DEF HandTyped

LEMMA CastPuts ==
  ASSUME FeedInv, NEW fs \in Seq(Frames), Feed!Cast(fs)
  PROVE  /\ Prefix /\ missed \subseteq missed' /\ missed' \subseteq missed \cup {"cut"}
         /\ \A i \in 1..Len(feed') : i > Len(feed) =>
              i - Len(feed) \in DOMAIN fs /\ feed'[i] = fs[i - Len(feed)]
         /\ \/ /\ page.link # "closed" /\ Len(feed') = Len(feed) + Len(fs)
               /\ \A j \in DOMAIN fs : /\ Len(feed) + j \in DOMAIN feed'
                                       /\ feed'[Len(feed) + j] = fs[j]
            \/ /\ page.link = "closed" /\ feed' = feed
               /\ \A j \in DOMAIN fs : fs[j].kind \in {"scored", "change"} => "cut" \in missed'
<1>0. feed \in Seq(Frames) /\ Len(feed) \in Nat /\ DOMAIN fs = 1..Len(fs) /\ Len(fs) \in Nat
  BY DEF FeedInv, FeedTyped
<1>1. CASE page.link # "closed"
  <2>1. feed' = feed \o fs /\ missed' = missed  BY <1>1 DEF Feed!Cast, Feed!Linked
  <2>2. /\ feed' \in Seq(Frames) /\ Len(feed') = Len(feed) + Len(fs)
        /\ \A i \in 1..Len(feed) : feed'[i] = feed[i]
        /\ \A i \in 1..Len(fs) : feed'[Len(feed) + i] = fs[i]
    BY <1>0, <2>1, Joined
  <2>3. Prefix  BY <1>0, <1>1, <2>2 DEF Prefix
  <2>4. ASSUME NEW i \in 1..Len(feed'), i > Len(feed)
        PROVE  i - Len(feed) \in DOMAIN fs /\ feed'[i] = fs[i - Len(feed)]
    <3>1. i - Len(feed) \in 1..Len(fs) /\ Len(feed) + (i - Len(feed)) = i
      BY <1>0, <2>2, <2>4
    <3> QED  BY <1>0, <2>2, <3>1
  <2>5. \A j \in DOMAIN fs : Len(feed) + j \in DOMAIN feed' /\ feed'[Len(feed) + j] = fs[j]
    <3> TAKE j \in DOMAIN fs
    <3>1. Len(feed) + j \in 1..Len(feed') /\ j \in 1..Len(fs)  BY <1>0, <2>2
    <3> QED  BY <2>2, <3>1
  <2> QED  BY <1>1, <2>1, <2>2, <2>3, <2>4, <2>5
<1>2. CASE page.link = "closed"
  <2>1. feed' = feed /\ Feed!Cut(fs)  BY <1>2 DEF Feed!Cast, Feed!Linked
  <2>2. Prefix /\ \A i \in 1..Len(feed') : ~(i > Len(feed))  BY <2>1, FeedStays
  <2>3. missed \subseteq missed' /\ missed' \subseteq missed \cup {"cut"}
    BY <2>1 DEF Feed!Cut, Feed!Miss
  <2>4. \A j \in DOMAIN fs : fs[j].kind \in {"scored", "change"} => "cut" \in missed'
    BY <2>1 DEF Feed!Cut, Feed!Miss, Feed!IsEvent
  <2> QED  BY <1>2, <2>1, <2>2, <2>3, <2>4
<1> QED  BY <1>1, <1>2

-----------------------------------------------------------------------------
(* The main server's steps *)

LEMMA ServerStep ==
  ASSUME FeedInv, UNCHANGED <<filed, game, page>>,
         Typed', BusTyped', HandTyped', Certain', Prefix, missed \subseteq missed',
         entry.version <= entry'.version, Ended => Ended',
         \A i \in 1..Len(feed') : i > Len(feed) =>
           /\ feed'[i].kind # "snapshot" /\ \E f \in Frames : f = feed'[i] /\ Reported(f)',
         missed' \subseteq {"misled"} =>
           \A v : BusHas(v) \/ HandHas(v) => BusHas(v)' \/ HandHas(v)' \/ FeedHas(v)',
         missed' = {} /\ ~Ended' /\ patch'.next # "fan" =>
           \/ /\ standing' = standing /\ patch.next # "fan"
              /\ \A i \in 1..Len(feed') : i > Len(feed) => feed'[i].kind # "change"
           \/ \E i \in 1..Len(feed') : i > Len(feed) /\ i = Len(feed')
                                     /\ feed'[i].kind = "change" /\ feed'[i].status = standing',
         missed' = {} /\ ~Stale' =>
           IF Ended' THEN (Ended /\ (OverComing => OverComing' \/ OverKnown')) \/ OverComing'
           ELSE \/ patch'.next = "fan"
                \/ standing' = standing /\ (patch.next = "fan" => Changed'),
         missed' = {} /\ entry'.there /\ entry'.phase \in Feed!Over =>
           (entry.there /\ entry.phase \in Feed!Over) \/ OverKnown' \/ Stale'
  PROVE  FeedInv'
<1>1. EntryTyped'  BY DEF Typed
<1>2. Forward  BY DEF Forward
<1>3. FeedTyped'  BY <1>1, <1>2, ForwardFeed
<1>4. PageSound'  BY <1>1, <1>2, ForwardSound
<1>5. Covered'  BY <1>1, <1>2, ForwardCovered
<1>6. LastIsRight'  BY <1>2, ForwardLast
<1>7. Led'  BY <1>1, <1>2, ForwardLed
<1>8. CacheTold'  BY <1>1, <1>2, ForwardCache
<1> QED  BY <1>3, <1>4, <1>5, <1>6, <1>7, <1>8 DEF FeedInv

\* A step that sends nothing.
LEMMA SilentStep ==
  ASSUME FeedInv, UNCHANGED <<filed, game, page, feed>>,
         Typed', BusTyped', HandTyped', Certain', missed \subseteq missed',
         entry.version <= entry'.version, Ended => Ended',
         missed' \subseteq {"misled"} =>
           \A v : BusHas(v) \/ HandHas(v) => BusHas(v)' \/ HandHas(v)',
         missed' = {} /\ ~Ended' =>
           (standing' = standing /\ patch'.next = patch.next) \/ patch'.next = "fan",
         missed' = {} /\ ~Ended' /\ patch.next = "fan" => patch'.next = "fan",
         missed' = {} /\ ~Stale' /\ Ended' =>
           (Ended /\ (OverComing => OverComing' \/ OverKnown')) \/ OverComing',
         missed' = {} /\ entry'.there /\ entry'.phase \in Feed!Over =>
           (entry.there /\ entry.phase \in Feed!Over) \/ OverKnown' \/ Stale'
  PROVE  FeedInv'
<1>1. Prefix /\ \A i \in 1..Len(feed') : ~(i > Len(feed))  BY FeedStays
<1> QED  BY <1>1, ServerStep

LEMMA ServerTypes ==
  ASSUME FeedInv, UNCHANGED <<filed, game, page, watching>>,
         standing' \in Feed!Statuses, EntryTyped',
         hand' \in [Feed!Senders -> Seq(InHand)], \A a \in Feed!Senders : Len(hand'[a]) <= 1,
         owes' \in BOOLEAN, patch' \in [to : Feed!Statuses, next : {"none", "fan", "cache"}],
         web' \in {"counting", "waiting", "telling", "gone"},
         missed' \subseteq missed \cup {"evicted", "cut"}, stir' \in 0..MaxStir
  PROVE  Typed'
BY DEF FeedInv, Typed, GameTyped, PageTyped

\* What a step that leaves the row and the writers alone need not show.
LEMMA SameWriters ==
  ASSUME FeedInv, UNCHANGED <<standing, filed, game, patch, web>>, entry'.phase \in Feed!Over => Ended
  PROVE  /\ Ended' = Ended /\ Certain'
         /\ OverComing => (OverComing' \/ (BusEnds /\ ~BusEnds'))
<1>1. Ended' = Ended  BY DEF Ended
<1>2. Certain'  BY <1>1 DEF FeedInv, Certain
<1> QED  BY <1>1, <1>2 DEF OverComing

LEMMA RouteNowhereStep ==
  ASSUME FeedInv, NEW e, Feed!Routing(e), Feed!RouteNowhere(e) PROVE FeedInv'
<1>1. /\ bus # <<>> /\ e = Head(bus) /\ bus' = Tail(bus) /\ hand["route"] = <<>>
      /\ UNCHANGED <<standing, filed, game, watching, patch, web, page, stir, entry, hand, owes, feed>>
      /\ e.kind \in {"scored", "status"} => missed' = missed \cup {"evicted"}
      /\ missed' = missed \/ missed' = missed \cup {"evicted"}
  BY DEF Feed!Routing, Feed!RouteNowhere, Feed!outside, Feed!Miss
<1>2. Typed'  BY <1>1, ServerTypes DEF FeedInv, Typed, EntryTyped
<1>3. Ended' = Ended /\ Certain' /\ (OverComing => OverComing' \/ (BusEnds /\ ~BusEnds'))
  BY <1>1, SameWriters DEF FeedInv, Certain
<1>4. /\ BusTyped' /\ e = bus[1]
      /\ BusEnds => BusEnds' \/ e.kind = "status"
      /\ \A v : BusHas(v) => BusHas(v)' \/ e.kind = "scored"
  BY <1>1, <1>3, FirstGone
<1>5. HandTyped' /\ \A v : HandHas(v) <=> HandHas(v)'
  <2>1. EntryTyped /\ entry.version \in Nat  BY DEF FeedInv, Typed, EntryTyped
  <2> QED  BY <1>1, <2>1, HandStays DEF EntryTyped
<1>6. entry.version <= entry'.version  BY <1>1 DEF FeedInv, Typed, EntryTyped
<1>7. missed' \subseteq {"misled"} => e.kind \notin {"scored", "status"}  BY <1>1
<1>8. missed' = {} => missed' \subseteq {"misled"}  OBVIOUS
<1>9. missed' = {} /\ ~Stale' /\ Ended' =>
        (Ended /\ (OverComing => OverComing' \/ OverKnown')) \/ OverComing'
  BY <1>3, <1>4, <1>7, <1>8
<1>10. missed' \subseteq {"misled"} => \A v : BusHas(v) \/ HandHas(v) => BusHas(v)' \/ HandHas(v)'
  BY <1>4, <1>5, <1>7
<1> QED  BY <1>1, <1>2, <1>3, <1>4, <1>5, <1>6, <1>9, <1>10, SilentStep

\* The router keeps an entry, stamps a frame and puts it in hand.
LEMMA RoutePuts ==
  ASSUME FeedInv, NEW e, Feed!Routing(e), entry.there, e.kind # "status",
         NEW f \in InHand, f.version = entry.version + 1,
         hand' = [hand EXCEPT !["route"] = <<f>>],
         entry' \in [there : {TRUE}, phase : (Feed!Statuses \ Feed!Over) \cup {entry.phase},
                     version : {entry.version + 1}],
         owes' \in BOOLEAN, UNCHANGED <<feed, missed>>,
         e.kind = "scored" => f.kind = "scored", f.kind = "scored" => e.kind = "scored" /\ f.verdict = e.verdict
  PROVE  FeedInv'
<1>1. /\ bus # <<>> /\ e = Head(bus) /\ bus' = Tail(bus) /\ hand["route"] = <<>>
      /\ UNCHANGED <<standing, filed, game, watching, patch, web, page, stir>>
  BY DEF Feed!Routing, Feed!outside
<1>2. /\ entry.version \in Nat /\ entry.phase \in Feed!Statuses \cup {"lobby"}
      /\ entry.version > 0
  BY DEF FeedInv, Typed, EntryTyped
<1>3. /\ entry'.version = entry.version + 1 /\ entry'.there
      /\ entry'.phase \in Feed!Over => entry.phase \in Feed!Over
  OBVIOUS
<1>4. EntryTyped' /\ entry.version <= entry'.version
  <2>1. /\ entry.version + 1 \in Nat /\ entry.version + 1 > 0
        /\ entry.version <= entry.version + 1
    BY <1>2
  <2>2. entry' \in [there : BOOLEAN, phase : Feed!Statuses \cup {"lobby"}, version : Nat]
    BY <1>2, <2>1
  <2> QED  BY <1>3, <2>1, <2>2 DEF EntryTyped
<1>5. Ended' = Ended /\ Certain' /\ (OverComing => OverComing' \/ (BusEnds /\ ~BusEnds'))
  BY <1>1, <1>3, SameWriters DEF FeedInv, Certain
<1>6. /\ BusTyped' /\ e = bus[1] /\ Announced(e) /\ (BusEnds => BusEnds')
      /\ \A v : BusHas(v) => BusHas(v)' \/ (e.kind = "scored" /\ e.verdict = v)
  <2>1. game.told \subseteq game'.told /\ (Ended => Ended')  BY <1>1, <1>5
  <2>2. /\ BusTyped' /\ Head(bus) = bus[1] /\ Announced(bus[1])
        /\ BusEnds => BusEnds' \/ bus[1].kind = "status"
        /\ \A v : BusHas(v) => BusHas(v)' \/ (bus[1].kind = "scored" /\ bus[1].verdict = v)
    BY <1>1, <2>1, FirstGone
  <2>3. PICK g : g = bus[1]  OBVIOUS
  <2>4. e = g  BY <1>1, <2>2, <2>3
  <2> QED  BY <2>2, <2>3, <2>4
<1>7. /\ HandTyped' /\ hand' \in [Feed!Senders -> Seq(InHand)]
      /\ \A b \in Feed!Senders : Len(hand'[b]) <= 1
      /\ \A v : HandHas(v) => HandHas(v)'
      /\ f.kind = "scored" => HandHas(f.verdict)'
  <2>1. "route" \in Feed!Senders  BY DEF Feed!Senders
  <2>2. f.kind = "scored" => f.verdict \in game.told  BY <1>6 DEF Announced
  <2> QED  BY <1>1, <1>3, <1>4, <2>1, <2>2, HandPut
<1>8. Typed'  BY <1>1, <1>4, <1>7, ServerTypes DEF FeedInv, Typed
<1>9. \A v : BusHas(v) \/ HandHas(v) => BusHas(v)' \/ HandHas(v)'  BY <1>6, <1>7
<1>10. OverComing => OverComing'  BY <1>5, <1>6
<1> QED  BY <1>1, <1>3, <1>4, <1>5, <1>6, <1>7, <1>8, <1>9, <1>10, SilentStep

LEMMA RouteTimerStep ==
  ASSUME FeedInv, NEW e, Feed!Routing(e), Feed!RouteTimer(e) PROVE FeedInv'
<1> DEFINE f == [kind |-> "countdown", version |-> entry.version + 1]
<1>1. /\ entry.there /\ e.kind = "timer"
      /\ entry' = [[entry EXCEPT !.version = entry.version + 1] EXCEPT !.phase = e.status]
      /\ hand' = [hand EXCEPT !["route"] = <<f>>] /\ UNCHANGED <<owes, feed, missed>>
  BY DEF Feed!RouteTimer, Feed!Bumped, Feed!Stamped
<1>2. entry \in [there : BOOLEAN, phase : Feed!Statuses \cup {"lobby"}, version : Nat]
  BY DEF FeedInv, Typed, EntryTyped
<1>3. f \in InHand /\ f.version = entry.version + 1 /\ f.kind = "countdown"
  BY <1>2 DEF InHand, Plain
<1> HIDE DEF f
<1>4. e.status \in Feed!Statuses \ Feed!Over
  <2>1. bus # <<>> /\ e = Head(bus) /\ bus \in Seq(Events) /\ \A i \in DOMAIN bus : Announced(bus[i])
    BY DEF Feed!Routing, FeedInv, BusTyped
  <2>2. Head(bus) = bus[1] /\ 1 \in DOMAIN bus /\ bus[1] \in Events  BY <2>1, TailOf
  <2>3. PICK g \in Events : g = bus[1] /\ g = e  BY <2>1, <2>2
  <2> QED  BY <1>1, <2>3 DEF Events, Feed!Statuses, Feed!Over
<1>5. entry' \in [there : {TRUE}, phase : (Feed!Statuses \ Feed!Over) \cup {entry.phase},
                 version : {entry.version + 1}]
  BY <1>1, <1>2, <1>4
<1>6. owes' \in BOOLEAN  BY <1>1 DEF FeedInv, Typed
<1> QED  BY <1>1, <1>3, <1>5, <1>6, RoutePuts

LEMMA RouteScoredStep ==
  ASSUME FeedInv, NEW e, Feed!Routing(e), Feed!RouteScored(e) PROVE FeedInv'
<1> DEFINE f == [kind |-> "scored", version |-> entry.version + 1, verdict |-> e.verdict]
<1>1. /\ entry.there /\ e.kind = "scored"
      /\ entry' = [entry EXCEPT !.version = entry.version + 1]
      /\ hand' = [hand EXCEPT !["route"] = <<f>>] /\ owes' = TRUE /\ UNCHANGED <<feed, missed>>
  BY DEF Feed!RouteScored, Feed!Bumped
<1>2. entry \in [there : BOOLEAN, phase : Feed!Statuses \cup {"lobby"}, version : Nat]
  BY DEF FeedInv, Typed, EntryTyped
<1>3. e.verdict \in Verdicts
  <2>1. bus # <<>> /\ e = Head(bus) /\ bus \in Seq(Events)
    BY DEF Feed!Routing, FeedInv, BusTyped
  <2>2. Head(bus) = bus[1] /\ 1 \in DOMAIN bus /\ bus[1] \in Events  BY <2>1, TailOf
  <2>3. PICK g \in Events : g = bus[1] /\ g = e  BY <2>1, <2>2
  <2> QED  BY <1>1, <2>3 DEF Events
<1>4. f \in InHand /\ f.version = entry.version + 1 /\ f.kind = "scored" /\ f.verdict = e.verdict
  BY <1>2, <1>3 DEF InHand, Scores
<1> HIDE DEF f
<1>5. entry' \in [there : {TRUE}, phase : (Feed!Statuses \ Feed!Over) \cup {entry.phase},
                 version : {entry.version + 1}]
  BY <1>1, <1>2
<1>6. owes' \in BOOLEAN  BY <1>1
<1> QED  BY <1>1, <1>4, <1>5, <1>6, RoutePuts

LEMMA RouteSettledStep ==
  ASSUME FeedInv, NEW e, Feed!Routing(e), Feed!RouteSettled(e) PROVE FeedInv'
<1> DEFINE f == [kind |-> "settled", version |-> entry.version + 1]
<1>1. /\ entry.there /\ e.kind = "settled"
      /\ entry' = [entry EXCEPT !.version = entry.version + 1]
      /\ hand' = [hand EXCEPT !["route"] = <<f>>] /\ UNCHANGED <<owes, feed, missed>>
  BY DEF Feed!RouteSettled, Feed!Bumped, Feed!Stamped
<1>2. entry \in [there : BOOLEAN, phase : Feed!Statuses \cup {"lobby"}, version : Nat]
  BY DEF FeedInv, Typed, EntryTyped
<1>3. f \in InHand /\ f.version = entry.version + 1 /\ f.kind = "settled"
  BY <1>2 DEF InHand, Plain
<1> HIDE DEF f
<1>5. entry' \in [there : {TRUE}, phase : (Feed!Statuses \ Feed!Over) \cup {entry.phase},
                 version : {entry.version + 1}]
  BY <1>1, <1>2
<1>6. owes' \in BOOLEAN  BY <1>1 DEF FeedInv, Typed
<1> QED  BY <1>1, <1>3, <1>5, <1>6, RoutePuts

\* The frame of the end has a newer version than all before it.
LEMMA EndLands ==
  ASSUME FeedInv, UNCHANGED page, missed = {}, NEW fs \in Seq(Frames), Len(fs) >= 1, Prefix,
         Len(feed) + 1 \in DOMAIN feed', feed'[Len(feed) + 1] = fs[1],
         fs[1] = [kind |-> "complete", version |-> entry.version + 1]
  PROVE  OverKnown'
<1>0. /\ feed \in Seq(Frames) /\ Len(feed) \in Nat
      /\ \A i \in DOMAIN feed : Reported(feed[i])
      /\ page.last \in Nat /\ entry.version \in Nat /\ page.last <= entry.version
  BY DEF FeedInv, FeedTyped, Typed, EntryTyped, PageTyped, PageSound
<1>a. PICK n \in Nat : n = Len(feed) + 1  BY <1>0
<1>b. PICK g : g = [kind |-> "complete", version |-> entry.version + 1]  OBVIOUS
<1>1. n \in DOMAIN feed' /\ feed'[n] = g /\ g.kind = "complete" /\ g.version = entry.version + 1
  BY <1>a, <1>b
<1>2. g.version > page.last  BY <1>0, <1>1
<1>3. ASSUME NEW j \in 1..(n - 1) PROVE feed'[j].kind = "change" \/ feed'[j].version < g.version
  <2>1. j \in 1..Len(feed) /\ j \in DOMAIN feed  BY <1>0, <1>a
  <2>2. PICK h : h = feed[j] /\ Reported(h) /\ h = feed'[j]  BY <1>0, <2>1 DEF Prefix
  <2>3. h.kind # "change" => h.version \in Nat /\ h.version <= entry.version
    BY <2>2 DEF Reported, Frames, InHand, Scores, Plain, Completes, Changes, Snapshots
  <2>4. h.kind # "change" => h.version < g.version  BY <1>0, <1>1, <2>3
  <2> QED  BY <2>2, <2>4
<1>5. Lands(n)'  BY <1>1, <1>2, <1>3 DEF Lands
<1> QED  BY <1>1, <1>5 DEF Ends, OverKnown

LEMMA RouteStatusStep ==
  ASSUME FeedInv, NEW e, Feed!Routing(e), Feed!RouteStatus(e) PROVE FeedInv'
<1>1. /\ bus # <<>> /\ e = Head(bus) /\ bus' = Tail(bus) /\ hand["route"] = <<>>
      /\ entry.there /\ e.kind = "status"
      /\ UNCHANGED <<standing, filed, game, watching, patch, web, page, stir, hand, owes>>
  BY DEF Feed!Routing, Feed!RouteStatus, Feed!outside
<1>2. /\ entry \in [there : BOOLEAN, phase : Feed!Statuses \cup {"lobby"}, version : Nat]
      /\ entry.version \in Nat /\ entry.version > 0 /\ EntryTyped
  BY DEF FeedInv, Typed, EntryTyped
<1>3. e.status \in Feed!Over /\ Ended
  <2>1. bus \in Seq(Events) /\ \A i \in DOMAIN bus : Announced(bus[i])
    BY DEF FeedInv, BusTyped
  <2>2. Head(bus) = bus[1] /\ 1 \in DOMAIN bus  BY <1>1, <2>1, TailOf
  <2>3. PICK g : g = bus[1] /\ g = e /\ Announced(g)  BY <1>1, <2>1, <2>2
  <2> QED  BY <1>1, <2>3 DEF Announced, Events
<1>4. Ended' = Ended /\ Certain'  BY <1>1, <1>3, SameWriters
<1>5. BusTyped' /\ \A v : BusHas(v) => BusHas(v)'
  <2>1. PICK g : g = bus[1]  OBVIOUS
  <2>2. /\ BusTyped' /\ Head(bus) = g
        /\ \A v : BusHas(v) => BusHas(v)' \/ (g.kind = "scored" /\ g.verdict = v)
    BY <1>1, <1>4, <2>1, FirstGone
  <2> QED  BY <1>1, <2>2
<1>6. CASE entry.phase = e.status
  <2>1. UNCHANGED <<entry, feed, missed>>  BY <1>6 DEF Feed!RouteStatus
  <2>2. Typed'  BY <1>1, <2>1, ServerTypes DEF FeedInv, Typed, EntryTyped
  <2>3. HandTyped' /\ \A v : HandHas(v) <=> HandHas(v)'
    <3>1. EntryTyped' /\ entry.version <= entry'.version  BY <1>2, <2>1 DEF EntryTyped
    <3> QED  BY <1>1, <2>1, <3>1, HandStays
  <2>4. missed' = {} /\ ~Stale' => OverKnown'
    <3>1. missed = {} /\ ~Stale => OverKnown  BY <1>1, <1>3, <1>6 DEF FeedInv, CacheTold
    <3>2. (Stale <=> Stale') /\ (OverKnown <=> OverKnown')
      BY <1>1, <2>1 DEF Stale, OverKnown, Ends, Lands
    <3> QED  BY <2>1, <3>1, <3>2
  <2>5. entry.version <= entry'.version  BY <1>2, <2>1
  <2> QED  BY <1>1, <1>3, <1>4, <1>5, <2>1, <2>2, <2>3, <2>4, <2>5, SilentStep
<1>7. CASE entry.phase # e.status
  <2>a. PICK f : f = [kind |-> "complete", version |-> entry.version + 1]  OBVIOUS
  <2>b. f \in Frames /\ f.kind = "complete" /\ f.version = entry.version + 1
    BY <1>2, <2>a DEF Frames, Completes
  <2>c. <<f>> \in Seq(Frames) /\ Len(<<f>>) = 1 /\ <<f>>[1] = f  BY <2>b
  <2>d. PICK fs \in Seq(Frames) : fs = <<f>> /\ Len(fs) = 1 /\ fs[1] = f  BY <2>c, Zenon
  <2>e. DOMAIN fs = {1}  BY <2>d
  <2>1. /\ entry' = [[entry EXCEPT !.version = entry.version + 1] EXCEPT !.phase = e.status]
        /\ Feed!Cast(fs)
    BY <1>7, <2>a, <2>d DEF Feed!RouteStatus, Feed!Bumped, Feed!Complete
  <2>2. /\ entry'.version = entry.version + 1 /\ entry'.there /\ EntryTyped'
        /\ entry.version <= entry'.version
    <3>1. entry.version + 1 \in Nat /\ entry.version + 1 > 0 /\ entry.version <= entry.version + 1
      BY <1>2
    <3>2. e.status \in Feed!Statuses  BY <1>3 DEF Feed!Statuses
    <3> QED  BY <1>1, <1>2, <2>1, <3>1, <3>2 DEF EntryTyped
  <2>3. /\ Prefix /\ missed \subseteq missed' /\ missed' \subseteq missed \cup {"cut"}
        /\ \A i \in 1..Len(feed') : i > Len(feed) =>
              i - Len(feed) \in DOMAIN fs /\ feed'[i] = fs[i - Len(feed)]
        /\ \/ page.link # "closed" /\ Len(feed) + 1 \in DOMAIN feed' /\ feed'[Len(feed) + 1] = f
           \/ page.link = "closed" /\ feed' = feed
    BY <2>1, <2>d, <2>e, CastPuts
  <2>4. Typed'  BY <1>1, <2>2, <2>3, ServerTypes DEF FeedInv, Typed
  <2>5. HandTyped' /\ \A v : HandHas(v) <=> HandHas(v)'  BY <1>1, <2>2, HandStays
  <2>6. Reported(f)'  BY <1>3, <1>4, <2>2, <2>b DEF Reported, EntryTyped
  <2>7. \A i \in 1..Len(feed') : i > Len(feed) =>
           /\ feed'[i].kind # "snapshot" /\ feed'[i].kind # "change"
           /\ \E g \in Frames : g = feed'[i] /\ Reported(g)'
    <3> SUFFICES ASSUME NEW i \in 1..Len(feed'), i > Len(feed)
                 PROVE  feed'[i] = f
      BY <2>6, <2>b
    <3>1. i - Len(feed) \in {1} /\ feed'[i] = fs[i - Len(feed)]  BY <2>3, <2>e
    <3> QED  BY <3>1, <2>d
  <2>8. missed' = {} /\ ~Stale' => OverKnown'
    <3> SUFFICES ASSUME missed' = {}, ~Stale' PROVE OverKnown'  OBVIOUS
    <3>1. missed = {}  BY <2>3
    <3>2. page.last \in Nat /\ page.last <= entry.version
      BY <3>1 DEF FeedInv, PageSound, Typed, PageTyped
    <3>3. page.link # "closed"  BY <1>1, <1>2, <2>2, <3>2 DEF Stale
    <3>4. Len(feed) + 1 \in DOMAIN feed' /\ feed'[Len(feed) + 1] = fs[1]
      BY <2>3, <2>d, <3>3
    <3>5. fs[1] = [kind |-> "complete", version |-> entry.version + 1] /\ Len(fs) >= 1
      BY <2>a, <2>d
    <3> QED  BY <1>1, <2>3, <3>1, <3>4, <3>5, EndLands
  <2>9. missed' = {} /\ ~Ended' /\ patch'.next # "fan" => FALSE  BY <1>3, <1>4
  <2>10. Prefix /\ missed \subseteq missed' /\ entry.version <= entry'.version /\ (Ended => Ended')
    BY <1>4, <2>2, <2>3
  <2> QED  BY <1>1, <1>3, <1>4, <1>5, <2>4, <2>5, <2>7, <2>8, <2>10, ServerStep
<1> QED  BY <1>6, <1>7

LEMMA RouteStep == ASSUME FeedInv, Feed!Route PROVE FeedInv'
<1>1. PICK e : /\ Feed!Routing(e)
               /\ \/ Feed!RouteNowhere(e) \/ Feed!RouteTimer(e) \/ Feed!RouteStatus(e)
                  \/ Feed!RouteScored(e) \/ Feed!RouteSettled(e)
  BY DEF Feed!Route
<1> QED  BY <1>1, RouteNowhereStep, RouteTimerStep, RouteStatusStep, RouteScoredStep, RouteSettledStep

\* Facts most steps of the main server share.
LEMMA Basics ==
  ASSUME FeedInv
  PROVE  /\ EntryTyped /\ entry.version \in Nat /\ entry.version > 0 /\ entry.version <= entry.version
         /\ entry \in [there : BOOLEAN, phase : Feed!Statuses \cup {"lobby"}, version : Nat]
         /\ hand \in [Feed!Senders -> Seq(InHand)] /\ \A a \in Feed!Senders : Len(hand[a]) <= 1
         /\ owes \in BOOLEAN /\ patch \in [to : Feed!Statuses, next : {"none", "fan", "cache"}]
         /\ web \in {"counting", "waiting", "telling", "gone"} /\ standing \in Feed!Statuses
         /\ stir \in 0..MaxStir /\ (hand["route"] # <<>> => entry.there)
         /\ feed \in Seq(Frames) /\ Len(feed) \in Nat
         /\ entry.phase \in Feed!Over => Ended
BY DEF FeedInv, Typed, EntryTyped, HandTyped, FeedTyped, Certain

LEMMA SendStep == ASSUME FeedInv, NEW a \in Feed!Senders, Feed!Send(a) PROVE FeedInv'
<1>1. /\ hand[a] # <<>> /\ hand' = [hand EXCEPT ![a] = <<>>]
      /\ UNCHANGED <<standing, filed, game, watching, bus, entry, owes, patch, web, page, stir>>
      /\ IF entry.there THEN Feed!Cast(hand[a]) ELSE UNCHANGED <<feed, missed>>
  BY DEF Feed!Send, Feed!outside
<1>2. /\ Ended' = Ended /\ Certain' /\ (OverComing => OverComing' \/ (BusEnds /\ ~BusEnds'))
  BY <1>1, Basics, SameWriters
<1>3. BusTyped' /\ (BusEnds <=> BusEnds') /\ \A v : BusHas(v) <=> BusHas(v)'
  BY <1>1, <1>2, BusStays
<1>4. /\ HandTyped' /\ hand' \in [Feed!Senders -> Seq(InHand)]
      /\ \A b \in Feed!Senders : Len(hand'[b]) <= 1
  BY <1>1, HandSent
<1>5. EntryTyped' /\ entry.version <= entry'.version  BY <1>1, Basics DEF EntryTyped
<1>6. hand \in [Feed!Senders -> Seq(InHand)] /\ (a # "route" => hand'["route"] = hand["route"])
  BY <1>1, Basics DEF Feed!Senders
<1>7. CASE ~entry.there
  <2>1. a # "route" /\ UNCHANGED <<feed, missed>>  BY <1>1, <1>7, Basics
  <2>2. \A v : HandHas(v) <=> HandHas(v)'  BY <1>6, <2>1 DEF HandHas
  <2>3. Typed'  BY <1>1, <1>4, <1>5, <2>1, Basics, ServerTypes
  <2> QED  BY <1>1, <1>2, <1>3, <1>4, <1>5, <1>7, <2>1, <2>2, <2>3, SilentStep
<1>8. CASE entry.there
  <2>1. PICK fs \in Seq(InHand) : fs = hand[a]  BY <1>6
  <2>2. /\ DOMAIN fs = 1..Len(fs) /\ Len(fs) \in Nat /\ Len(fs) <= 1 /\ Feed!Cast(fs)
        /\ \A i \in DOMAIN fs : Carried(fs[i]) /\ fs[i] \in InHand
    BY <1>1, <1>8, <2>1, Basics DEF FeedInv, HandTyped
  <2>3. fs \in Seq(Frames)  BY <2>1 DEF Frames
  <2>4. \A f : Carried(f) => /\ Reported(f)' /\ f \in Frames /\ f.kind # "snapshot" /\ f.kind # "change"
    <3> SUFFICES ASSUME NEW f, Carried(f)
                 PROVE  Reported(f)' /\ f \in Frames /\ f.kind # "snapshot" /\ f.kind # "change"
      OBVIOUS
    <3>1. f \in InHand /\ f.kind \in {"scored", "countdown", "board", "settled"}
      BY DEF Carried, InHand, Scores, Plain
    <3>2. f \in Frames  BY <3>1 DEF Frames
    <3> QED  BY <1>1, <3>1, <3>2 DEF Carried, Reported
  <2>5. /\ Prefix /\ missed \subseteq missed' /\ missed' \subseteq missed \cup {"cut"}
        /\ \A i \in 1..Len(feed') : i > Len(feed) =>
              i - Len(feed) \in DOMAIN fs /\ feed'[i] = fs[i - Len(feed)]
        /\ \/ /\ page.link # "closed"
              /\ \A j \in DOMAIN fs : /\ Len(feed) + j \in DOMAIN feed'
                                      /\ feed'[Len(feed) + j] = fs[j]
           \/ \A j \in DOMAIN fs : fs[j].kind \in {"scored", "change"} => "cut" \in missed'
    BY <2>2, <2>3, CastPuts
  <2>6. \A i \in 1..Len(feed') : i > Len(feed) =>
           /\ feed'[i].kind # "snapshot" /\ feed'[i].kind # "change"
           /\ \E g \in Frames : g = feed'[i] /\ Reported(g)'
    <3> TAKE i \in 1..Len(feed')
    <3> HAVE i > Len(feed)
    <3>1. PICK g : g = feed'[i] /\ Carried(g)  BY <2>2, <2>5
    <3> QED  BY <2>4, <3>1
  <2>7. missed' \subseteq {"misled"} => \A v : HandHas(v) => HandHas(v)' \/ FeedHas(v)'
    <3> SUFFICES ASSUME missed' \subseteq {"misled"}, NEW v, HandHas(v), a = "route"
                 PROVE  FeedHas(v)'
      BY <1>6 DEF HandHas
    <3>1. PICK j \in DOMAIN fs : fs[j].kind = "scored" /\ fs[j].verdict = v
      BY <2>1 DEF HandHas
    <3>2. Len(feed) + j \in DOMAIN feed' /\ feed'[Len(feed) + j] = fs[j]
      BY <2>5, <3>1
    <3> QED  BY <3>1, <3>2 DEF FeedHas
  <2>8. Typed'  BY <1>1, <1>4, <1>5, <2>5, Basics, ServerTypes
  <2>9. OverComing => OverComing'  BY <1>2, <1>3
  <2>10. patch'.next = "fan" <=> patch.next = "fan"  BY <1>1
  <2> QED  BY <1>1, <1>2, <1>3, <1>4, <1>5, <1>8, <2>5, <2>6, <2>7, <2>8, <2>9, <2>10, ServerStep
<1> QED  BY <1>7, <1>8

LEMMA BoardStep == ASSUME FeedInv, Feed!Board PROVE FeedInv'
<1>1. /\ hand["route"] = <<>> /\ owes' = FALSE
      /\ UNCHANGED <<standing, filed, game, watching, bus, patch, web, page, feed, missed, stir>>
  BY DEF Feed!Board, Feed!outside
<1>2. CASE ~entry.there
  <2>1. UNCHANGED <<entry, hand>>  BY <1>2 DEF Feed!Board
  <2>2. /\ Ended' = Ended /\ Certain' /\ (OverComing => OverComing' \/ (BusEnds /\ ~BusEnds'))
    BY <1>1, <2>1, Basics, SameWriters
  <2>3. BusTyped' /\ (BusEnds <=> BusEnds') /\ \A v : BusHas(v) <=> BusHas(v)'
    BY <1>1, <2>2, BusStays
  <2>4. EntryTyped' /\ entry.version <= entry'.version  BY <2>1, Basics DEF EntryTyped
  <2>5. HandTyped' /\ \A v : HandHas(v) <=> HandHas(v)'  BY <1>1, <2>1, <2>4, HandStays
  <2>6. Typed'  BY <1>1, <2>1, <2>4, Basics, ServerTypes
  <2> QED  BY <1>1, <2>1, <2>2, <2>3, <2>4, <2>5, <2>6, SilentStep
<1>3. CASE entry.there
  <2>a. PICK f : f = [kind |-> "board", version |-> entry.version + 1]  OBVIOUS
  <2>b. f \in InHand /\ f.kind = "board" /\ f.version = entry.version + 1
    BY <2>a, Basics DEF InHand, Plain
  <2>1. /\ entry' = [entry EXCEPT !.version = entry.version + 1]
        /\ hand' = [hand EXCEPT !["route"] = <<f>>]
    BY <1>3, <2>a DEF Feed!Board, Feed!Bumped, Feed!Stamped
  <2>2. /\ entry'.version = entry.version + 1 /\ entry'.there /\ EntryTyped'
        /\ entry.version <= entry'.version /\ entry'.phase = entry.phase
    <3>1. entry.version + 1 \in Nat /\ entry.version + 1 > 0 /\ entry.version <= entry.version + 1
      BY Basics
    <3> QED  BY <1>3, <2>1, <3>1, Basics DEF EntryTyped
  <2>3. /\ Ended' = Ended /\ Certain' /\ (OverComing => OverComing' \/ (BusEnds /\ ~BusEnds'))
    BY <1>1, <2>2, Basics, SameWriters
  <2>4. BusTyped' /\ (BusEnds <=> BusEnds') /\ \A v : BusHas(v) <=> BusHas(v)'
    BY <1>1, <2>3, BusStays
  <2>5. /\ HandTyped' /\ hand' \in [Feed!Senders -> Seq(InHand)]
        /\ \A b \in Feed!Senders : Len(hand'[b]) <= 1
        /\ \A v : HandHas(v) => HandHas(v)'
    <3>1. "route" \in Feed!Senders  BY DEF Feed!Senders
    <3> QED  BY <1>1, <1>3, <2>b, <2>1, <2>2, <3>1, HandPut
  <2>6. Typed'  BY <1>1, <2>2, <2>5, Basics, ServerTypes
  <2> QED  BY <1>1, <1>3, <2>2, <2>3, <2>4, <2>5, <2>6, SilentStep
<1> QED  BY <1>2, <1>3

LEMMA WebTicksStep == ASSUME FeedInv, Feed!WebTicks PROVE FeedInv'
<1>a. PICK f : f = [kind |-> "countdown", version |-> entry.version + 1]  OBVIOUS
<1>b. f \in InHand /\ f.kind = "countdown" /\ f.version = entry.version + 1
  BY <1>a, Basics DEF InHand, Plain
<1>1. /\ hand["web"] = <<>> /\ entry.there /\ Feed!Stir
      /\ UNCHANGED <<standing, filed, game, watching, bus, owes, patch, page, web, feed, missed>>
      /\ entry' = [entry EXCEPT !.version = entry.version + 1]
      /\ hand' = [hand EXCEPT !["web"] = <<f>>]
  BY <1>a DEF Feed!WebTicks, Feed!webOnly, Feed!outside, Feed!Bumped, Feed!Stamped
<1>2. /\ entry'.version = entry.version + 1 /\ entry'.there /\ EntryTyped'
      /\ entry.version <= entry'.version /\ entry'.phase = entry.phase
  <2>1. entry.version + 1 \in Nat /\ entry.version + 1 > 0 /\ entry.version <= entry.version + 1
    BY Basics
  <2> QED  BY <1>1, <2>1, Basics DEF EntryTyped
<1>3. /\ Ended' = Ended /\ Certain' /\ (OverComing => OverComing' \/ (BusEnds /\ ~BusEnds'))
  BY <1>1, <1>2, Basics, SameWriters
<1>4. BusTyped' /\ (BusEnds <=> BusEnds') /\ \A v : BusHas(v) <=> BusHas(v)'
  BY <1>1, <1>3, BusStays
<1>5. /\ HandTyped' /\ hand' \in [Feed!Senders -> Seq(InHand)]
      /\ \A b \in Feed!Senders : Len(hand'[b]) <= 1
      /\ \A v : HandHas(v) => HandHas(v)'
  <2>1. "web" \in Feed!Senders  BY DEF Feed!Senders
  <2> QED  BY <1>b, <1>1, <1>2, <2>1, HandPut
<1>6. Typed'  BY <1>1, <1>2, <1>5, Basics, ServerTypes, Stirred
<1> QED  BY <1>1, <1>2, <1>3, <1>4, <1>5, <1>6, SilentStep

LEMMA PatchWritesStep == ASSUME FeedInv, NEW s \in Feed!Statuses, Feed!PatchWrites(s) PROVE FeedInv'
<1>1. /\ patch.next = "none" /\ standing \in {"running", "paused"} /\ Feed!Stir
      /\ standing' = s /\ patch' = [to |-> s, next |-> "fan"]
      /\ UNCHANGED <<filed, game, watching, bus, entry, hand, owes, web, page, feed, missed>>
  BY DEF Feed!PatchWrites, Feed!outside
<1>2. patch'.next = "fan" /\ patch'.to = s /\ patch' \in [to : Feed!Statuses, next : {"none", "fan", "cache"}]
  BY <1>1
<1>3. standing \notin Feed!Over /\ (Ended => game.ending)
  BY <1>1 DEF Feed!Over, Ended
<1>4. (Ended => Ended') /\ (s \in Feed!Over => Ended')  BY <1>1, <1>3 DEF Ended
<1>5. Certain'
  <2>1. /\ game.told \subseteq filed \cup OfSession /\ (entry.phase \in Feed!Over => Ended)
        /\ (web = "telling" => Ended) /\ (game.sweeping => Ended)
    BY DEF FeedInv, Certain
  <2> QED  BY <1>1, <1>2, <1>4, <2>1 DEF Certain
<1>6. BusTyped' /\ (BusEnds <=> BusEnds') /\ \A v : BusHas(v) <=> BusHas(v)'
  BY <1>1, <1>4, BusStays
<1>7. EntryTyped' /\ entry.version <= entry'.version  BY <1>1, Basics DEF EntryTyped
<1>8. HandTyped' /\ \A v : HandHas(v) <=> HandHas(v)'  BY <1>1, <1>7, Basics, HandStays
<1>9. Typed'  BY <1>1, <1>2, <1>7, Basics, ServerTypes, Stirred
<1>10. OverComing => OverComing'  BY <1>1, <1>6 DEF OverComing
<1>11. Ended' => Ended \/ OverComing'
  <2>1. Ended' => game.ending \/ s \in Feed!Over  BY <1>1 DEF Ended
  <2>2. game.ending => Ended  BY DEF Ended
  <2> QED  BY <1>2, <2>1, <2>2 DEF OverComing
<1> QED  BY <1>1, <1>2, <1>4, <1>5, <1>6, <1>7, <1>8, <1>9, <1>10, <1>11, SilentStep

LEMMA PatchFansStep == ASSUME FeedInv, Feed!PatchFans PROVE FeedInv'
<1>a. PICK f : f = [kind |-> "change", status |-> patch.to]  OBVIOUS
<1>b. f \in Frames /\ f.kind = "change" /\ f.status = patch.to
  BY <1>a, Basics DEF Frames, Changes
<1>c. <<f>> \in Seq(Frames) /\ Len(<<f>>) = 1 /\ <<f>>[1] = f  BY <1>b
<1>d. PICK fs \in Seq(Frames) : fs = <<f>> /\ Len(fs) = 1 /\ fs[1] = f  BY <1>c, Zenon
<1>e. DOMAIN fs = {1}  BY <1>d
<1>1. /\ patch.next = "fan" /\ patch' = [patch EXCEPT !.next = "cache"]
      /\ UNCHANGED <<standing, filed, game, watching, bus, entry, hand, owes, web, page, stir>>
      /\ IF entry.there THEN Feed!Cast(fs) ELSE missed' = missed \cup {"evicted"} /\ UNCHANGED feed
  BY <1>a, <1>d DEF Feed!PatchFans, Feed!outside, Feed!Change, Feed!Miss
<1>2. /\ patch'.next = "cache" /\ patch'.to = patch.to
      /\ patch' \in [to : Feed!Statuses, next : {"none", "fan", "cache"}]
  BY <1>1, Basics
<1>3. Ended' = Ended  BY <1>1 DEF Ended
<1>4. Certain' /\ (patch.to \in Feed!Over => Ended) /\ (~Ended => patch.to = standing)
  BY <1>1, <1>2, <1>3 DEF FeedInv, Certain
<1>5. BusTyped' /\ (BusEnds <=> BusEnds') /\ \A v : BusHas(v) <=> BusHas(v)'
  BY <1>1, <1>3, BusStays
<1>6. EntryTyped' /\ entry.version <= entry'.version  BY <1>1, Basics DEF EntryTyped
<1>7. HandTyped' /\ \A v : HandHas(v) <=> HandHas(v)'  BY <1>1, <1>6, Basics, HandStays
<1>8. OverComing => OverComing' \/ patch.to \in Feed!Over
  BY <1>1, <1>5 DEF OverComing
<1>9. CASE ~entry.there
  <2>1. missed' = missed \cup {"evicted"} /\ UNCHANGED feed  BY <1>1, <1>9
  <2>2. Typed'  BY <1>1, <1>2, <1>6, <2>1, Basics, ServerTypes
  <2>3. missed' # {} /\ ~(missed' \subseteq {"misled"})  BY <2>1
  <2> QED  BY <1>1, <1>2, <1>3, <1>4, <1>5, <1>6, <1>7, <2>1, <2>2, <2>3, SilentStep
<1>10. CASE entry.there
  <2>1. /\ Prefix /\ missed \subseteq missed' /\ missed' \subseteq missed \cup {"cut"}
        /\ \A i \in 1..Len(feed') : i > Len(feed) =>
              i - Len(feed) \in DOMAIN fs /\ feed'[i] = fs[i - Len(feed)]
        /\ \/ /\ Len(feed') = Len(feed) + 1
              /\ Len(feed) + 1 \in DOMAIN feed' /\ feed'[Len(feed) + 1] = f
           \/ "cut" \in missed'
    BY <1>1, <1>10, <1>b, <1>d, <1>e, CastPuts
  <2>2. Typed'  BY <1>1, <1>2, <1>6, <2>1, Basics, ServerTypes
  <2>3. Reported(f)'  BY <1>3, <1>4, <1>b DEF Reported
  <2>4. \A i \in 1..Len(feed') : i > Len(feed) =>
           feed'[i].kind # "snapshot" /\ \E g \in Frames : g = feed'[i] /\ Reported(g)'
    <3> SUFFICES ASSUME NEW i \in 1..Len(feed'), i > Len(feed)
                 PROVE  feed'[i] = f
      BY <2>3, <1>b
    <3>1. i - Len(feed) \in {1} /\ feed'[i] = fs[i - Len(feed)]  BY <2>1, <1>e
    <3> QED  BY <3>1, <1>d
  <2>5. CASE "cut" \in missed'
    <3>1. missed' # {} /\ ~(missed' \subseteq {"misled"})  BY <2>5
    <3> QED  BY <1>1, <1>3, <1>4, <1>5, <1>6, <1>7, <2>1, <2>2, <2>4, <3>1, ServerStep
  <2>6. CASE /\ Len(feed') = Len(feed) + 1
             /\ Len(feed) + 1 \in DOMAIN feed' /\ feed'[Len(feed) + 1] = f
    <3>1. Prefix /\ Len(feed) \in Nat  BY <2>1, Basics
    <3>2. DOMAIN feed' = 1..Len(feed')  BY <3>1 DEF Prefix
    <3>3. PICK n \in DOMAIN feed' : n = Len(feed') /\ n > Len(feed) /\ feed'[n] = f
      <4>1. PICK n : n = Len(feed) + 1  OBVIOUS
      <4>2. n > Len(feed)  BY <3>1, <4>1
      <4> QED  BY <2>6, <4>1, <4>2
    <3>4. Changed'  BY <1>b, <3>3 DEF Changed
    <3>5. patch.to \in Feed!Over => OverKnown'  BY <1>b, <3>3 DEF OverKnown, Ends
    <3>6. ~Ended' => \E i \in 1..Len(feed') : i > Len(feed) /\ i = Len(feed')
                       /\ feed'[i].kind = "change" /\ feed'[i].status = standing'
      BY <1>1, <1>3, <1>4, <1>b, <3>2, <3>3
    <3> QED  BY <1>1, <1>3, <1>4, <1>5, <1>6, <1>7, <1>8, <1>10, <2>1, <2>2, <2>4, <3>4, <3>5, <3>6,
                ServerStep
  <2> QED  BY <2>1, <2>5, <2>6
<1> QED  BY <1>9, <1>10

LEMMA PatchCachesStep == ASSUME FeedInv, Feed!PatchCaches PROVE FeedInv'
<1>1. /\ patch.next = "cache" /\ (patch.to \in Feed!Over => hand["route"] = <<>>)
      /\ patch' = Feed!NoPatch
      /\ UNCHANGED <<standing, filed, game, watching, bus, hand, owes, web, page, feed, missed, stir>>
  BY DEF Feed!PatchCaches, Feed!outside, Feed!CanEvict
<1>2. entry' = [there   |-> entry.there /\ patch.to \notin Feed!Over,
                phase   |-> IF entry.there /\ patch.to # "finished" THEN patch.to
                            ELSE entry.phase,
                version |-> IF entry.there /\ patch.to # "finished" THEN entry.version + 1
                            ELSE entry.version]
  BY DEF Feed!PatchCaches
<1>3. /\ entry'.there = (entry.there /\ patch.to \notin Feed!Over)
      /\ entry'.phase = IF entry.there /\ patch.to # "finished" THEN patch.to ELSE entry.phase
      /\ entry'.version = entry.version \/ entry'.version = entry.version + 1
  BY <1>2
<1>4. EntryTyped' /\ entry.version <= entry'.version
  <2>1. entry.version + 1 \in Nat /\ entry.version + 1 > 0 /\ entry.version <= entry.version + 1
    BY Basics
  <2>2. entry'.version \in Nat /\ entry'.version > 0 /\ entry.version <= entry'.version
    BY <1>3, <2>1, Basics
  <2>3. entry'.phase \in Feed!Statuses \cup {"lobby"} /\ entry'.there \in BOOLEAN
    BY <1>3, Basics
  <2>4. entry' \in [there : BOOLEAN, phase : Feed!Statuses \cup {"lobby"}, version : Nat]
    BY <1>2, <1>3, <2>2, <2>3
  <2> QED  BY <2>2, <2>4 DEF EntryTyped
<1>5. patch'.next = "none" /\ patch' \in [to : Feed!Statuses, next : {"none", "fan", "cache"}]
  BY <1>1 DEF Feed!NoPatch, Feed!Statuses
<1>6. Ended' = Ended  BY <1>1 DEF Ended
<1>7. Certain'
  <2>1. /\ game.told \subseteq filed \cup OfSession /\ (entry.phase \in Feed!Over => Ended)
        /\ (web = "telling" => Ended) /\ (game.sweeping => Ended)
        /\ (patch.to \in Feed!Over => Ended)
    BY <1>1 DEF FeedInv, Certain
  <2> QED  BY <1>1, <1>3, <1>5, <1>6, <2>1 DEF Certain
<1>8. BusTyped' /\ (BusEnds <=> BusEnds') /\ \A v : BusHas(v) <=> BusHas(v)'
  BY <1>1, <1>6, BusStays
<1>9. HandTyped' /\ \A v : HandHas(v) <=> HandHas(v)'  BY <1>1, <1>3, <1>4, Basics, HandStays
<1>10. Typed'  BY <1>1, <1>4, <1>5, Basics, ServerTypes
<1>11. OverComing => OverComing'  BY <1>1, <1>8 DEF OverComing
<1>12. entry'.there /\ entry'.phase \in Feed!Over => entry.there /\ entry.phase \in Feed!Over
  BY <1>3
<1>13. patch.next # "fan" /\ patch'.next # "fan"  BY <1>1, <1>5
<1>14. Prefix /\ \A i \in 1..Len(feed') : ~(i > Len(feed))  BY <1>1, FeedStays
<1> QED  BY <1>1, <1>4, <1>6, <1>7, <1>8, <1>9, <1>10, <1>11, <1>12, <1>13, <1>14, ServerStep

LEMMA WebExpiresStep == ASSUME FeedInv, Feed!WebExpires PROVE FeedInv'
<1>1. /\ web = "counting" /\ web' \in {"waiting", "gone"}
      /\ UNCHANGED <<standing, filed, game, watching, bus, owes, patch, page, entry, hand, feed,
                     missed, stir>>
  BY DEF Feed!WebExpires, Feed!webOnly, Feed!outside
<1>2. Ended' = Ended  BY <1>1 DEF Ended
<1>3. Certain'  BY <1>1, <1>2 DEF FeedInv, Certain
<1>4. BusTyped' /\ (BusEnds <=> BusEnds') /\ \A v : BusHas(v) <=> BusHas(v)'
  BY <1>1, <1>2, BusStays
<1>5. EntryTyped' /\ entry.version <= entry'.version  BY <1>1, Basics DEF EntryTyped
<1>6. HandTyped' /\ \A v : HandHas(v) <=> HandHas(v)'  BY <1>1, <1>5, Basics, HandStays
<1>7. Typed'  BY <1>1, <1>5, Basics, ServerTypes
<1>8. OverComing => OverComing'  BY <1>1, <1>4 DEF OverComing
<1> QED  BY <1>1, <1>2, <1>3, <1>4, <1>5, <1>6, <1>7, <1>8, SilentStep

LEMMA WebSeesEndStep == ASSUME FeedInv, Feed!WebSeesEnd PROVE FeedInv'
<1>1. /\ web = "waiting" /\ web' = "gone"
      /\ \/ hand["route"] = <<>> /\ entry' = [entry EXCEPT !.there = FALSE]
         \/ UNCHANGED entry
      /\ UNCHANGED <<standing, filed, game, watching, bus, owes, patch, page, hand, feed, missed, stir>>
  BY DEF Feed!WebSeesEnd, Feed!webOnly, Feed!outside, Feed!CanEvict
<1>2. Ended' = Ended  BY <1>1 DEF Ended
<1>3. /\ EntryTyped' /\ entry'.version = entry.version /\ entry.version <= entry'.version
      /\ entry'.phase = entry.phase /\ (entry'.there => entry.there)
      /\ hand["route"] # <<>> => entry'.there
  BY <1>1, Basics DEF EntryTyped
<1>4. Certain'  BY <1>1, <1>2, <1>3 DEF FeedInv, Certain
<1>5. BusTyped' /\ (BusEnds <=> BusEnds') /\ \A v : BusHas(v) <=> BusHas(v)'
  BY <1>1, <1>2, BusStays
<1>6. HandTyped' /\ \A v : HandHas(v) <=> HandHas(v)'  BY <1>1, <1>3, HandStays
<1>7. Typed'  BY <1>1, <1>3, Basics, ServerTypes
<1>8. OverComing => OverComing'  BY <1>1, <1>5 DEF OverComing
<1> QED  BY <1>1, <1>2, <1>3, <1>4, <1>5, <1>6, <1>7, <1>8, SilentStep

LEMMA WebTakesOverStep == ASSUME FeedInv, Feed!WebTakesOver PROVE FeedInv'
<1>1. /\ web' = "telling" /\ standing' = "finished"
      /\ UNCHANGED <<filed, game, watching, bus, owes, patch, page, entry, hand, feed, missed, stir>>
  BY DEF Feed!WebTakesOver, Feed!webOnly, Feed!outside
<1>2. Ended' /\ standing' \in Feed!Statuses
  BY <1>1 DEF Ended, Feed!Over, Feed!Statuses
<1>3. Certain'  BY <1>1, <1>2 DEF FeedInv, Certain
<1>4. BusTyped' /\ (BusEnds <=> BusEnds') /\ \A v : BusHas(v) <=> BusHas(v)'
  BY <1>1, <1>2, BusStays
<1>5. EntryTyped' /\ entry.version <= entry'.version  BY <1>1, Basics DEF EntryTyped
<1>6. HandTyped' /\ \A v : HandHas(v) <=> HandHas(v)'  BY <1>1, <1>5, Basics, HandStays
<1>7. Typed'  BY <1>1, <1>2, <1>5, Basics, ServerTypes
<1>8. OverComing'  BY <1>1 DEF OverComing
<1> QED  BY <1>1, <1>2, <1>3, <1>4, <1>5, <1>6, <1>7, <1>8, SilentStep

LEMMA WebTellsStep == ASSUME FeedInv, Feed!WebTells PROVE FeedInv'
<1>a. PICK f : f = [kind |-> "complete", version |-> entry.version + 2]  OBVIOUS
<1>b. PICK g : g = [kind |-> "change", status |-> "finished"]  OBVIOUS
<1>c. /\ f \in Frames /\ f.kind = "complete" /\ f.version = entry.version + 2
      /\ g \in Frames /\ g.kind = "change" /\ g.status = "finished"
  BY <1>a, <1>b, Basics DEF Frames, Completes, Changes, Feed!Statuses, Feed!Over
<1>d. <<f, g>> \in Seq(Frames) /\ Len(<<f, g>>) = 2 /\ <<f, g>>[1] = f /\ <<f, g>>[2] = g
  BY <1>c
<1>e. PICK fs \in Seq(Frames) : fs = <<f, g>> /\ Len(fs) = 2 /\ fs[1] = f /\ fs[2] = g
  BY <1>d, Zenon
<1>f. DOMAIN fs = {1, 2}  BY <1>e
<1>1. /\ web = "telling" /\ web' = "gone" /\ hand["route"] = <<>>
      /\ UNCHANGED <<standing, filed, game, watching, bus, owes, patch, page, hand, stir>>
      /\ IF entry.there
         THEN /\ entry' = [there |-> FALSE, phase |-> "finished", version |-> entry.version + 2]
              /\ Feed!Cast(fs)
         ELSE missed' = missed \cup {"evicted"} /\ UNCHANGED <<entry, feed>>
  BY <1>a, <1>b, <1>e DEF Feed!WebTells, Feed!webOnly, Feed!outside, Feed!CanEvict, Feed!Change, Feed!Miss
<1>2. Ended' = Ended  BY <1>1 DEF Ended
<1>3. Ended  BY <1>1 DEF FeedInv, Certain
<1>4. BusTyped' /\ (BusEnds <=> BusEnds') /\ \A v : BusHas(v) <=> BusHas(v)'
  BY <1>1, <1>2, BusStays
<1>5. Certain'  BY <1>1, <1>2, <1>3 DEF FeedInv, Certain
<1>6. CASE ~entry.there
  <2>1. missed' = missed \cup {"evicted"} /\ UNCHANGED <<entry, feed>>  BY <1>1, <1>6
  <2>2. EntryTyped' /\ entry.version <= entry'.version  BY <2>1, Basics DEF EntryTyped
  <2>3. HandTyped' /\ \A v : HandHas(v) <=> HandHas(v)'  BY <1>1, <2>2, HandStays
  <2>4. Typed'  BY <1>1, <2>1, <2>2, Basics, ServerTypes
  <2>5. missed' # {} /\ ~(missed' \subseteq {"misled"})  BY <2>1
  <2> QED  BY <1>1, <1>2, <1>4, <1>5, <2>1, <2>2, <2>3, <2>4, <2>5, SilentStep
<1>7. CASE entry.there
  <2>1. /\ EntryTyped' /\ entry.version <= entry'.version /\ entry'.version = entry.version + 2
        /\ ~entry'.there
    <3>1. entry.version + 2 \in Nat /\ entry.version + 2 > 0 /\ entry.version <= entry.version + 2
      BY Basics
    <3>2. "finished" \in Feed!Statuses  BY DEF Feed!Statuses, Feed!Over
    <3>3. entry' = [there |-> FALSE, phase |-> "finished", version |-> entry.version + 2]
      BY <1>1, <1>7
    <3>4. entry' \in [there : BOOLEAN, phase : Feed!Statuses \cup {"lobby"}, version : Nat]
      BY <3>1, <3>2, <3>3
    <3> QED  BY <3>1, <3>3, <3>4 DEF EntryTyped
  <2>2. HandTyped' /\ \A v : HandHas(v) <=> HandHas(v)'  BY <1>1, <2>1, HandStays
  <2>a. Feed!Cast(fs)  BY <1>1, <1>7
  <2>b. /\ Prefix /\ missed \subseteq missed' /\ missed' \subseteq missed \cup {"cut"}
        /\ \A i \in 1..Len(feed') : i > Len(feed) =>
              i - Len(feed) \in DOMAIN fs /\ feed'[i] = fs[i - Len(feed)]
        /\ \/ \A k \in DOMAIN fs : /\ Len(feed) + k \in DOMAIN feed'
                                   /\ feed'[Len(feed) + k] = fs[k]
           \/ \A k \in DOMAIN fs : fs[k].kind \in {"scored", "change"} => "cut" \in missed'
    BY <2>a, CastPuts
  <2>c. 2 \in DOMAIN fs /\ fs[2] = g /\ fs[2].kind \in {"scored", "change"}  BY <1>c, <1>e, <1>f
  <2>3. /\ Prefix /\ missed \subseteq missed' /\ missed' \subseteq missed \cup {"cut"}
        /\ \A i \in 1..Len(feed') : i > Len(feed) =>
              i - Len(feed) \in DOMAIN fs /\ feed'[i] = fs[i - Len(feed)]
        /\ \/ Len(feed) + 2 \in DOMAIN feed' /\ feed'[Len(feed) + 2] = g
           \/ "cut" \in missed'
    BY <2>b, <2>c
  <2>4. Typed'  BY <1>1, <2>1, <2>3, Basics, ServerTypes
  <2>5. Reported(f)' /\ Reported(g)'  BY <1>2, <1>3, <1>c, <2>1 DEF Reported, EntryTyped
  <2>6. \A i \in 1..Len(feed') : i > Len(feed) =>
           feed'[i].kind # "snapshot" /\ \E h \in Frames : h = feed'[i] /\ Reported(h)'
    <3> SUFFICES ASSUME NEW i \in 1..Len(feed'), i > Len(feed)
                 PROVE  feed'[i] = f \/ feed'[i] = g
      BY <2>5, <1>c
    <3>1. i - Len(feed) \in {1, 2} /\ feed'[i] = fs[i - Len(feed)]  BY <2>3, <1>f
    <3> QED  BY <3>1, <1>e
  <2>7. missed' = {} => OverKnown'
    <3>1. PICK n : n = Len(feed) + 2  OBVIOUS
    <3>2. missed' = {} => n \in DOMAIN feed' /\ feed'[n] = g  BY <2>3, <3>1
    <3>3. "finished" \in Feed!Over  BY DEF Feed!Over
    <3> QED  BY <1>c, <3>2, <3>3 DEF OverKnown, Ends
  <2> QED  BY <1>1, <1>2, <1>3, <1>4, <1>5, <2>1, <2>2, <2>3, <2>4, <2>6, <2>7, ServerStep
<1> QED  BY <1>6, <1>7

-----------------------------------------------------------------------------
(* The page's steps *)

\* What is not the page's stays.
LEMMA PageOnly ==
  ASSUME FeedInv, UNCHANGED <<standing, filed, game, bus, entry, hand, owes, patch, web>>
  PROVE  /\ Ended' = Ended /\ Certain' /\ BusTyped' /\ HandTyped' /\ EntryTyped' /\ GameTyped'
         /\ (BusEnds <=> BusEnds') /\ (OverComing <=> OverComing')
         /\ \A v : (BusHas(v) <=> BusHas(v)') /\ (HandHas(v) <=> HandHas(v)')
<1>1. Ended' = Ended  BY DEF Ended
<1>2. Certain'  BY <1>1 DEF FeedInv, Certain
<1>3. BusTyped' /\ (BusEnds <=> BusEnds') /\ \A v : BusHas(v) <=> BusHas(v)'
  BY <1>1, BusStays
<1>4. EntryTyped' /\ GameTyped' /\ entry.version <= entry'.version
  BY Basics DEF EntryTyped, GameTyped, FeedInv, Typed
<1>5. HandTyped' /\ \A v : HandHas(v) <=> HandHas(v)'  BY <1>4, Basics, HandStays
<1> QED  BY <1>1, <1>2, <1>3, <1>4, <1>5 DEF OverComing

LEMMA PageTypes ==
  ASSUME FeedInv, UNCHANGED <<standing, filed, game, bus, entry, hand, owes, patch, web>>,
         PageTyped', missed' \subseteq {"lost", "evicted", "cut", "older", "misled"},
         watching' \in BOOLEAN, stir' \in 0..MaxStir
  PROVE  Typed'
BY PageOnly DEF FeedInv, Typed

LEMMA PageFacts ==
  ASSUME FeedInv
  PROVE  /\ page \in [link : {"closed", "reading", "read", "open"}, last : Nat,
                       phase : {"running", "paused", "over"}, log : SUBSET Verdicts,
                       read : SUBSET Verdicts, settled : BOOLEAN]
         /\ page.last \in Nat /\ entry.version \in Nat /\ entry.version > 0
         /\ missed \subseteq {"lost", "evicted", "cut", "older", "misled"}
         /\ filed \subseteq Verdicts /\ watching \in BOOLEAN
         /\ page.log \subseteq filed \cup OfSession /\ page.read \subseteq filed
         /\ (page.link = "read" => page.log \cap filed \subseteq page.read)
         /\ (page.phase = "over" => Ended) /\ (missed = {} => page.last <= entry.version)
         /\ (page.link = "closed" => feed = <<>>)
BY DEF FeedInv, Typed, PageTyped, EntryTyped, PageSound, FeedTyped

LEMMA NothingComes ==
  ASSUME feed = <<>>
  PROVE  /\ ~Changed /\ ~Renewed /\ (OverKnown <=> page.phase = "over") /\ LastIsRight
         /\ (LiveKnown <=> patch.next = "fan" \/ page.phase = Feed!Shown(standing))
         /\ \A v : ~FeedHas(v)
         /\ \A v : Renews(v) => page.link \in {"closed", "reading", "read"} /\ Stale
<1>1. DOMAIN feed = {}  OBVIOUS
<1> QED  BY <1>1 DEF Changed, Renewed, OverKnown, LiveKnown, FeedHas, Renews, LastIsRight

LEMMA NothingComesThen ==
  ASSUME feed' = <<>>
  PROVE  /\ FeedTyped' /\ LastIsRight' /\ (OverKnown' <=> page'.phase = "over")
         /\ (LiveKnown' <=> patch'.next = "fan" \/ page'.phase = Feed!Shown(standing)')
<1>1. DOMAIN feed' = {} /\ feed' \in Seq(Frames)  OBVIOUS
<1> QED  BY <1>1 DEF Changed, Renewed, OverKnown, LiveKnown, LastIsRight, FeedTyped

LEMMA ConnectStep == ASSUME FeedInv, Feed!Connect PROVE FeedInv'
<1>1. /\ page.link = "closed" /\ feed' = <<>>
      /\ page' = [page EXCEPT !.link = "reading",
                              !.phase = IF page.last = 0 THEN Feed!Shown(standing) ELSE page.phase]
      /\ missed' = IF entry.version > page.last THEN {} ELSE missed
      /\ UNCHANGED <<standing, filed, game, bus, entry, hand, owes, patch, web, watching, stir>>
  BY DEF Feed!Connect, Feed!pageOnly, Feed!server
<1>2. /\ page'.link = "reading" /\ page'.last = page.last /\ page'.log = page.log
      /\ page'.read = page.read
      /\ page'.phase = IF page.last = 0 THEN Feed!Shown(standing) ELSE page.phase
  BY <1>1, PageFacts
<1>3. /\ Feed!Shown(standing) \in {"running", "paused", "over"}
      /\ Feed!Shown(standing) = "over" => Ended
  BY Basics DEF Feed!Shown, Feed!Statuses, Feed!Over, Ended
<1>4. PageTyped'  BY <1>1, <1>3, PageFacts DEF PageTyped
<1>5. missed' \subseteq {"lost", "evicted", "cut", "older", "misled"} /\ watching' \in BOOLEAN
      /\ stir' \in 0..MaxStir
  BY <1>1, PageFacts, Basics
<1>6. Typed'  BY <1>1, <1>4, <1>5, PageTypes
<1>7. /\ Ended' = Ended /\ Certain' /\ BusTyped' /\ HandTyped'
      /\ (OverComing <=> OverComing')
      /\ \A v : (BusHas(v) <=> BusHas(v)') /\ (HandHas(v) <=> HandHas(v)')
  BY <1>1, PageOnly
<1>8. PageSound'  BY <1>1, <1>2, <1>3, <1>7, PageFacts DEF PageSound
<1>9. feed = <<>>  BY <1>1, PageFacts
<1>10. /\ FeedTyped' /\ LastIsRight' /\ (OverKnown' <=> page'.phase = "over")
       /\ (LiveKnown' <=> patch'.next = "fan" \/ page'.phase = Feed!Shown(standing)')
  BY <1>1, NothingComesThen
<1>11. CASE entry.version > page.last
  <2>1. Stale'  BY <1>1, <1>2, <1>11 DEF Stale
  <2>2. Covered'  BY <1>2, <2>1 DEF Covered, Renews
  <2> QED  BY <1>6, <1>7, <1>8, <1>10, <2>1, <2>2 DEF FeedInv, Led, CacheTold
<1>12. CASE ~(entry.version > page.last)
  <2>1. missed' = missed /\ page.last # 0 /\ page'.phase = page.phase /\ ~Stale
    BY <1>1, <1>2, <1>12, PageFacts DEF Stale
  <2>2. Covered'
    <3> SUFFICES ASSUME missed \subseteq {"misled"}, NEW v \in game.told \cap filed
                 PROVE  v \in page.log \/ BusHas(v) \/ HandHas(v)
      BY <1>1, <1>2, <1>7, <2>1 DEF Covered, OnTheWay
    <3>1. ~FeedHas(v) /\ ~Renews(v)  BY <1>9, <2>1, NothingComes
    <3> QED  BY <3>1 DEF FeedInv, Covered, OnTheWay
  <2>3. /\ (OverKnown <=> page.phase = "over")
        /\ (LiveKnown <=> patch.next = "fan" \/ page.phase = Feed!Shown(standing))
    BY <1>9, NothingComes
  <2>4. Feed!Shown(standing)' = Feed!Shown(standing)  BY <1>1 DEF Feed!Shown
  <2>5. Led'  BY <1>1, <1>7, <1>10, <2>1, <2>3, <2>4 DEF FeedInv, Led
  <2>6. CacheTold'  BY <1>1, <1>7, <1>10, <2>1, <2>3 DEF FeedInv, CacheTold
  <2> QED  BY <1>6, <1>7, <1>8, <1>10, <2>2, <2>5, <2>6 DEF FeedInv
<1> QED  BY <1>11, <1>12

LEMMA ReadActivityStep == ASSUME FeedInv, Feed!ReadActivity PROVE FeedInv'
<1>1. /\ page.link = "reading" /\ page' = [page EXCEPT !.link = "read", !.read = filed]
      /\ UNCHANGED <<standing, filed, game, bus, entry, hand, owes, patch, web, feed, missed,
                     watching, stir>>
  BY DEF Feed!ReadActivity, Feed!pageOnly, Feed!server
<1>2. /\ page'.link = "read" /\ page'.last = page.last /\ page'.log = page.log
      /\ page'.read = filed /\ page'.phase = page.phase
  BY <1>1, PageFacts
<1>3. PageTyped'  BY <1>1, PageFacts DEF PageTyped
<1>4. Typed'  BY <1>1, <1>3, PageFacts, PageTypes, Basics
<1>5. /\ Ended' = Ended /\ Certain' /\ BusTyped' /\ HandTyped'
      /\ (OverComing <=> OverComing')
      /\ \A v : (BusHas(v) <=> BusHas(v)') /\ (HandHas(v) <=> HandHas(v)')
  BY <1>1, PageOnly
<1>6. PageSound'  BY <1>1, <1>2, <1>5, PageFacts DEF PageSound
<1>7. \A i \in DOMAIN feed : feed[i].kind # "snapshot"  BY <1>1 DEF FeedInv, FeedTyped
<1>8. FeedTyped'
  <2>1. \A f : Reported(f) => Reported(f)'  BY <1>1, <1>2, <1>5 DEF Reported
  <2>2. ASSUME NEW i \in DOMAIN feed PROVE Reported(feed[i])'
    <3>1. PICK f : f = feed[i] /\ Reported(f)  BY DEF FeedInv, FeedTyped
    <3> QED  BY <1>1, <2>1, <3>1 DEF Reported
  <2> QED  BY <1>1, <1>2, <1>7, <2>2, Basics DEF FeedTyped
<1>9. (Stale <=> Stale') /\ (OverKnown <=> OverKnown')
      /\ \A v : (FeedHas(v) <=> FeedHas(v)')
  BY <1>1, <1>2 DEF Stale, OverKnown, Ends, Lands, FeedHas
<1>10. Covered'
  <2> SUFFICES ASSUME missed \subseteq {"misled"}, NEW v \in game.told \cap filed,
                      v \notin page.log, ~OnTheWay(v)
               PROVE  Renews(v)'
    BY <1>1, <1>2, <1>5, <1>9 DEF Covered, OnTheWay
  <2>1. Renews(v)  BY DEF FeedInv, Covered
  <2>2. Stale  BY <1>1, <1>7, <2>1 DEF Renews
  <2> QED  BY <1>1, <1>2, <1>9, <2>2 DEF Renews
<1>11. LastIsRight'  BY <1>1, <1>5 DEF FeedInv, LastIsRight
<1>12. LiveKnown <=> LiveKnown'
  BY <1>1, <1>2, <1>7 DEF LiveKnown, Changed, Renewed, Feed!Shown
<1>13. Led' /\ CacheTold'  BY <1>1, <1>5, <1>9, <1>12 DEF FeedInv, Led, CacheTold
<1> QED  BY <1>4, <1>5, <1>6, <1>8, <1>10, <1>11, <1>13 DEF FeedInv

LEMMA DropStep == ASSUME FeedInv, Feed!Drop PROVE FeedInv'
<1>1. /\ page' = [page EXCEPT !.link = "closed", !.read = {}] /\ feed' = <<>>
      /\ watching' = FALSE /\ Feed!Stir /\ page.link # "closed"
      /\ UNCHANGED <<standing, filed, game, bus, entry, hand, owes, patch, web>>
      /\ missed' = missed \/ missed' = missed \cup {"cut"}
      /\ (\E i \in DOMAIN feed : feed[i].kind \in {"scored", "change"}) => "cut" \in missed'
  BY DEF Feed!Drop, Feed!pageOnly, Feed!server, Feed!Linked, Feed!Cut, Feed!Miss, Feed!IsEvent
<1>2. /\ page'.link = "closed" /\ page'.last = page.last /\ page'.log = page.log
      /\ page'.read = {} /\ page'.phase = page.phase
  BY <1>1, PageFacts
<1>3. PageTyped'  BY <1>1, PageFacts DEF PageTyped
<1>4. Typed'  BY <1>1, <1>3, PageFacts, PageTypes, Stirred
<1>5. /\ Ended' = Ended /\ Certain' /\ BusTyped' /\ HandTyped'
      /\ (OverComing <=> OverComing')
      /\ \A v : (BusHas(v) <=> BusHas(v)') /\ (HandHas(v) <=> HandHas(v)')
  BY <1>1, PageOnly
<1>6. PageSound'  BY <1>1, <1>2, <1>5, PageFacts DEF PageSound
<1>7. /\ FeedTyped' /\ LastIsRight' /\ (OverKnown' <=> page'.phase = "over")
      /\ (LiveKnown' <=> patch'.next = "fan" \/ page'.phase = Feed!Shown(standing)')
  BY <1>1, NothingComesThen
<1>8. Stale => Stale'  BY <1>1, <1>2 DEF Stale
<1>9. \A i \in DOMAIN feed : feed[i].kind \in {"complete", "snapshot"} /\ feed[i].version > page.last
                            => Stale'
  <2> SUFFICES ASSUME NEW i \in DOMAIN feed, feed[i].kind \in {"complete", "snapshot"},
                      feed[i].version > page.last
               PROVE  Stale'
    OBVIOUS
  <2>1. PICK f : f = feed[i] /\ Reported(f)  BY DEF FeedInv, FeedTyped
  <2>2. f \in Completes \cup Snapshots /\ f.version <= entry.version /\ f.version > page.last
    BY <2>1 DEF Reported, Frames, InHand, Scores, Plain, Completes, Changes, Snapshots
  <2>3. f.version \in Nat  BY <2>2 DEF Completes, Snapshots
  <2>4. entry.version > page.last  BY <2>2, <2>3, PageFacts
  <2> QED  BY <1>1, <1>2, <2>4 DEF Stale
<1>10. Covered'
  <2> SUFFICES ASSUME missed' \subseteq {"misled"}, NEW v \in game.told \cap filed,
                      v \notin page.log, ~BusHas(v), ~HandHas(v)
               PROVE  Stale'
    BY <1>1, <1>2, <1>5 DEF Covered, OnTheWay, Renews
  <2>1. missed \subseteq {"misled"} /\ ~FeedHas(v)  BY <1>1 DEF FeedHas
  <2>2. Renews(v)  BY <2>1 DEF FeedInv, Covered, OnTheWay
  <2> QED  BY <1>8, <1>9, <2>2 DEF Renews
<1>11. ASSUME missed' = {}, ~Stale'
       PROVE  /\ missed = {} /\ ~Stale /\ ~Changed /\ ~Renewed
              /\ OverKnown => page.phase = "over"
  <2>1. missed = {} /\ ~\E i \in DOMAIN feed : feed[i].kind = "change"  BY <1>1, <1>11
  <2>2. ~\E i \in DOMAIN feed : feed[i].kind \in {"complete", "snapshot"} /\ feed[i].version > page.last
    BY <1>9, <1>11
  <2>3. OverKnown => page.phase = "over"  BY <2>1, <2>2 DEF OverKnown, Ends, Lands
  <2> QED  BY <1>8, <1>11, <2>1, <2>2, <2>3 DEF Changed, Renewed
<1>12. Feed!Shown(standing)' = Feed!Shown(standing)  BY <1>1 DEF Feed!Shown
<1>13. Led'
  <2> SUFFICES ASSUME missed' = {}, ~Stale'
               PROVE  IF Ended THEN page.phase = "over" \/ OverComing
                      ELSE patch.next = "fan" \/ page.phase = Feed!Shown(standing)
    BY <1>1, <1>2, <1>5, <1>7, <1>12 DEF Led
  <2>1. IF Ended THEN OverKnown \/ OverComing ELSE LiveKnown  BY <1>11 DEF FeedInv, Led
  <2> QED  BY <1>11, <2>1 DEF LiveKnown
<1>14. CacheTold'
  <2> SUFFICES ASSUME missed' = {}, ~Stale', entry.there, entry.phase \in Feed!Over
               PROVE  page.phase = "over"
    BY <1>1, <1>2, <1>7 DEF CacheTold
  <2> QED  BY <1>11 DEF FeedInv, CacheTold
<1> QED  BY <1>4, <1>5, <1>6, <1>7, <1>10, <1>13, <1>14 DEF FeedInv

LEMMA RestartStep == ASSUME FeedInv, Feed!Restart PROVE FeedInv'
<1>1. /\ page' = [page EXCEPT !.link = "closed"] /\ feed' = <<>> /\ bus' = <<>>
      /\ watching' = FALSE /\ Feed!Stir /\ UNCHANGED <<standing, filed, game>>
      /\ hand' = [a \in Feed!Senders |-> <<>>] /\ owes' = FALSE /\ patch' = Feed!NoPatch
      /\ web' = "gone" /\ missed' = IF page.last > 0 THEN {"older"} ELSE {}
      /\ entry' = IF standing \in Feed!Over THEN [entry EXCEPT !.there = FALSE]
                  ELSE [there |-> TRUE, version |-> 1,
                        phase |-> IF standing = "running" THEN "running" ELSE "lobby"]
  BY DEF Feed!Restart
<1>2. /\ page'.link = "closed" /\ page'.last = page.last /\ page'.log = page.log
      /\ page'.read = page.read /\ page'.phase = page.phase
  BY <1>1, PageFacts
<1>3. PageTyped'  BY <1>1, PageFacts DEF PageTyped
<1>4. EntryTyped' /\ (entry'.phase \in Feed!Over => entry.phase \in Feed!Over)
  <2>1. CASE standing \in Feed!Over
    BY <1>1, <2>1, Basics DEF EntryTyped
  <2>2. CASE standing \notin Feed!Over
    <3>1. PICK q : q = IF standing = "running" THEN "running" ELSE "lobby"  OBVIOUS
    <3>2. entry' = [there |-> TRUE, version |-> 1, phase |-> q] /\ q \in {"running", "lobby"}
      BY <1>1, <2>2, <3>1
    <3>3. q \in Feed!Statuses \cup {"lobby"} /\ q \notin Feed!Over
      BY <3>2 DEF Feed!Statuses, Feed!Over
    <3> QED  BY <3>2, <3>3 DEF EntryTyped
  <2> QED  BY <2>1, <2>2
<1>5. /\ patch'.next = "none" /\ patch' \in [to : Feed!Statuses, next : {"none", "fan", "cache"}]
      /\ stir' \in 0..MaxStir
  BY <1>1, Stirred DEF Feed!NoPatch, Feed!Statuses
<1>6. /\ hand' \in [Feed!Senders -> Seq(InHand)] /\ \A a \in Feed!Senders : Len(hand'[a]) <= 1
      /\ \A a \in Feed!Senders : hand'[a] = <<>>
  BY <1>1
<1>7. Typed'
  <2>1. GameTyped'  BY <1>1 DEF FeedInv, Typed, GameTyped
  <2> QED  BY <1>1, <1>3, <1>4, <1>5, <1>6, <2>1 DEF FeedInv, Typed
<1>8. Ended' = Ended  BY <1>1 DEF Ended
<1>9. Certain'  BY <1>1, <1>4, <1>5, <1>8 DEF FeedInv, Certain
<1>10. BusTyped'
  <2>1. bus' \in Seq(Events) /\ DOMAIN bus' = {}  BY <1>1
  <2> QED  BY <2>1 DEF BusTyped
<1>11. HandTyped'
  <2>1. "route" \in Feed!Senders  BY DEF Feed!Senders
  <2>2. \A a \in Feed!Senders : DOMAIN hand'[a] = {}  BY <1>6
  <2> QED  BY <1>6, <2>1, <2>2 DEF HandTyped
<1>12. FeedTyped' /\ LastIsRight'  BY <1>1, NothingComesThen
<1>13. missed' = {} \/ ~(missed' \subseteq {"misled"})  BY <1>1
<1>14. missed' = {} => page.last = 0
  <2>1. page.last \in Nat  BY PageFacts
  <2>2. missed' = IF page.last > 0 THEN {"older"} ELSE {}  BY <1>1
  <2> QED  BY <2>1, <2>2
<1>15. entry'.version \in Nat /\ entry'.version > 0  BY <1>4 DEF EntryTyped
<1>16. PageSound'  BY <1>1, <1>2, <1>8, <1>14, <1>15, PageFacts DEF PageSound
<1>17. missed' = {} => Stale'  BY <1>2, <1>14, <1>15 DEF Stale
<1>18. Covered'  BY <1>2, <1>13, <1>17 DEF Covered, Renews
<1> QED  BY <1>7, <1>9, <1>10, <1>11, <1>12, <1>16, <1>17, <1>18 DEF FeedInv, Led, CacheTold

\* The phase that the row has or is about to have is the one to be shown.
LEMMA TruthIs ==
  ASSUME FeedInv
  PROVE  /\ Ended => Feed!Truth = "over"
         /\ ~Ended => Feed!Truth = Feed!Shown(standing) /\ Feed!Shown(standing) \notin {"over", "lobby"}
         /\ \A s \in Feed!Statuses : Feed!Shown(s) = "over" <=> s \in Feed!Over
         /\ Feed!Shown("lobby") = "lobby"
BY Basics DEF Feed!Truth, Feed!Shown, Ended, Feed!Statuses, Feed!Over

LEMMA TakeSnapshotStep == ASSUME FeedInv, Feed!TakeSnapshot PROVE FeedInv'
<1> DEFINE taken == IF entry.version > page.last THEN Feed!Phase(Feed!Shown(entry.phase))
                                                 ELSE page.phase
<1>a. PICK f : f = [kind |-> "snapshot", version |-> entry.version,
                    phase |-> Feed!Shown(entry.phase), log |-> page.read]
  OBVIOUS
<1>1. /\ page.link = "read" /\ page' = [page EXCEPT !.link = "open", !.read = {}]
      /\ feed' = <<f>> \o feed
      /\ missed' = missed \cup {"misled"} \/ (missed' = missed /\ (taken = Feed!Truth \/ Feed!Coming))
      /\ UNCHANGED <<standing, filed, game, bus, entry, hand, owes, patch, web, watching, stir>>
  BY <1>a DEF Feed!TakeSnapshot, Feed!pageOnly, Feed!server, Feed!Miss
<1>2. /\ page'.link = "open" /\ page'.last = page.last /\ page'.log = page.log
      /\ page'.read = {} /\ page'.phase = page.phase
  BY <1>1, PageFacts
<1>3. PageTyped'  BY <1>1, PageFacts DEF PageTyped
<1>4. Typed'
  <2>1. missed' \subseteq {"lost", "evicted", "cut", "older", "misled"}  BY <1>1, PageFacts
  <2> QED  BY <1>1, <1>3, <2>1, PageFacts, PageTypes, Basics
<1>5. /\ Ended' = Ended /\ Certain' /\ BusTyped' /\ HandTyped'
      /\ (OverComing <=> OverComing')
      /\ \A v : (BusHas(v) <=> BusHas(v)') /\ (HandHas(v) <=> HandHas(v)')
  BY <1>1, PageOnly
<1>6. PageSound'  BY <1>1, <1>2, <1>5, PageFacts DEF PageSound
<1>7. /\ f \in Frames /\ f.kind = "snapshot" /\ f.version = entry.version
      /\ f.phase = Feed!Shown(entry.phase) /\ f.log = page.read
  <2>1. Feed!Shown(entry.phase) \in {"running", "paused", "lobby", "over"}
    BY Basics DEF Feed!Shown, Feed!Statuses, Feed!Over
  <2> QED  BY <1>a, <2>1, PageFacts DEF Frames, Snapshots
<1>8. f.phase = "over" <=> entry.phase \in Feed!Over
  BY <1>7, Basics DEF Feed!Shown, Feed!Statuses, Feed!Over
<1>9. Reported(f)'
  <2>1. f.log \subseteq filed /\ page.log \cap filed \subseteq f.log  BY <1>1, <1>7, PageFacts
  <2>2. f.phase = "over" => Ended  BY <1>8, Basics
  <2>3. f.version <= entry.version  BY <1>7, Basics
  <2> QED  BY <1>1, <1>2, <1>5, <1>7, <2>1, <2>2, <2>3 DEF Reported
<1>10. /\ feed' \in Seq(Frames) /\ Len(feed) \in Nat
       /\ 1 \in DOMAIN feed' /\ feed'[1] = f
       /\ \A i \in DOMAIN feed : i + 1 \in DOMAIN feed' /\ feed'[i + 1] = feed[i]
       /\ \A i \in DOMAIN feed' : i = 1 \/ (i - 1 \in DOMAIN feed /\ feed'[i] = feed[i - 1])
       /\ DOMAIN feed = 1..Len(feed)
  <2>1. feed \in Seq(Frames) /\ f \in Frames  BY <1>7, Basics
  <2>2. /\ <<f>> \o feed \in Seq(Frames) /\ Len(feed) \in Nat
        /\ 1 \in DOMAIN (<<f>> \o feed) /\ (<<f>> \o feed)[1] = f
        /\ \A i \in DOMAIN feed : i + 1 \in DOMAIN (<<f>> \o feed) /\ (<<f>> \o feed)[i + 1] = feed[i]
        /\ \A i \in DOMAIN (<<f>> \o feed) :
              i = 1 \/ (i - 1 \in DOMAIN feed /\ (<<f>> \o feed)[i] = feed[i - 1])
    BY <2>1, Consed
  <2> QED  BY <1>1, <2>1, <2>2
<1>11. \A i \in DOMAIN feed : feed[i].kind # "snapshot"  BY <1>1 DEF FeedInv, FeedTyped
<1>12. FeedTyped'
  <2>1. \A g : Reported(g) /\ g.kind # "snapshot" => Reported(g)'
    BY <1>1, <1>5 DEF Reported
  <2>2. ASSUME NEW i \in DOMAIN feed' PROVE Reported(feed[i])'
    <3>1. PICK g : g = feed'[i]  OBVIOUS
    <3>2. Reported(g)'
      <4>1. CASE i = 1  BY <1>9, <1>10, <3>1, <4>1
      <4>2. CASE i # 1
        <5>1. PICK j \in DOMAIN feed : g = feed[j]  BY <1>10, <3>1, <4>2
        <5>2. Reported(feed[j])  BY DEF FeedInv, FeedTyped
        <5>3. Reported(g) /\ g.kind # "snapshot"
          <6>1. PICK h : h = feed[j] /\ Reported(h)  BY <5>2
          <6> QED  BY <1>11, <5>1, <6>1
        <5> QED  BY <2>1, <5>3
      <4> QED  BY <4>1, <4>2
    <3> QED  BY <3>1, <3>2 DEF Reported
  <2>3. \A i \in DOMAIN feed' : feed'[i].kind = "snapshot" => i = 1
    BY <1>10, <1>11
  <2> QED  BY <1>2, <1>10, <2>2, <2>3 DEF FeedTyped
<1>13. \A v : FeedHas(v) => FeedHas(v)'
  <2> SUFFICES ASSUME NEW v, NEW i \in DOMAIN feed, feed[i].kind = "scored", feed[i].verdict = v
               PROVE  FeedHas(v)'
    BY DEF FeedHas
  <2>1. i + 1 \in DOMAIN feed' /\ feed'[i + 1] = feed[i]  BY <1>10
  <2> QED  BY <2>1 DEF FeedHas
<1>14. missed' \subseteq {"misled"} => missed \subseteq {"misled"}  BY <1>1
<1>15. Covered'
  <2> SUFFICES ASSUME missed' \subseteq {"misled"}, NEW v \in game.told \cap filed,
                      v \notin page.log, ~OnTheWay(v)
               PROVE  Renews(v)'
    BY <1>1, <1>2, <1>5, <1>13 DEF Covered, OnTheWay
  <2>1. Renews(v)  BY <1>14 DEF FeedInv, Covered
  <2>2. Stale /\ v \in page.read  BY <1>1, <1>11, <2>1 DEF Renews
  <2>3. f.version > page.last /\ v \in f.log  BY <1>7, <2>2 DEF Stale
  <2> QED  BY <1>2, <1>7, <1>10, <2>3 DEF Renews
<1>16. LastIsRight'
  <2> SUFFICES ASSUME missed' = {}, ~Ended, patch.next # "fan",
                      NEW i \in DOMAIN feed', feed'[i].kind = "change", feed'[i].status # standing
               PROVE  \E j \in DOMAIN feed' : j > i /\ feed'[j].kind = "change"
    BY <1>1, <1>5 DEF LastIsRight
  <2>0. missed = {}  BY <1>1
  <2>1. i # 1  BY <1>7, <1>10
  <2>2. PICK k \in DOMAIN feed : k = i - 1 /\ feed'[i] = feed[k]  BY <1>10, <2>1
  <2>3. PICK j \in DOMAIN feed : j > k /\ feed[j].kind = "change"
    BY <2>0, <2>2 DEF FeedInv, LastIsRight
  <2>4. j + 1 \in DOMAIN feed' /\ feed'[j + 1] = feed[j]  BY <1>10
  <2>5. i \in Nat /\ j \in Nat /\ k \in Nat  BY <1>10, <2>2
  <2>6. j + 1 > i  BY <2>2, <2>3, <2>5
  <2> QED  BY <2>3, <2>4, <2>6
<1>17. entry.version > page.last => Lands(1)'
  <2>1. \A j \in 1..(1 - 1) : FALSE  OBVIOUS
  <2> QED  BY <1>2, <1>7, <1>10, <2>1 DEF Lands
<1>18. entry.version > page.last /\ entry.phase \in Feed!Over => OverKnown'
  BY <1>7, <1>8, <1>10, <1>17 DEF OverKnown, Ends
<1>19. ASSUME NEW i \in DOMAIN feed, feed[i].kind = "change"
       PROVE  Changed' /\ (feed[i].status \in Feed!Over => OverKnown')
  <2>1. i + 1 \in DOMAIN feed' /\ feed'[i + 1] = feed[i]  BY <1>10
  <2> QED  BY <1>19, <2>1 DEF Changed, OverKnown, Ends
<1>20. Led'
  <2> SUFFICES ASSUME missed' = {}
               PROVE  IF Ended THEN OverKnown' \/ OverComing ELSE LiveKnown'
    BY <1>5 DEF Led
  <2>1. missed = {} /\ (taken = Feed!Truth \/ Feed!Coming)  BY <1>1
  <2>2. CASE Ended
    <3>0. Feed!Truth = "over"  BY <2>2, TruthIs
    <3>1. CASE taken = Feed!Truth
      <4>1. CASE page.phase = "over"  BY <1>2, <2>2, <4>1 DEF OverKnown
      <4>2. CASE page.phase # "over"
        <5>1. entry.version > page.last /\ Feed!Phase(Feed!Shown(entry.phase)) = "over"
          BY <3>0, <3>1, <4>2
        <5>2. Feed!Shown(entry.phase) = "over"  BY <4>2, <5>1 DEF Feed!Phase
        <5> QED  BY <1>7, <1>8, <1>18, <2>2, <5>1, <5>2
      <4> QED  BY <4>1, <4>2
    <3>2. CASE Feed!Coming
      <4>1. CASE patch.next = "fan" /\ Feed!Shown(patch.to) = "over"
        <5>1. patch.to \in Feed!Over  BY <4>1, TruthIs, Basics
        <5> QED  BY <2>2, <4>1, <5>1 DEF OverComing
      <4>2. CASE \/ web = "telling" \/ game.sweeping
                 \/ \E i \in DOMAIN bus : bus[i].kind = "status"
        BY <2>2, <4>2 DEF OverComing, BusEnds
      <4>3. CASE \E i \in DOMAIN feed : feed[i].kind = "change" /\ Feed!Shown(feed[i].status) = "over"
        <5>1. PICK i \in DOMAIN feed : feed[i].kind = "change" /\ Feed!Shown(feed[i].status) = "over"
          BY <4>3
        <5>2. PICK g : g = feed[i] /\ Reported(g)  BY DEF FeedInv, FeedTyped
        <5>3. g.status \in Feed!Statuses
          BY <5>1, <5>2 DEF Reported, Frames, InHand, Scores, Plain, Completes, Changes, Snapshots
        <5>4. feed[i].status \in Feed!Over  BY <5>1, <5>2, <5>3, TruthIs
        <5> QED  BY <1>19, <2>2, <5>1, <5>4
      <4> QED  BY <3>0, <3>2, <4>1, <4>2, <4>3 DEF Feed!Coming
    <3> QED  BY <2>1, <3>1, <3>2
  <2>3. CASE ~Ended
    <3>0. /\ Feed!Truth = Feed!Shown(standing) /\ Feed!Shown(standing)' = Feed!Shown(standing)
      BY <1>1, <2>3, TruthIs DEF Feed!Shown
    <3>1. CASE Changed' \/ patch.next = "fan"  BY <1>1, <2>3, <3>1 DEF LiveKnown
    <3>2. CASE ~Changed' /\ patch.next # "fan"
      <4>1. ~Feed!Coming
        <5>1. web # "telling" /\ ~game.sweeping  BY <2>3 DEF FeedInv, Certain
        <5>2. ~\E i \in DOMAIN bus : bus[i].kind = "status"
          <6> SUFFICES ASSUME NEW i \in DOMAIN bus, bus[i].kind = "status" PROVE FALSE  OBVIOUS
          <6>1. PICK g : g = bus[i] /\ Announced(g)  BY DEF FeedInv, BusTyped
          <6> QED  BY <2>3, <6>1 DEF Announced
        <5>3. ~\E i \in DOMAIN feed : feed[i].kind = "change"  BY <1>19, <3>2
        <5> QED  BY <3>2, <5>1, <5>2, <5>3 DEF Feed!Coming
      <4>2. taken = Feed!Shown(standing)  BY <2>1, <3>0, <4>1
      <4>3. Feed!Phase(f.phase)' = Feed!Phase(f.phase)  BY <1>2 DEF Feed!Phase
      <4>4. \A i \in DOMAIN feed' : feed'[i].kind = "snapshot" => i = 1  BY <1>10, <1>11
      <4>5. CASE entry.version > page.last
        <5>1. Feed!Phase(f.phase)' = Feed!Shown(standing)'  BY <1>7, <3>0, <4>2, <4>3, <4>5
        <5>2. Renewed'  BY <1>2, <1>7, <1>10, <4>5 DEF Renewed
        <5>3. \A i \in DOMAIN feed' : feed'[i].kind = "snapshot" /\ feed'[i].version > page'.last =>
                                        Feed!Phase(feed[i].phase)' = Feed!Shown(standing)'
          <6> SUFFICES ASSUME NEW i \in DOMAIN feed', feed'[i].kind = "snapshot"
                       PROVE  Feed!Phase(feed[i].phase)' = Feed!Shown(standing)'
            OBVIOUS
          <6>1. feed'[i] = f  BY <1>10, <4>4
          <6> QED  BY <5>1, <6>1 DEF Feed!Phase
        <5> QED  BY <2>3, <3>2, <5>2, <5>3 DEF LiveKnown
      <4>6. CASE ~(entry.version > page.last)
        <5>1. page'.phase = Feed!Shown(standing)'  BY <1>2, <3>0, <4>2, <4>6
        <5>2. \A i \in DOMAIN feed' : feed'[i].kind = "snapshot" => ~(feed'[i].version > page'.last)
          BY <1>2, <1>7, <1>10, <4>4, <4>6
        <5> QED  BY <2>3, <3>2, <5>1, <5>2 DEF LiveKnown
      <4> QED  BY <4>5, <4>6
    <3> QED  BY <3>1, <3>2
  <2> QED  BY <2>2, <2>3
<1>21. CacheTold'
  <2> SUFFICES ASSUME missed' = {}, entry.there, entry.phase \in Feed!Over,
                      ~(entry.version > page.last)
               PROVE  OverKnown'
    BY <1>1, <1>18 DEF CacheTold
  <2>1. missed = {} /\ ~Stale  BY <1>1 DEF Stale
  <2>2. OverKnown  BY <2>1 DEF FeedInv, CacheTold
  <2>3. ASSUME NEW i \in DOMAIN feed, Ends(i)
        PROVE  feed[i].kind = "change" /\ feed[i].status \in Feed!Over
    <3> SUFFICES ASSUME feed[i].kind = "complete", Lands(i) PROVE FALSE
      BY <1>11, <2>3 DEF Ends
    <3>1. PICK g : g = feed[i] /\ Reported(g)  BY DEF FeedInv, FeedTyped
    <3>2. g.version \in Nat /\ g.version <= entry.version /\ g.version > page.last
      BY <3>1 DEF Lands, Reported, Frames, InHand, Scores, Plain, Completes, Changes, Snapshots
    <3>3. page.last \in Nat /\ entry.version \in Nat  BY PageFacts
    <3> QED  BY <3>2, <3>3
  <2>4. CASE page.phase = "over"  BY <1>2, <2>4 DEF OverKnown
  <2>5. CASE \E i \in DOMAIN feed : Ends(i)  BY <1>19, <2>3, <2>5
  <2> QED  BY <2>2, <2>4, <2>5 DEF OverKnown
<1> QED  BY <1>4, <1>5, <1>6, <1>12, <1>15, <1>16, <1>20, <1>21 DEF FeedInv

\* What a page makes of a frame, kind by kind.
LEMMA FrameTaken ==
  ASSUME FeedInv, NEW f \in Frames, page' = IF Feed!Fresh(f) THEN Feed!Applied(f) ELSE page
  PROVE  /\ PageTyped' /\ page'.link = page.link /\ page'.read = page.read
         /\ \/ page'.last = page.last
            \/ f.kind \notin {"scored", "change"} /\ f.version > page.last /\ page'.last = f.version
         /\ f.kind = "scored" => page'.log = page.log \cup {f.verdict}
         /\ f.kind = "snapshot" =>
              \/ page'.log = page.log /\ ~(f.version > page.last) /\ page'.phase = page.phase
              \/ /\ f.version > page.last /\ page'.phase = Feed!Phase(f.phase)
                 /\ page'.log = IF f.log = {} THEN page.log ELSE f.log
         /\ f.kind \notin {"scored", "snapshot"} => page'.log = page.log
         /\ f.kind = "change" => page'.phase = Feed!Phase(Feed!Shown(f.status))
         /\ f.kind = "complete" =>
              page'.phase = IF f.version > page.last THEN "over" ELSE page.phase
         /\ f.kind \notin {"change", "complete", "snapshot"} => page'.phase = page.phase
<1> USE DEF PageTyped, Feed!IsEvent
<1>0. page \in [link : {"closed", "reading", "read", "open"}, last : Nat,
                phase : {"running", "paused", "over"}, log : SUBSET Verdicts,
                read : SUBSET Verdicts, settled : BOOLEAN]
  BY PageFacts
<1>1. CASE f.kind = "scored"
  <2>1. page' = [page EXCEPT !.log = page.log \cup {f.verdict}]
    BY <1>1 DEF Feed!Fresh, Feed!Applied
  <2>2. f.verdict \in Verdicts
    BY <1>1 DEF Frames, InHand, Scores, Plain, Completes, Changes, Snapshots
  <2> QED  BY <1>0, <1>1, <2>1, <2>2
<1>2. CASE f.kind = "change"
  <2>1. page' = [page EXCEPT !.phase = Feed!Phase(Feed!Shown(f.status))]
    BY <1>2 DEF Feed!Fresh, Feed!Applied
  <2>2. f.status \in Feed!Statuses
    BY <1>2 DEF Frames, InHand, Scores, Plain, Completes, Changes, Snapshots
  <2>3. Feed!Phase(Feed!Shown(f.status)) \in {"running", "paused", "over"}
    BY <1>0, <2>2 DEF Feed!Phase, Feed!Shown, Feed!Statuses, Feed!Over
  <2> QED  BY <1>0, <1>2, <2>1, <2>3
<1>3. CASE f.kind \notin {"scored", "change"} /\ ~(f.version > page.last)
  <2>1. page' = page  BY <1>3 DEF Feed!Fresh
  <2> QED  BY <1>0, <1>3, <2>1
<1>4. CASE f.kind \notin {"scored", "change"} /\ f.version > page.last
  <2>0. f.version \in Nat
    BY <1>4 DEF Frames, InHand, Scores, Plain, Completes, Changes, Snapshots
  <2>1. CASE f.kind = "complete"
    <3>1. page' = [[page EXCEPT !.last = f.version] EXCEPT !.phase = "over"]
      BY <1>4, <2>1 DEF Feed!Fresh, Feed!Applied
    <3> QED  BY <1>0, <1>4, <2>0, <2>1, <3>1
  <2>2. CASE f.kind = "settled"
    <3>1. page' = [[page EXCEPT !.last = f.version] EXCEPT !.settled = TRUE]
      BY <1>4, <2>2 DEF Feed!Fresh, Feed!Applied
    <3> QED  BY <1>0, <1>4, <2>0, <2>2, <3>1
  <2>3. CASE f.kind = "snapshot"
    <3>1. PICK l : l = IF f.log = {} THEN page.log ELSE f.log  OBVIOUS
    <3>2. page' = [[page EXCEPT !.last = f.version] EXCEPT !.phase = Feed!Phase(f.phase), !.log = l]
      BY <1>4, <2>3, <3>1, <1>0 DEF Feed!Fresh, Feed!Applied, Feed!Phase
    <3>3. f.log \subseteq Verdicts /\ f.phase \in {"running", "paused", "lobby", "over"}
      BY <2>3 DEF Frames, InHand, Scores, Plain, Completes, Changes, Snapshots
    <3>4. Feed!Phase(f.phase) \in {"running", "paused", "over"} /\ l \subseteq Verdicts
      BY <1>0, <3>1, <3>3 DEF Feed!Phase
    <3> QED  BY <1>0, <1>4, <2>0, <2>3, <3>1, <3>2, <3>4
  <2>4. CASE f.kind \notin {"complete", "settled", "snapshot"}
    <3>1. page' = [page EXCEPT !.last = f.version]
      BY <1>4, <2>4 DEF Feed!Fresh, Feed!Applied
    <3> QED  BY <1>0, <1>4, <2>0, <2>4, <3>1
  <2> QED  BY <2>1, <2>2, <2>3, <2>4
<1> QED  BY <1>1, <1>2, <1>3, <1>4

LEMMA TakeFrameStep == ASSUME FeedInv, Feed!TakeFrame PROVE FeedInv'
<1>1. /\ page.link = "open" /\ feed # <<>> /\ feed' = Tail(feed)
      /\ page' = IF Feed!Fresh(Head(feed)) THEN Feed!Applied(Head(feed)) ELSE page
      /\ UNCHANGED <<standing, filed, game, bus, entry, hand, owes, patch, web, missed, watching, stir>>
  BY DEF Feed!TakeFrame, Feed!pageOnly, Feed!server
<1>2. /\ feed' \in Seq(Frames) /\ Head(feed) = feed[1] /\ 1 \in DOMAIN feed
      /\ \A i \in DOMAIN feed' : i + 1 \in DOMAIN feed /\ feed'[i] = feed[i + 1] /\ i \in Nat \ {0}
      /\ \A i \in DOMAIN feed : i \in Nat
                               /\ (i = 1 \/ (i - 1 \in DOMAIN feed' /\ feed'[i - 1] = feed[i]))
  <2>1. feed \in Seq(Frames) /\ feed # <<>>  BY <1>1, Basics
  <2>2. /\ Tail(feed) \in Seq(Frames) /\ Len(feed) \in Nat /\ Len(Tail(feed)) = Len(feed) - 1
        /\ Head(feed) = feed[1] /\ 1 \in DOMAIN feed
        /\ \A i \in DOMAIN Tail(feed) : i + 1 \in DOMAIN feed /\ Tail(feed)[i] = feed[i + 1]
        /\ \A i \in DOMAIN feed : i = 1 \/ (i - 1 \in DOMAIN Tail(feed) /\ Tail(feed)[i - 1] = feed[i])
    BY <2>1, TailOf
  <2>3. DOMAIN feed = 1..Len(feed) /\ DOMAIN Tail(feed) = 1..Len(Tail(feed))
    BY <2>1, <2>2
  <2> QED  BY <1>1, <2>2, <2>3
<1>3. PICK f : f = feed[1] /\ Reported(f)  BY <1>2 DEF FeedInv, FeedTyped
<1>4. f \in Frames  BY <1>3 DEF Reported
<1>5. page' = IF Feed!Fresh(f) THEN Feed!Applied(f) ELSE page  BY <1>1, <1>2, <1>3
<1>6. /\ PageTyped' /\ page'.link = "open" /\ page'.read = page.read
      /\ \/ page'.last = page.last
         \/ f.kind \notin {"scored", "change"} /\ f.version > page.last /\ page'.last = f.version
      /\ f.kind = "scored" => page'.log = page.log \cup {f.verdict}
      /\ f.kind = "snapshot" =>
           \/ page'.log = page.log /\ ~(f.version > page.last) /\ page'.phase = page.phase
           \/ /\ f.version > page.last /\ page'.phase = Feed!Phase(f.phase)
              /\ page'.log = IF f.log = {} THEN page.log ELSE f.log
      /\ f.kind \notin {"scored", "snapshot"} => page'.log = page.log
      /\ f.kind = "change" => page'.phase = Feed!Phase(Feed!Shown(f.status))
      /\ f.kind = "complete" =>
           page'.phase = IF f.version > page.last THEN "over" ELSE page.phase
      /\ f.kind \notin {"change", "complete", "snapshot"} => page'.phase = page.phase
  BY <1>1, <1>4, <1>5, FrameTaken
<1>7. Typed'  BY <1>1, <1>6, PageFacts, PageTypes, Basics
<1>8. /\ Ended' = Ended /\ Certain' /\ BusTyped' /\ HandTyped'
      /\ (OverComing <=> OverComing')
      /\ \A v : (BusHas(v) <=> BusHas(v)') /\ (HandHas(v) <=> HandHas(v)')
  BY <1>1, PageOnly
<1>9. f.kind = "scored" => f.verdict \in filed \cup OfSession
  BY <1>3 DEF Reported, FeedInv, Certain
<1>10. f.kind = "snapshot" => f.log \subseteq filed /\ page.log \cap filed \subseteq f.log
  BY <1>3 DEF Reported
<1>11. page.log \cap filed \subseteq page'.log /\ page'.log \subseteq filed \cup OfSession
  <2>1. page.log \subseteq filed \cup OfSession  BY PageFacts
  <2>2. CASE f.kind = "scored"  BY <1>6, <1>9, <2>1, <2>2
  <2>3. CASE f.kind = "snapshot"  BY <1>6, <1>10, <2>1, <2>3
  <2> QED  BY <1>6, <2>1, <2>2, <2>3
<1>12. f.kind = "change" => f.status \in Feed!Statuses
  BY <1>4 DEF Frames, InHand, Scores, Plain, Completes, Changes, Snapshots
<1>13. f.kind = "snapshot" => f.phase \in {"running", "paused", "lobby", "over"}
  BY <1>4 DEF Frames, InHand, Scores, Plain, Completes, Changes, Snapshots
<1>14. f.kind \notin {"change", "scored"} => f.version \in Nat /\ f.version <= entry.version
  BY <1>3, <1>4 DEF Reported, Frames, InHand, Scores, Plain, Completes, Changes, Snapshots
<1>15. page'.phase = "over" => Ended
  <2>1. page.phase = "over" => Ended  BY PageFacts
  <2>2. f.kind = "complete" => Ended  BY <1>3 DEF Reported
  <2>3. f.kind = "change" /\ Feed!Shown(f.status) = "over" => Ended
    BY <1>3, <1>12, TruthIs DEF Reported
  <2>4. f.kind = "snapshot" /\ f.phase = "over" => Ended  BY <1>3 DEF Reported
  <2> QED  BY <1>6, <2>1, <2>2, <2>3, <2>4 DEF Feed!Phase
<1>16. PageSound'
  <2>1. missed = {} => page'.last <= entry.version  BY <1>6, <1>14, PageFacts
  <2>2. page'.read \subseteq filed  BY <1>6, PageFacts
  <2> QED  BY <1>1, <1>6, <1>8, <1>11, <1>15, <2>1, <2>2 DEF PageSound
<1>17. \A i \in DOMAIN feed' : feed'[i].kind # "snapshot"
  <2> SUFFICES ASSUME NEW i \in DOMAIN feed', feed'[i].kind = "snapshot" PROVE FALSE  OBVIOUS
  <2>1. PICK k \in DOMAIN feed : k = i + 1 /\ feed[k] = feed'[i] /\ i \in Nat \ {0}  BY <1>2
  <2>2. k = 1  BY <2>1 DEF FeedInv, FeedTyped
  <2> QED  BY <2>1, <2>2
<1>18. FeedTyped'
  <2>1. \A g : Reported(g) /\ g.kind # "snapshot" => Reported(g)'  BY <1>1, <1>8 DEF Reported
  <2>2. ASSUME NEW i \in DOMAIN feed' PROVE Reported(feed[i])'
    <3>1. PICK k \in DOMAIN feed : feed[k] = feed'[i]  BY <1>2
    <3>2. PICK g : g = feed[k] /\ Reported(g)  BY DEF FeedInv, FeedTyped
    <3>3. g.kind # "snapshot" /\ feed'[i] = g  BY <1>17, <3>1, <3>2
    <3>4. Reported(g)'  BY <2>1, <3>2, <3>3
    <3> QED  BY <3>3, <3>4 DEF Reported
  <2> QED  BY <1>2, <1>6, <1>17, <2>2 DEF FeedTyped
<1>19. Covered'
  <2> SUFFICES ASSUME missed \subseteq {"misled"}, NEW v \in game.told \cap filed,
                      v \notin page'.log, ~OnTheWay(v)'
               PROVE  FALSE
    BY <1>1 DEF Covered
  <2>1. v \notin page.log /\ ~BusHas(v) /\ ~HandHas(v)  BY <1>8, <1>11 DEF OnTheWay
  <2>2. ~FeedHas(v)
    <3> SUFFICES ASSUME NEW i \in DOMAIN feed, feed[i].kind = "scored", feed[i].verdict = v
                 PROVE  FALSE
      BY DEF FeedHas
    <3>1. CASE i = 1  BY <1>3, <1>6, <3>1
    <3>2. CASE i # 1
      <4>1. PICK k \in DOMAIN feed' : feed'[k] = feed[i]  BY <1>2, <3>2
      <4> QED  BY <4>1 DEF OnTheWay, FeedHas
    <3> QED  BY <3>1, <3>2
  <2>3. Renews(v)  BY <2>1, <2>2 DEF FeedInv, Covered, OnTheWay
  <2>4. PICK i \in DOMAIN feed : feed[i].kind = "snapshot" /\ v \in feed[i].log
                                  /\ feed[i].version > page.last
    BY <1>1, <2>3 DEF Renews
  <2>5. i = 1  BY <2>4 DEF FeedInv, FeedTyped
  <2> QED  BY <1>3, <1>6, <2>4, <2>5
<1>20. LastIsRight'
  <2> SUFFICES ASSUME missed = {}, ~Ended, patch.next # "fan",
                      NEW i \in DOMAIN feed', feed'[i].kind = "change", feed'[i].status # standing
               PROVE  \E j \in DOMAIN feed' : j > i /\ feed'[j].kind = "change"
    BY <1>1, <1>8 DEF LastIsRight
  <2>1. PICK k \in DOMAIN feed : k = i + 1 /\ feed[k] = feed'[i] /\ i \in Nat \ {0}  BY <1>2
  <2>2. PICK j \in DOMAIN feed : j > k /\ feed[j].kind = "change"
    BY <2>1 DEF FeedInv, LastIsRight
  <2>3. j \in Nat /\ j # 1  BY <1>2, <2>1, <2>2
  <2>4. j - 1 \in DOMAIN feed' /\ feed'[j - 1] = feed[j]  BY <1>2, <2>3
  <2>5. j - 1 > i  BY <2>1, <2>2, <2>3
  <2> QED  BY <2>2, <2>4, <2>5
<1>21. page.phase = "over" => page'.phase = "over"  BY <1>6 DEF Feed!Phase
<1>22. ASSUME NEW i \in DOMAIN feed, i # 1, Lands(i)
       PROVE  \E k \in DOMAIN feed' : feed'[k] = feed[i] /\ Lands(k)'
  <2>1. PICK k \in DOMAIN feed' : k = i - 1 /\ feed'[k] = feed[i] /\ i \in Nat  BY <1>2, <1>22
  <2>2. 1 \in 1..(i - 1) /\ k \in Nat \ {0}  BY <1>2, <2>1
  <2>3. feed[i].version > page'.last
    <3>1. feed[1].kind = "change" \/ feed[1].version < feed[i].version  BY <1>22, <2>2 DEF Lands
    <3>2. feed[i].version > page.last  BY <1>22 DEF Lands
    <3> QED  BY <1>3, <1>6, <3>1, <3>2
  <2>4. ASSUME NEW j \in 1..(k - 1)
        PROVE  feed'[j].kind = "change" \/ feed'[j].version < feed[i].version
    <3>1. j \in DOMAIN feed' /\ feed'[j] = feed[j + 1]
      <4>1. k \in 1..Len(feed') /\ Len(feed') \in Nat  BY <1>2
      <4>2. j \in 1..Len(feed')  BY <2>2, <4>1
      <4> QED  BY <1>2, <4>2
    <3>2. j + 1 \in 1..(i - 1)  BY <2>1, <2>2
    <3> QED  BY <1>22, <3>1, <3>2 DEF Lands
  <2> QED  BY <2>1, <2>3, <2>4 DEF Lands
<1>23. OverKnown => OverKnown'
  <2> SUFFICES ASSUME NEW i \in DOMAIN feed, Ends(i) PROVE OverKnown'
    BY <1>21 DEF OverKnown
  <2>1. CASE i = 1
    <3>1. CASE f.kind = "change" /\ f.status \in Feed!Over
      <4>1. Feed!Shown(f.status) = "over"  BY <3>1 DEF Feed!Shown
      <4> QED  BY <1>6, <3>1, <4>1 DEF Feed!Phase, OverKnown
    <3>2. CASE f.kind = "complete" /\ f.version > page.last  BY <1>6, <3>2 DEF OverKnown
    <3>3. CASE f.kind = "snapshot" /\ f.phase = "over" /\ f.version > page.last
      BY <1>6, <3>3 DEF Feed!Phase, OverKnown
    <3> QED  BY <1>3, <2>1, <3>1, <3>2, <3>3 DEF Ends, Lands
  <2>2. CASE i # 1
    <3>1. CASE feed[i].kind = "change" /\ feed[i].status \in Feed!Over
      <4>1. PICK k \in DOMAIN feed' : feed'[k] = feed[i]  BY <1>2, <2>2
      <4> QED  BY <3>1, <4>1 DEF OverKnown, Ends
    <3>2. CASE Lands(i) /\ feed[i].kind = "complete"
      <4>1. PICK k \in DOMAIN feed' : feed'[k] = feed[i] /\ Lands(k)'  BY <1>22, <2>2, <3>2
      <4> QED  BY <3>2, <4>1 DEF OverKnown, Ends
    <3>3. CASE feed[i].kind = "snapshot"  BY <2>2, <3>3 DEF FeedInv, FeedTyped
    <3> QED  BY <3>1, <3>2, <3>3 DEF Ends
  <2> QED  BY <2>1, <2>2
<1>24. ASSUME missed = {}, ~Ended, LiveKnown PROVE LiveKnown'
  <2>1. CASE patch.next = "fan" \/ Changed'  BY <1>1, <2>1 DEF LiveKnown
  <2>2. CASE patch.next # "fan" /\ ~Changed'
    <3>0. /\ Feed!Shown(standing)' = Feed!Shown(standing) /\ page.phase # "over"
          /\ Feed!Shown(standing) \notin {"over", "lobby"}
      BY <1>1, <1>24, TruthIs, PageFacts DEF Feed!Shown
    <3>1. \A i \in DOMAIN feed : feed[i].kind = "change" => i = 1
      <4> SUFFICES ASSUME NEW i \in DOMAIN feed, feed[i].kind = "change", i # 1 PROVE FALSE
        OBVIOUS
      <4>1. PICK k \in DOMAIN feed' : feed'[k] = feed[i]  BY <1>2
      <4> QED  BY <2>2, <4>1 DEF Changed
    <3>2. page'.phase = Feed!Shown(standing)
      <4>1. CASE f.kind = "change"
        <5>1. f.status = standing
          BY <1>2, <1>3, <1>24, <2>2, <3>1, <4>1 DEF FeedInv, LastIsRight
        <5> QED  BY <1>6, <3>0, <4>1, <5>1 DEF Feed!Phase
      <4>2. CASE f.kind # "change"
        <5>1. ~Changed  BY <1>3, <3>1, <4>2 DEF Changed
        <5>2. CASE f.kind = "snapshot" /\ f.version > page.last
          <6>1. Feed!Phase(f.phase) = Feed!Shown(standing)
            BY <1>2, <1>3, <1>24, <2>2, <5>1, <5>2 DEF LiveKnown
          <6> QED  BY <1>6, <5>2, <6>1
        <5>3. CASE ~(f.kind = "snapshot" /\ f.version > page.last)
          <6>1. ~Renewed  BY <1>3, <5>3 DEF Renewed, FeedInv, FeedTyped
          <6>2. page.phase = Feed!Shown(standing)  BY <1>24, <2>2, <5>1, <6>1 DEF LiveKnown
          <6>3. f.kind # "complete"  BY <1>3, <1>24 DEF Reported
          <6> QED  BY <1>6, <4>2, <5>3, <6>2, <6>3
        <5> QED  BY <5>2, <5>3
      <4> QED  BY <4>1, <4>2
    <3> QED  BY <1>17, <2>2, <3>0, <3>2 DEF LiveKnown
  <2> QED  BY <2>1, <2>2
<1>25. ~Stale  BY <1>1 DEF Stale
<1>26. Led'
  <2> SUFFICES ASSUME missed = {}
               PROVE  IF Ended THEN OverKnown' \/ OverComing ELSE LiveKnown'
    BY <1>1, <1>8 DEF Led
  <2> QED  BY <1>23, <1>24, <1>25 DEF FeedInv, Led
<1>27. CacheTold'  BY <1>1, <1>23, <1>25 DEF FeedInv, CacheTold
<1> QED  BY <1>7, <1>8, <1>16, <1>18, <1>19, <1>20, <1>26, <1>27 DEF FeedInv

-----------------------------------------------------------------------------
(* All together *)

LEMMA FeedBegins == Feed!Init => FeedInv
<1> SUFFICES ASSUME Feed!Init PROVE FeedInv  OBVIOUS
<1>1. /\ standing = "running" /\ filed = {} /\ bus = <<>>
      /\ game = [tick |-> "none", ending |-> FALSE, sweeping |-> FALSE, chain |-> FALSE,
                 settled |-> FALSE, told |-> {}]
      /\ entry = [there |-> TRUE, phase |-> "running", version |-> 1]
      /\ hand = [a \in Feed!Senders |-> <<>>] /\ owes = FALSE /\ patch = Feed!NoPatch
      /\ web = "counting"
      /\ page = [link |-> "closed", last |-> 0, phase |-> "running", log |-> {}, read |-> {},
                 settled |-> FALSE]
      /\ feed = <<>> /\ missed = {} /\ watching = FALSE /\ stir = 0
  BY DEF Feed!Init
<1>2. /\ Feed!Statuses = {"running", "paused", "finished", "cancelled"}
      /\ Feed!Over = {"finished", "cancelled"} /\ Feed!Senders = {"route", "web"}
  BY DEF Feed!Statuses, Feed!Over, Feed!Senders
<1>3. GameTyped  BY <1>1 DEF GameTyped
<1>4. EntryTyped /\ PageTyped  BY <1>1, <1>2 DEF EntryTyped, PageTyped
<1>5. hand \in [Feed!Senders -> Seq(InHand)] /\ \A a \in Feed!Senders : hand[a] = <<>>  BY <1>1
<1>6. MaxStir \in Nat  BY PagesAssumption DEF Feed!FeedAssumption
<1>7. patch \in [to : Feed!Statuses, next : {"none", "fan", "cache"}] /\ patch.next = "none"
  BY <1>1, <1>2 DEF Feed!NoPatch
<1>8. Typed
  <2>1. \A a \in Feed!Senders : Len(hand[a]) <= 1  BY <1>5
  <2>2. stir \in 0..MaxStir  BY <1>1, <1>6
  <2> QED  BY <1>1, <1>2, <1>3, <1>4, <1>5, <1>7, <2>1, <2>2 DEF Typed
<1>9. BusTyped /\ FeedTyped
  <2>1. bus \in Seq(Events) /\ DOMAIN bus = {} /\ feed \in Seq(Frames) /\ DOMAIN feed = {}
    BY <1>1
  <2> QED  BY <1>1, <2>1 DEF BusTyped, FeedTyped
<1>10. HandTyped
  <2>1. \A a \in Feed!Senders : DOMAIN hand[a] = {}  BY <1>5
  <2> QED  BY <1>2, <1>5, <2>1 DEF HandTyped
<1>11. Certain  BY <1>1, <1>2, <1>7 DEF Certain
<1>12. PageSound  BY <1>1 DEF PageSound
<1>13. Covered  BY <1>1 DEF Covered
<1>14. LastIsRight  BY <1>1, NothingComes
<1>15. Stale  BY <1>1 DEF Stale
<1> QED  BY <1>8, <1>9, <1>10, <1>11, <1>12, <1>13, <1>14, <1>15 DEF FeedInv, Led, CacheTold

LEMMA FeedRests == ASSUME FeedInv, UNCHANGED frames PROVE FeedInv'
<1>1. UNCHANGED <<standing, filed, game, bus, entry, hand, owes, patch, web, page, feed, missed,
                  watching, stir>>
  BY DEF frames
<1>2. /\ Ended' = Ended /\ Certain' /\ BusTyped' /\ HandTyped' /\ (OverComing <=> OverComing')
      /\ \A v : (BusHas(v) <=> BusHas(v)') /\ (HandHas(v) <=> HandHas(v)')
  BY <1>1, PageOnly
<1>3. PageTyped'  BY <1>1, PageFacts DEF PageTyped
<1>4. Typed'  BY <1>1, <1>3, PageTypes, PageFacts, Basics
<1>5. FeedTyped'
  <2>1. \A f : Reported(f) => Reported(f)'  BY <1>1, <1>2 DEF Reported
  <2>2. ASSUME NEW i \in DOMAIN feed PROVE Reported(feed[i])'
    <3>1. PICK f : f = feed[i] /\ Reported(f)  BY DEF FeedInv, FeedTyped
    <3> QED  BY <1>1, <2>1, <3>1 DEF Reported
  <2> QED  BY <1>1, <2>2 DEF FeedInv, FeedTyped
<1>6. PageSound'  BY <1>1, <1>2 DEF FeedInv, PageSound
<1>7. Covered'
  BY <1>1, <1>2 DEF FeedInv, Covered, OnTheWay, FeedHas, Renews, Stale
<1>8. LastIsRight'  BY <1>1, <1>2 DEF FeedInv, LastIsRight
<1>9. (Stale <=> Stale') /\ (OverKnown <=> OverKnown')
  BY <1>1 DEF Stale, OverKnown, Ends, Lands
<1>10. LiveKnown <=> LiveKnown'
  BY <1>1 DEF LiveKnown, Changed, Renewed, Feed!Shown, Feed!Phase
<1>11. Led' /\ CacheTold'  BY <1>1, <1>2, <1>9, <1>10 DEF FeedInv, Led, CacheTold
<1> QED  BY <1>2, <1>4, <1>5, <1>6, <1>7, <1>8, <1>11 DEF FeedInv

LEMMA FeedStep == FeedInv /\ Feed!Next => FeedInv'
<1> SUFFICES ASSUME FeedInv, Feed!Next PROVE FeedInv'  OBVIOUS
<1>1. ASSUME NEW v \in Verdicts, Feed!File(v) \/ Feed!Announce(v) PROVE FeedInv'
  BY <1>1, FileStep, AnnounceStep
<1>2. CASE Feed!TickReads \/ Feed!TickTells  BY <1>2, TickReadsStep, TickTellsStep
<1>3. CASE Feed!Finish \/ Feed!FinishWrites  BY <1>3, FinishStep, FinishWritesStep
<1>4. CASE Feed!Sweep \/ Feed!SweepTells  BY <1>4, SweepStep, SweepTellsStep
<1>5. CASE Feed!Settle \/ Feed!Lose  BY <1>5, SettleStep, LoseStep
<1>6. CASE Feed!Route \/ Feed!Board  BY <1>6, RouteStep, BoardStep
<1>7. ASSUME NEW a \in Feed!Senders, Feed!Send(a) PROVE FeedInv'  BY <1>7, SendStep
<1>8. ASSUME NEW s \in Feed!Statuses, Feed!PatchWrites(s) PROVE FeedInv'
  BY <1>8, PatchWritesStep
<1>9. CASE Feed!PatchFans \/ Feed!PatchCaches  BY <1>9, PatchFansStep, PatchCachesStep
<1>10. CASE Feed!WebTicks \/ Feed!WebExpires  BY <1>10, WebTicksStep, WebExpiresStep
<1>11. CASE Feed!WebSeesEnd \/ Feed!WebTakesOver  BY <1>11, WebSeesEndStep, WebTakesOverStep
<1>12. CASE Feed!WebTells \/ Feed!Restart  BY <1>12, WebTellsStep, RestartStep
<1>13. CASE Feed!Connect \/ Feed!ReadActivity  BY <1>13, ConnectStep, ReadActivityStep
<1>14. CASE Feed!TakeSnapshot \/ Feed!TakeFrame  BY <1>14, TakeSnapshotStep, TakeFrameStep
<1>15. CASE Feed!Drop  BY <1>15, DropStep
<1> QED
  BY <1>1, <1>2, <1>3, <1>4, <1>5, <1>6, <1>7, <1>8, <1>9, <1>10, <1>11, <1>12, <1>13, <1>14,
     <1>15 DEF Feed!Next

LEMMA FeedInvHolds == MCSpec => []FeedInv
<1>1. MCInit => FeedInv  BY FeedBegins DEF MCInit
<1>2. FeedInv /\ [MCNext]_<<part, vars, frames>> => FeedInv'
  <2> SUFFICES ASSUME FeedInv, [MCNext]_<<part, vars, frames>> PROVE FeedInv'  OBVIOUS
  <2>1. CASE Feed!Next  BY <2>1, FeedStep
  <2>2. CASE UNCHANGED frames  BY <2>2, FeedRests
  <2> QED  BY <2>1, <2>2 DEF MCNext
<1> QED  BY <1>1, <1>2, PTL DEF MCSpec

LEMMA NothingIsOnTheWay ==
  ASSUME FeedInv, Feed!Quiet
  PROVE  /\ page.link = "open" /\ feed = <<>> /\ DOMAIN bus = {} /\ ~Stale
         /\ \A v : ~OnTheWay(v) /\ ~Renews(v)
         /\ ~BusEnds /\ ~OverComing /\ ~game.ending /\ patch.next = "none"
         /\ filed \subseteq game.told
<1>1. /\ page.link = "open" /\ feed = <<>> /\ bus = <<>> /\ patch.next = "none"
      /\ \A a \in Feed!Senders : hand[a] = <<>>
      /\ filed \subseteq game.told /\ ~game.ending /\ ~game.sweeping /\ web # "telling"
  BY DEF Feed!Quiet
<1>2. DOMAIN bus = {} /\ DOMAIN feed = {}  BY <1>1
<1>3. hand["route"] = <<>>  BY <1>1 DEF Feed!Senders
<1>4. DOMAIN hand["route"] = {}  BY <1>3
<1> QED
  BY <1>1, <1>2, <1>4 DEF Stale, OnTheWay, BusHas, HandHas, FeedHas, Renews, BusEnds, OverComing

(* When everything that was on its way has arrived, a connected page shows   *)
(* the verdicts that have a row: not one more, and none less, however the    *)
(* row, the event, the subscription, the read of the rows, the snapshot and  *)
(* the frames that the version gate drops were interleaved (judge_queue.rs,  *)
(* zmq_sub.rs, ws/session.rs, ws-session.svelte.ts).                         *)
THEOREM PagesShowTheVerdicts == MCSpec => []VerdictsShown
<1>1. FeedInv => VerdictsShown
  <2> SUFFICES ASSUME FeedInv, Feed!Quiet, missed \subseteq {"misled"}
               PROVE  page.log \ OfSession = filed
    BY DEF VerdictsShown, Feed!VerdictsShown
  <2>1. filed \subseteq page.log
    <3> SUFFICES ASSUME NEW v \in filed PROVE v \in page.log  OBVIOUS
    <3>1. v \in game.told \cap filed /\ ~OnTheWay(v) /\ ~Renews(v)  BY NothingIsOnTheWay
    <3> QED  BY <3>1 DEF FeedInv, Covered
  <2>2. page.log \subseteq filed \cup OfSession  BY PageFacts
  <2>3. filed \cap OfSession = {}  BY DEF FeedInv, Typed
  <2> QED  BY <2>1, <2>2, <2>3
<1> QED  BY <1>1, FeedInvHolds, PTL

(* And it shows the phase that the session's row is in, whichever of the     *)
(* four writers ended the session and in whatever order they wrote the row,  *)
(* changed the cached phase and sent the frame that tells of it.             *)
THEOREM PagesShowThePhase == MCSpec => []PhaseShown
<1>1. FeedInv => PhaseShown
  <2> SUFFICES ASSUME FeedInv, Feed!Quiet, missed = {}
               PROVE  page.phase = Feed!Shown(standing)
    BY DEF PhaseShown, Feed!PhaseShown
  <2>1. /\ feed = <<>> /\ ~Stale /\ ~OverComing /\ ~game.ending /\ patch.next = "none"
    BY NothingIsOnTheWay
  <2>2. /\ OverKnown <=> page.phase = "over"
        /\ LiveKnown <=> patch.next = "fan" \/ page.phase = Feed!Shown(standing)
    BY <2>1, NothingComes
  <2>3. IF Ended THEN OverKnown ELSE LiveKnown  BY <2>1 DEF FeedInv, Led
  <2>4. Ended => Feed!Shown(standing) = "over"  BY <2>1 DEF Ended, Feed!Shown
  <2> QED  BY <2>1, <2>2, <2>3, <2>4
<1> QED  BY <1>1, FeedInvHolds, PTL

=============================================================================
