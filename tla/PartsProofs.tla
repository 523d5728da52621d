----------------------------- MODULE PartsProofs -----------------------------
(***************************************************************************)
(* What holds of the parts that MCParts puts side by side, for every value *)
(* of their constants: the exchange of probes, the meter of judge runs,    *)
(* the rotation of refresh tokens and the push of snapshots.               *)
(***************************************************************************)
EXTENDS MCParts, FiniteSetTheorems, SequenceTheorems, TLAPS

-----------------------------------------------------------------------------
(* The exchange of probes, for every deadline, cadence and window, and      *)
(* however slow commits, commands and dispatches are.                       *)


-----------------------------------------------------------------------------
(* Numbers *)

LEMMA Cadence ==
  /\ Least \in Nat /\ Most \in Nat /\ Least <= Most /\ Growth \in Nat
  /\ \A i \in Nat : /\ Higher(i, Least) \in Nat
                    /\ Backoff(i) \in Least..Most
                    /\ \A now \in BOOLEAN : Delay(i, now) \in Nat
                    /\ Less(i) \in Nat /\ (i > 0 => Less(i) = i - 1)
BY CadenceAssumption DEF Least, Most, Growth, Lower, Higher, Backoff, Delay, Less

-----------------------------------------------------------------------------
(* Frames *)

Written(kind) == Append(up, [kind |-> kind, current |-> behind = 0])

LEMMA StaleFrames ==
  ASSUME NEW s \in Seq(Frames)
  PROVE  /\ Stale(s) \in Seq(Frames) /\ DOMAIN Stale(s) = DOMAIN s
         /\ \A i \in DOMAIN s : ~Stale(s)[i].current
<1>1. /\ DOMAIN s = 1..Len(s) /\ Len(s) \in Nat
      /\ \A i \in 1..Len(s) : s[i] \in Frames
  OBVIOUS
<1>2. \A i \in DOMAIN s : /\ [s[i] EXCEPT !.current = FALSE] \in Frames
                          /\ ~[s[i] EXCEPT !.current = FALSE].current
  BY <1>1 DEF Frames
<1>3. Stale(s) \in [1..Len(s) -> Frames]  BY <1>1, <1>2 DEF Stale
<1>4. Stale(s) \in Seq(Frames)  BY <1>1, <1>3
<1> QED  BY <1>1, <1>2, <1>4 DEF Stale

LEMMA WriteAppends ==
  ASSUME TypeOK, NEW kind \in {"pending", "result", "flag"}, Write(kind)
  PROVE  up' \in Seq(Frames)
<1>1. up \in Seq(Frames) /\ [kind |-> kind, current |-> behind = 0] \in Frames
  BY DEF TypeOK, Frames
<1> QED  BY <1>1 DEF Write

-----------------------------------------------------------------------------
LEMMA TypeInit == Init => TypeOK
<1> SUFFICES ASSUME Init PROVE TypeOK  OBVIOUS
<1>1. up \in Seq(Frames)  BY DEF Init
<1>2. trouble \in 0..MaxTrouble  BY TimesAssumption DEF Init
<1> QED  BY <1>1, <1>2 DEF Init, TypeOK, Busy

LEMMA SettleTyped ==
  ASSUME TypeOK, NEW outcome \in {"answered", "noResponse"}, NEW passed \in BOOLEAN,
         Settle(outcome, passed)
  PROVE  /\ srv' = "sleep" /\ left' \in Nat /\ extended' \in BOOLEAN /\ nudge' \in BOOLEAN
         /\ interval' \in Nat /\ interval' \in Least..Most
         /\ last' \in {"answered", "noResponse"}
<1>1. interval \in Nat /\ nudge \in BOOLEAN /\ extended \in BOOLEAN  BY DEF TypeOK
<1>2. interval' \in Least..Most  BY <1>1, Cadence DEF Settle
<1>3. interval' \in Nat  BY <1>2, Cadence
<1>4. (passed \/ nudge) \in BOOLEAN  BY <1>1
<1>5. left' \in Nat  BY <1>3, <1>4, Cadence DEF Settle
<1> QED  BY <1>1, <1>2, <1>3, <1>5 DEF Settle

LEMMA TypeHandler == TypeOK /\ Handler => TypeOK'
<1> SUFFICES ASSUME TypeOK, Handler PROVE TypeOK'  OBVIOUS
<1> USE DEF server, client
<1>0. up # <<>> => Tail(up) \in Seq(Frames) /\ Head(up) \in Frames
  BY DEF TypeOK
<1>1. CASE Dispatch
  <2>1. up' \in Seq(Frames)  BY <1>1, StaleFrames DEF Dispatch, TypeOK
  <2>2. interval' \in Nat  BY <1>1, Cadence DEF Dispatch, TypeOK
  <2>3. left' \in Nat /\ behind' \in Nat  BY <1>1, TimesAssumption DEF Dispatch, TypeOK
  <2> QED  BY <1>1, <2>1, <2>2, <2>3 DEF Dispatch, TypeOK, Smooth
<1>2. CASE Hear
  <2> DEFINE f == Head(up)
  <2>1. up' \in Seq(Frames) /\ f \in Frames  BY <1>0, <1>2 DEF Hear
  <2>2. UNCHANGED <<cli, cleft, asked, behind, trouble>>  BY <1>2 DEF Hear, Smooth
  <2>3. CASE f.kind = "flag" /\ nudge' = TRUE /\ UNCHANGED <<srv, left, extended, interval, last>>
    BY <2>1, <2>2, <2>3 DEF TypeOK
  <2>4. CASE /\ f.kind = "pending" /\ f.current /\ ~extended
             /\ extended' = TRUE /\ Extend /\ UNCHANGED <<srv, nudge, interval, last>>
    <3>1. left' \in Nat  BY <2>4, TimesAssumption DEF Extend
    <3> QED  BY <2>1, <2>2, <2>4, <3>1 DEF TypeOK
  <2>5. CASE f.kind = "pending" /\ UNCHANGED <<server, last>>
    BY <2>1, <2>2, <2>5 DEF TypeOK
  <2>6. CASE \E passed \in BOOLEAN : Settle("answered", passed)
    <3>1. PICK passed \in BOOLEAN : Settle("answered", passed)  BY <2>6
    <3> QED  BY <2>1, <2>2, <3>1, SettleTyped DEF TypeOK
  <2>7. CASE Settle("noResponse", FALSE)
    BY <2>1, <2>2, <2>7, SettleTyped DEF TypeOK
  <2> QED  BY <1>2, <2>3, <2>4, <2>5, <2>6, <2>7 DEF Hear
<1>3. CASE Timeout
  BY <1>3, SettleTyped DEF Timeout, TypeOK, Smooth
<1>4. ASSUME NextTurn, up' \in Seq(Frames), UNCHANGED <<client, behind>>
      PROVE  TypeOK'
  <2>1. left' \in Nat /\ trouble' \in 0..MaxTrouble
    BY <1>4, TimesAssumption DEF NextTurn, TypeOK, Smooth, Troubled
  <2> QED  BY <1>4, <2>1 DEF NextTurn, TypeOK
<1>5. CASE HearAsleep
  <2>1. up' \in Seq(Frames) /\ UNCHANGED <<client, behind>>  BY <1>0, <1>5 DEF HearAsleep
  <2>2. CASE NextTurn  BY <1>4, <2>1, <2>2
  <2>3. CASE UNCHANGED <<server, last>> /\ Smooth
    BY <2>1, <2>3 DEF TypeOK, Smooth
  <2> QED  BY <1>5, <2>2, <2>3 DEF HearAsleep
<1>6. CASE Wake
  <2>1. up' \in Seq(Frames)  BY <1>6 DEF Wake, TypeOK
  <2> QED  BY <1>4, <1>6, <2>1 DEF Wake
<1> QED  BY <1>1, <1>2, <1>3, <1>5, <1>6 DEF Handler

LEMMA AnswerTyped ==
  ASSUME TypeOK, Answer
  PROVE  up' \in Seq(Frames) /\ asked' \in BOOLEAN /\ cleft' \in Nat /\ cli' \in {"idle", "off"}
<1>1. up' \in Seq(Frames)  BY WriteAppends DEF Answer
<1> QED  BY <1>1 DEF Answer

LEMMA RunTyped ==
  ASSUME TypeOK, Run
  PROVE  cleft' \in Nat /\ cleft' <= Deadline /\ cli' = "run" /\ trouble' \in 0..MaxTrouble
<1>1. Deadline \in Nat /\ RunTimes \subseteq 0..Deadline /\ MaxTrouble \in Nat
  BY TimesAssumption
<1>2. trouble \in 0..MaxTrouble  BY DEF TypeOK
<1>3. CASE cleft' \in RunTimes /\ Smooth  BY <1>1, <1>2, <1>3 DEF Run, Smooth
<1>4. CASE cleft' = Deadline /\ Troubled  BY <1>1, <1>2, <1>4 DEF Run, Troubled
<1> QED  BY <1>3, <1>4 DEF Run

LEMMA TypeClient == TypeOK /\ Client => TypeOK'
<1> SUFFICES ASSUME TypeOK, Client PROVE TypeOK'  OBVIOUS
<1> USE DEF server, Busy
<1>0. ASSUME Troubled PROVE trouble' \in 0..MaxTrouble
  BY <1>0, TimesAssumption DEF Troubled, TypeOK
<1>1. CASE Take
  <2>1. behind' \in Nat /\ cleft' \in Nat /\ trouble' \in 0..MaxTrouble
    <3>1. behind \in Nat /\ behind > 0 /\ behind' = behind - 1 /\ trouble \in 0..MaxTrouble
      BY <1>1 DEF Take, TypeOK
    <3>2. CASE cleft' \in CommitTimes /\ Smooth
      BY <3>1, <3>2, TimesAssumption DEF Smooth
    <3>3. CASE cleft' = SlowCommit /\ Troubled
      BY <1>0, <3>1, <3>3, TimesAssumption
    <3> QED  BY <1>1, <3>2, <3>3 DEF Take
  <2> QED  BY <1>1, <2>1 DEF Take, TypeOK
<1>2. ASSUME Run, UNCHANGED <<asked, up>>, UNCHANGED <<server, behind, last>>
      PROVE  TypeOK'
  BY <1>2, RunTyped DEF TypeOK
<1>3. ASSUME Answer, Smooth, UNCHANGED <<server, behind, last>>
      PROVE  TypeOK'
  BY <1>3, AnswerTyped DEF TypeOK, Smooth
<1>4. CASE Committed
  <2>1. ASSUME Ask, Troubled PROVE TypeOK'
    <3>1. up' \in Seq(Frames)  BY <2>1, WriteAppends DEF Ask
    <3>2. cleft' \in Nat /\ asked' \in BOOLEAN  BY <2>1, TimesAssumption DEF Ask
    <3> QED  BY <1>0, <1>4, <2>1, <3>1, <3>2 DEF Committed, Ask, TypeOK
  <2> QED  BY <1>2, <1>3, <1>4, <2>1 DEF Committed
<1>5. CASE Decide
  BY <1>2, <1>3, <1>5 DEF Decide
<1>6. CASE Finish
  BY <1>3, <1>6 DEF Finish
<1>7. CASE Notice
  BY <1>7 DEF Notice, TypeOK, Smooth
<1>8. CASE Redial
  <2>1. up' \in Seq(Frames)  BY <1>8 DEF Redial
  <2> QED  BY <1>8, <2>1 DEF Redial, TypeOK, Smooth
<1> QED  BY <1>1, <1>4, <1>5, <1>6, <1>7, <1>8 DEF Client

LEMMA TypeStep == TypeOK /\ [Next]_vars => TypeOK'
<1> SUFFICES ASSUME TypeOK, [Next]_vars PROVE TypeOK'  OBVIOUS
<1> USE DEF server, client
<1>1. CASE Handler  BY <1>1, TypeHandler
<1>2. CASE Client  BY <1>2, TypeClient
<1>3. CASE Announce
  <2>1. up' \in Seq(Frames)  BY <1>3, WriteAppends DEF Announce
  <2>2. trouble' \in 0..MaxTrouble
    BY <1>3, TimesAssumption DEF Announce, Troubled, TypeOK
  <2> QED  BY <1>3, <2>1, <2>2 DEF Announce, TypeOK
<1>4. CASE Drop
  <2>1. up' \in Seq(Frames)  BY <1>4 DEF Drop
  <2>2. trouble' \in 0..MaxTrouble
    BY <1>4, TimesAssumption DEF Drop, Troubled, TypeOK
  <2> QED  BY <1>4, <2>1, <2>2 DEF Drop, TypeOK
<1>5. CASE Tick
  <2>1. left' \in Nat /\ cleft' \in Nat  BY <1>5, Cadence DEF Tick, TypeOK
  <2> QED  BY <1>5, <2>1 DEF Tick, TypeOK, Smooth
<1>6. CASE UNCHANGED vars
  BY <1>6 DEF vars, TypeOK
<1> QED  BY <1>1, <1>2, <1>3, <1>4, <1>5, <1>6 DEF Next

(* The clocks, the cadence and the frames on the way have their types; the  *)
(* interval slept for is one the task's bounds allow.                       *)
THEOREM ExchangeTyped == Spec => []TypeOK
BY TypeInit, TypeStep, PTL DEF Spec

-----------------------------------------------------------------------------
(* The inductive invariant of HeardOut.  While the client has not come to   *)
(* the handler's probe, or commits the tree for it, nothing on its way      *)
(* announces a prompt for that probe, and the wait is not extended yet; the *)
(* client's own limits bound what it is in; and once the handler's probe is *)
(* being asked about, either the announcement is on its way or the wait     *)
(* lasts as long as the player and the command may take.                    *)
Announces(f) == f.kind = "pending" /\ f.current
Announced(s) == \E i \in 1..Len(s) : Announces(s[i])

Unasked == behind > 0 \/ cli = "commit" =>
             ~Announced(up) /\ (srv = "wait" => ~extended)

Limited == /\ cli = "run" => cleft <= Deadline
           /\ cli = "ask" /\ asked => cleft <= Window
           /\ cli = "commit" => ~asked

Needed == IF cli = "ask" THEN cleft + Deadline ELSE cleft

Asking == srv = "wait" /\ asked /\ behind = 0 /\ cli \in {"ask", "run"}

Waited == Asking => IF extended THEN left >= Needed ELSE Announced(up)

HInv == TypeOK /\ Unasked /\ Limited /\ Waited

LEMMA AnnouncedTail ==
  ASSUME NEW s \in Seq(Frames), s # <<>>
  PROVE  /\ Announced(Tail(s)) => Announced(s)
         /\ Announced(s) => Announces(Head(s)) \/ Announced(Tail(s))
<1>1. /\ Len(s) \in Nat /\ Len(s) > 0 /\ Len(Tail(s)) = Len(s) - 1
      /\ \A i \in 1..Len(s) - 1 : Tail(s)[i] = s[i + 1]
      /\ Head(s) = s[1]
  BY EmptySeq
<1>2. ASSUME NEW i \in 1..Len(Tail(s)), Announces(Tail(s)[i]) PROVE Announced(s)
  <2>1. i + 1 \in 1..Len(s) /\ s[i + 1] = Tail(s)[i]  BY <1>1
  <2> QED  BY <1>2, <2>1 DEF Announced
<1>3. ASSUME NEW i \in 1..Len(s), Announces(s[i]), i # 1 PROVE Announced(Tail(s))
  <2>1. i - 1 \in 1..Len(Tail(s)) /\ Tail(s)[i - 1] = s[i]  BY <1>1, <1>3
  <2> QED  BY <1>3, <2>1 DEF Announced
<1> QED  BY <1>1, <1>2, <1>3 DEF Announced

LEMMA AnnouncedAppend ==
  ASSUME NEW s \in Seq(Frames), NEW f \in Frames
  PROVE  Announced(Append(s, f)) <=> Announced(s) \/ Announces(f)
<1>1. /\ Len(s) \in Nat /\ Len(Append(s, f)) = Len(s) + 1
      /\ \A i \in 1..Len(s) : Append(s, f)[i] = s[i]
      /\ Append(s, f)[Len(s) + 1] = f
  OBVIOUS
<1>2. 1..(Len(s) + 1) = (1..Len(s)) \cup {Len(s) + 1}  BY <1>1
<1> QED  BY <1>1, <1>2 DEF Announced

LEMMA AnnouncedNone ==
  /\ ~Announced(<<>>)
  /\ \A s \in Seq(Frames) : ~Announced(Stale(s))
<1>1. ~Announced(<<>>)  BY DEF Announced
<1>2. ASSUME NEW s \in Seq(Frames) PROVE ~Announced(Stale(s))
  <2>1. /\ Len(s) \in Nat /\ DOMAIN s = 1..Len(s)
        /\ Len(Stale(s)) \in Nat /\ DOMAIN Stale(s) = 1..Len(Stale(s))
    BY StaleFrames
  <2>2. DOMAIN Stale(s) = DOMAIN s /\ \A i \in DOMAIN s : ~Stale(s)[i].current
    BY StaleFrames
  <2> QED  BY <2>1, <2>2 DEF Announced, Announces
<1> QED  BY <1>1, <1>2

(* What the client writes announces a prompt only if it is one, about the   *)
(* latest probe.                                                            *)
LEMMA AnnouncedWrite ==
  ASSUME TypeOK, NEW kind \in {"pending", "result", "flag"}, Write(kind)
  PROVE  /\ kind # "pending" \/ behind > 0 => (Announced(up)' <=> Announced(up))
         /\ kind = "pending" /\ behind = 0 /\ srv # "gone" => Announced(up)'
<1>0. up \in Seq(Frames) /\ behind \in Nat  BY DEF TypeOK
<1> DEFINE f == [kind |-> kind, current |-> behind = 0]
<1>1. f \in Frames /\ (Announces(f) <=> kind = "pending" /\ behind = 0)
  BY DEF Frames, Announces
<1>2. CASE srv = "gone"  BY <1>2 DEF Write, Announced
<1>3. CASE srv # "gone"
  <2>1. up' = Append(up, f)  BY <1>3 DEF Write
  <2>2. Announced(up') <=> Announced(up) \/ Announces(f)
    BY <1>0, <1>1, <2>1, AnnouncedAppend
  <2>3. Announced(up)' <=> Announced(up')  BY DEF Announced
  <2> QED  BY <1>0, <1>1, <2>2, <2>3
<1> QED  BY <1>2, <1>3

-----------------------------------------------------------------------------
Rest == Unasked /\ Limited /\ Waited

LEMMA RestHandler == HInv /\ Handler => Rest'
<1> SUFFICES ASSUME HInv, Handler PROVE Rest'  OBVIOUS
<1> USE DEF HInv, server, client
<1>0. /\ up \in Seq(Frames) /\ left \in Nat /\ cleft \in Nat /\ behind \in Nat
      /\ Window \in Nat /\ Deadline \in Nat
  BY TimesAssumption DEF TypeOK
<1>t. up # <<>> => /\ Announced(Tail(up)) => Announced(up)
                   /\ Announced(up) => Announces(Head(up)) \/ Announced(Tail(up))
  BY <1>0, AnnouncedTail
<1>1. CASE Dispatch
  <2>1. /\ srv' = "wait" /\ ~extended' /\ behind' = behind + 1 /\ up' = Stale(up)
        /\ cli' = cli /\ cleft' = cleft /\ asked' = asked
    BY <1>1 DEF Dispatch
  <2>2. ~Announced(up')  BY <1>0, <2>1, AnnouncedNone
  <2> QED  BY <1>0, <2>1, <2>2 DEF Rest, Unasked, Limited, Waited, Asking, Announced
<1>2. ASSUME srv' \in {"sleep", "dispatch"}, UNCHANGED <<client, behind>>,
             Announced(up') => Announced(up)
      PROVE  Rest'
  BY <1>2 DEF Rest, Unasked, Limited, Waited, Asking, Announced
<1>3. CASE Hear
  <2> DEFINE f == Head(up)
  <2>1. /\ srv = "wait" /\ up # <<>> /\ up' = Tail(up)
        /\ cli' = cli /\ cleft' = cleft /\ asked' = asked /\ behind' = behind
    BY <1>3 DEF Hear
  <2>2. Announced(up') => Announced(up)  BY <1>t, <2>1
  <2>3. ASSUME ~Announces(f) \/ extended, UNCHANGED <<srv, left, extended>>
        PROVE  Rest'
    <3>1. Unasked'  BY <2>1, <2>2, <2>3 DEF Unasked, Announced
    <3>2. Limited'  BY <2>1 DEF Limited
    <3>3. Waited'
      <4>1. Asking' => Asking  BY <2>1, <2>3 DEF Asking
      <4>2. Needed' = Needed  BY <2>1 DEF Needed
      <4>3. CASE extended
        BY <2>3, <4>1, <4>2, <4>3 DEF Waited
      <4>4. CASE ~extended
        <5>1. Asking => Announced(up')  BY <1>t, <2>1, <2>3, <4>4 DEF Waited
        <5> QED  BY <2>3, <4>1, <4>4, <5>1 DEF Waited, Announced
      <4> QED  BY <4>3, <4>4
    <3> QED  BY <3>1, <3>2, <3>3 DEF Rest
  <2>4. CASE f.kind = "flag" /\ UNCHANGED <<srv, left, extended>>
    BY <2>3, <2>4 DEF Announces
  <2>5. CASE f.kind = "pending" /\ ~(f.current /\ ~extended) /\ UNCHANGED <<server, last>>
    BY <2>3, <2>5 DEF Announces
  <2>6. CASE /\ f.kind = "pending" /\ f.current /\ ~extended
             /\ extended' = TRUE /\ Extend /\ UNCHANGED <<srv, nudge, interval, last>>
    <3>1. up[1] = f /\ 1 \in 1..Len(up)  BY <1>0, <2>1, EmptySeq
    <3>2. Announced(up)  BY <2>6, <3>1 DEF Announced, Announces
    <3>3. Unasked'  BY <2>1, <3>2 DEF Unasked
    <3>4. Limited'  BY <2>1 DEF Limited
    <3>5. Asking' => left' >= Needed'
      BY <1>0, <2>1, <2>6 DEF Asking, Needed, Limited, Extend
    <3> QED  BY <2>6, <3>3, <3>4, <3>5 DEF Rest, Waited
  <2>7. CASE \E outcome \in {"answered", "noResponse"}, passed \in BOOLEAN :
               Settle(outcome, passed)
    <3>1. srv' = "sleep"  BY <2>7 DEF Settle
    <3> QED  BY <1>2, <2>1, <2>2, <3>1
  <2>8. \/ f.kind = "flag" /\ UNCHANGED <<srv, left, extended>>
        \/ /\ f.kind = "pending" /\ f.current /\ ~extended
           /\ extended' = TRUE /\ Extend /\ UNCHANGED <<srv, nudge, interval, last>>
        \/ f.kind = "pending" /\ ~(f.current /\ ~extended) /\ UNCHANGED <<server, last>>
        \/ \E outcome \in {"answered", "noResponse"}, passed \in BOOLEAN :
             Settle(outcome, passed)
    BY <1>3 DEF Hear
  <2> QED  BY <2>4, <2>5, <2>6, <2>7, <2>8
<1>4. CASE Timeout
  BY <1>2, <1>4 DEF Timeout, Settle, Announced
<1>5. CASE HearAsleep
  <2>1. /\ srv = "sleep" /\ up # <<>> /\ up' = Tail(up) /\ UNCHANGED <<client, behind>>
        /\ srv' \in {"sleep", "dispatch"}
    BY <1>5 DEF HearAsleep, NextTurn
  <2> QED  BY <1>2, <1>t, <2>1
<1>6. CASE Wake
  BY <1>2, <1>6 DEF Wake, NextTurn, Announced
<1> QED  BY <1>1, <1>3, <1>4, <1>5, <1>6 DEF Handler

LEMMA RestClient == HInv /\ (Client \/ Announce) => Rest'
<1> SUFFICES ASSUME HInv, Client \/ Announce PROVE Rest'  OBVIOUS
<1> USE DEF HInv, server, client
<1>0. /\ left \in Nat /\ cleft \in Nat /\ behind \in Nat
      /\ Window \in Nat /\ Deadline \in Nat
  BY TimesAssumption DEF TypeOK
<1>1. CASE Take
  BY <1>0, <1>1 DEF Take, Rest, Unasked, Limited, Waited, Asking, Announced
<1>2. ASSUME Run, cli \in {"commit", "ask"}, UNCHANGED <<asked, up>>,
             UNCHANGED <<server, behind, last>>
      PROVE  Rest'
  <2>1. cli' = "run" /\ cleft' \in Nat /\ cleft' <= Deadline  BY <1>2, RunTyped
  <2>2. Unasked'  BY <1>2, <2>1 DEF Unasked, Announced
  <2>3. Limited'  BY <2>1 DEF Limited
  <2>4. ASSUME Asking' PROVE IF extended' THEN left' >= Needed' ELSE Announced(up)'
    <3>1. cli = "ask" /\ Asking  BY <1>2, <2>4 DEF Asking, Limited
    <3>2. IF extended THEN left >= cleft + Deadline ELSE Announced(up)
      BY <3>1 DEF Waited, Needed
    <3> QED  BY <1>0, <1>2, <2>1, <3>2 DEF Needed, Announced
  <2> QED  BY <2>2, <2>3, <2>4 DEF Rest, Waited
<1>3. ASSUME Answer, UNCHANGED <<server, behind, last>>
      PROVE  Rest'
  <2>1. cli' \in {"idle", "off"}  BY <1>3 DEF Answer
  <2>2. Announced(up)' <=> Announced(up)  BY <1>3, AnnouncedWrite DEF Answer
  <2> QED  BY <1>3, <2>1, <2>2 DEF Rest, Unasked, Limited, Waited, Asking
<1>4. CASE Committed
  <2>1. ASSUME Ask PROVE Rest'
    <3>1. /\ cli = "commit" /\ cli' = "ask" /\ asked' = (srv # "gone")
          /\ UNCHANGED <<server, behind, last>> /\ Write("pending")
      BY <1>4, <2>1 DEF Committed, Ask
    <3>2. Unasked'
      <4>1. behind > 0 => (Announced(up)' <=> Announced(up))  BY <3>1, AnnouncedWrite
      <4> QED  BY <3>1, <4>1 DEF Unasked
    <3>3. Limited'
      <4>1. asked' => srv # "gone"  BY <3>1
      <4>2. srv # "gone" => cleft' = Window  BY <2>1 DEF Ask
      <4>3. asked' => cleft' <= Window  BY <1>0, <4>1, <4>2
      <4> QED  BY <3>1, <4>3 DEF Limited
    <3>4. ASSUME Asking' PROVE ~extended' /\ Announced(up)'
      <4>1. behind = 0 /\ srv = "wait"  BY <3>1, <3>4 DEF Asking
      <4>2. Announced(up)'  BY <3>1, <4>1, AnnouncedWrite
      <4> QED  BY <3>1, <4>1, <4>2 DEF Unasked
    <3> QED  BY <3>2, <3>3, <3>4 DEF Rest, Waited
  <2> QED  BY <1>2, <1>3, <1>4, <2>1 DEF Committed
<1>5. CASE Decide
  BY <1>2, <1>3, <1>5 DEF Decide
<1>6. CASE Finish
  BY <1>3, <1>6 DEF Finish
<1>7. CASE Notice
  BY <1>7 DEF Notice, Rest, Unasked, Limited, Waited, Asking, Announced
<1>8. CASE Redial
  BY <1>8 DEF Redial, Rest, Unasked, Limited, Waited, Asking, Announced
<1>9. CASE Announce
  <2>1. Announced(up)' <=> Announced(up)  BY <1>9, AnnouncedWrite DEF Announce
  <2> QED  BY <1>9, <2>1 DEF Announce, Rest, Unasked, Limited, Waited, Asking
<1> QED  BY <1>1, <1>4, <1>5, <1>6, <1>7, <1>8, <1>9 DEF Client

LEMMA HStep == HInv /\ [Next]_vars => HInv'
<1> SUFFICES ASSUME HInv, [Next]_vars PROVE Rest'
  BY TypeStep DEF HInv, Rest
<1> USE DEF HInv, server, client
<1>1. CASE Handler  BY <1>1, RestHandler
<1>2. CASE Client \/ Announce  BY <1>2, RestClient
<1>3. CASE Drop
  <2>1. ~Announced(up')  BY <1>3, AnnouncedNone DEF Drop
  <2> QED  BY <1>3, <2>1 DEF Drop, Rest, Unasked, Limited, Waited, Asking, Announced
<1>4. CASE Tick
  <2>1. /\ left \in Nat /\ cleft \in Nat /\ Window \in Nat /\ Deadline \in Nat
    BY TimesAssumption DEF TypeOK
  <2>2. /\ UNCHANGED <<srv, extended, cli, asked, behind, up>>
        /\ left' = Less(left) /\ cleft' = Less(cleft)
        /\ cli \in {"ask", "run"} => cleft > 0
    BY <1>4 DEF Tick, Busy
  <2>3. srv = "wait" => left > 0  BY <1>4 DEF Tick
  <2>4. /\ cleft' <= cleft /\ cleft' \in Nat /\ left' \in Nat
        /\ cleft > 0 => cleft' = cleft - 1
        /\ left > 0 => left' = left - 1
    BY <2>1, <2>2 DEF Less, Higher
  <2>5. Unasked'  BY <2>2 DEF Unasked, Announced
  <2>6. Limited'  BY <2>1, <2>2, <2>4 DEF Limited
  <2>7. Asking' => Asking  BY <2>2 DEF Asking
  <2>8. Asking => left' - left = Needed' - Needed /\ Needed \in Nat /\ Needed' \in Nat
    BY <2>1, <2>2, <2>3, <2>4 DEF Asking, Needed
  <2>9. Asking /\ left >= Needed => left' >= Needed'
    BY <2>1, <2>4, <2>8
  <2> QED  BY <2>2, <2>5, <2>6, <2>7, <2>9 DEF Rest, Waited, Announced
<1>5. CASE UNCHANGED vars
  BY <1>5 DEF vars, Rest, Unasked, Limited, Waited, Asking, Needed, Announced
<1> QED  BY <1>1, <1>2, <1>3, <1>4, <1>5 DEF Next

LEMMA HInit == Init => HInv
<1> SUFFICES ASSUME Init PROVE HInv  OBVIOUS
<1>1. TypeOK  BY TypeInit
<1> QED  BY <1>1 DEF Init, HInv, Unasked, Limited, Waited, Asking

(* Whatever is slow, broken or announced, the handler never gives a probe   *)
(* up while the player is being asked about it, nor while the command that  *)
(* was allowed has time left (HeardOut).                                    *)
THEOREM PlayersAreHeardOut == Spec => HeardOut
<1>1. Spec => []HInv
  BY HInit, HStep, PTL DEF Spec
<1>2. HInv /\ Timeout => ~(/\ asked /\ behind = 0
                           /\ cli = "ask" \/ (cli = "run" /\ cleft > 0))
  <2> SUFFICES ASSUME HInv, Timeout, asked, behind = 0,
                      cli = "ask" \/ (cli = "run" /\ cleft > 0)
               PROVE  FALSE
    OBVIOUS
  <2>1. srv = "wait" /\ left = 0 /\ up = <<>>  BY DEF Timeout
  <2>2. Asking  BY <2>1 DEF Asking
  <2>3. ~Announced(up)  BY <2>1, AnnouncedNone
  <2>4. left >= Needed  BY <2>2, <2>3 DEF HInv, Waited
  <2>5. Needed > 0  BY TimesAssumption DEF HInv, TypeOK, Needed
  <2>6. Needed \in Nat  BY TimesAssumption DEF HInv, TypeOK, Needed
  <2> QED  BY <2>1, <2>4, <2>5, <2>6
<1>3. HInv => [Timeout => ~(/\ asked /\ behind = 0
                            /\ cli = "ask" \/ (cli = "run" /\ cleft > 0))]_vars
  BY <1>2
<1> QED  BY <1>1, <1>3, PTL DEF HeardOut

-----------------------------------------------------------------------------
(* Each part takes its own steps and is left alone by the others'.          *)

LEMMA MeterPart == MCSpec => Meter!Spec
<1>1. MCInit => Meter!Init  BY DEF MCInit
<1>2. [MCNext]_MCVars => [Meter!Next]_Meter!vars
  BY DEF MCNext, MCVars, meter, Meter!vars, Meter!ledger, Meter!book, Meter!gifts
<1> QED  BY <1>1, <1>2, PTL DEF MCSpec, Meter!Spec

LEMMA TokenPart == MCSpec => Token!Spec
<1>1. MCInit => Token!Init  BY DEF MCInit
<1>2. [MCNext]_MCVars => [Token!Next]_Token!vars
  BY DEF MCNext, MCVars, token, Token!vars
<1> QED  BY <1>1, <1>2, PTL DEF MCSpec, Token!Spec

LEMMA SnapsPart == MCSpec => Snaps!Spec
<1>1. MCInit => Snaps!Init  BY DEF MCInit
<1>2. [MCNext]_MCVars => [Snaps!Next]_Snaps!vars
  BY DEF MCNext, MCVars, snaps, Snaps!vars, Snaps!repos, Snaps!pusher, Snaps!seen
<1> QED  BY <1>1, <1>2, PTL DEF MCSpec, Snaps!Spec

-----------------------------------------------------------------------------
(* The meter, for every number of runs and administrators, every allowance  *)
(* and every sequence of months and grants.                                 *)
-----------------------------------------------------------------------------
(* An instance has copies of its own of what it extends.                    *)
LEMMA SameSize == \A S : Meter!Cardinality(S) = Cardinality(S)
BY DEF Meter!Cardinality, Cardinality

(* The run that takes a step moves from one stage to another.               *)
LEMMA InIsCount ==
  ASSUME Meter!TypeOK, NEW st
  PROVE  /\ Meter!In(st) \in Nat /\ Cardinality(Slots) \in Nat /\ Cardinality(Slots) >= 1
         /\ Meter!In(st) <= Cardinality(Slots)
         /\ IsFiniteSet({r \in Slots : run[r] = st})
<1> DEFINE Own == {r \in Slots : run[r] = st}
<1>1. Own \subseteq Slots  OBVIOUS
<1>2. /\ IsFiniteSet(Own) /\ Cardinality(Own) <= Cardinality(Slots)
  BY <1>1, FS_Subset, QuotaAssumption
<1>3. Cardinality(Own) \in Nat /\ Cardinality(Slots) \in Nat
  BY <1>2, FS_CardinalityType, QuotaAssumption
<1>4. Cardinality(Slots) # 0  BY FS_EmptySet, QuotaAssumption
<1> QED  BY <1>2, <1>3, <1>4, SameSize DEF Meter!In

LEMMA RunMoves ==
  ASSUME Meter!TypeOK, NEW r \in Slots, NEW old, NEW new, run[r] = old, old # new, Meter!Becomes(r, new)
  PROVE  /\ Meter!In(old)' = Meter!In(old) - 1
         /\ Meter!In(new)' = Meter!In(new) + 1
         /\ \A st : st # old /\ st # new => Meter!In(st)' = Meter!In(st)
<1> DEFINE Own(st) == {q \in Slots : run[q] = st}
<1>1. {q \in Slots : run'[q] = old} = Own(old) \ {r}  BY DEF Meter!Becomes, Meter!TypeOK
<1>2. {q \in Slots : run'[q] = new} = Own(new) \cup {r}  BY DEF Meter!Becomes, Meter!TypeOK
<1>3. ASSUME NEW st, st # old, st # new
      PROVE  Meter!In(st)' = Meter!In(st)
  <2>1. {q \in Slots : run'[q] = st} = Own(st)  BY <1>3 DEF Meter!Becomes, Meter!TypeOK
  <2> QED  BY <2>1, SameSize DEF Meter!In
<1>4. r \in Own(old) /\ r \notin Own(new)  OBVIOUS
<1>5. IsFiniteSet(Own(old)) /\ IsFiniteSet(Own(new))  BY InIsCount
<1>6. Cardinality(Own(old) \ {r}) = Cardinality(Own(old)) - 1
  BY <1>4, <1>5, FS_RemoveElement
<1>7. Cardinality(Own(new) \cup {r}) = Cardinality(Own(new)) + 1
  BY <1>4, <1>5, FS_AddElement
<1>8. Meter!In(old)' = Meter!In(old) - 1  BY <1>1, <1>6, SameSize DEF Meter!In
<1>9. Meter!In(new)' = Meter!In(new) + 1  BY <1>2, <1>7, SameSize DEF Meter!In
<1> QED  BY <1>3, <1>8, <1>9

LEMMA RunsStay ==
  ASSUME UNCHANGED run, NEW st
  PROVE  Meter!In(st)' = Meter!In(st)
BY DEF Meter!In

-----------------------------------------------------------------------------
LEMMA MeterInit == Meter!Init => Meter!TypeOK
BY QuotaAssumption DEF Meter!Init, Meter!TypeOK, Meter!Idle

LEMMA MeterStep == Meter!TypeOK /\ [Meter!Next]_Meter!vars => Meter!TypeOK'
<1> SUFFICES ASSUME Meter!TypeOK, [Meter!Next]_Meter!vars PROVE Meter!TypeOK'  OBVIOUS
<1> USE DEF Meter!TypeOK, Meter!Becomes, Meter!ledger, Meter!gifts, Meter!book
<1>1. ASSUME NEW r \in Slots, Meter!Check(r) PROVE Meter!TypeOK'
  BY <1>1 DEF Meter!Check
<1>2. ASSUME NEW r \in Slots, Meter!Spend(r) PROVE Meter!TypeOK'
  BY <1>2 DEF Meter!Spend
<1>3. ASSUME NEW r \in Slots, Meter!Record(r) PROVE Meter!TypeOK'
  BY <1>3 DEF Meter!Record
<1>4. ASSUME NEW a \in Admins, Meter!ReadBalance(a) PROVE Meter!TypeOK'
  BY <1>4 DEF Meter!ReadBalance
<1>5. ASSUME NEW a \in Admins, Meter!Grant(a) PROVE Meter!TypeOK'
  <2>1. request[a] \in Nat  BY <1>5 DEF Meter!Grant
  <2>2. PICK delta \in Grants \ {0} :
          IF request[a] + delta < 0
            THEN UNCHANGED <<credits, Meter!gifts>>
            ELSE /\ credits' = request[a] + delta
                 /\ granted' = granted + delta /\ grants' = grants + 1
                 /\ clean' = (clean /\ request[a] = credits)
    BY <1>5 DEF Meter!Grant
  <2>3. delta \in Int  BY QuotaAssumption
  <2>4. grants < MaxGrants /\ MaxGrants \in Nat  BY <1>5, QuotaAssumption DEF Meter!Grant
  <2>5. request' \in [Admins -> Nat \cup {Meter!Idle}]  BY <1>5 DEF Meter!Grant
  <2>6. credits' \in Nat /\ granted' \in Int /\ grants' \in 0..MaxGrants
    BY <2>1, <2>2, <2>3, <2>4
  <2>7. clean' \in BOOLEAN  BY <2>2
  <2> QED  BY <1>5, <2>5, <2>6, <2>7 DEF Meter!Grant
<1>6. CASE Meter!NewMonth  BY <1>6 DEF Meter!NewMonth
<1>7. CASE UNCHANGED Meter!vars  BY <1>7 DEF Meter!vars
<1> QED  BY <1>1, <1>2, <1>3, <1>4, <1>5, <1>6, <1>7 DEF Meter!Next

(* The rows, the balances and the requests of the account have their types. *)
THEOREM MeterTyped == Meter!Spec => []Meter!TypeOK
BY MeterInit, MeterStep, PTL DEF Meter!Spec

-----------------------------------------------------------------------------
LEMMA BalanceStep == Meter!TypeOK /\ Meter!Balanced /\ [Meter!Next]_Meter!vars => Meter!Balanced'
<1> SUFFICES ASSUME Meter!TypeOK, Meter!Balanced, [Meter!Next]_Meter!vars PROVE Meter!Balanced'  OBVIOUS
<1> USE DEF Meter!TypeOK, Meter!ledger, Meter!gifts, Meter!book
<1>0. Meter!In("spent") \in Nat /\ credits \in Nat /\ paid \in Nat /\ lost \in Nat /\ granted \in Int
  BY InIsCount
<1>1. ASSUME NEW r \in Slots, Meter!Check(r) PROVE Meter!Balanced'
  <2>1. Meter!In("spent")' = Meter!In("spent")  BY <1>1, RunMoves DEF Meter!Check
  <2> QED  BY <1>1, <2>1 DEF Meter!Check, Meter!Balanced
<1>2. ASSUME NEW r \in Slots, Meter!Spend(r) PROVE Meter!Balanced'
  <2>1. CASE credits > 0
    <3>1. Meter!In("spent")' = Meter!In("spent") + 1  BY <1>2, <2>1, RunMoves DEF Meter!Spend
    <3> QED  BY <1>0, <1>2, <2>1, <3>1 DEF Meter!Spend, Meter!Balanced
  <2>2. CASE ~(credits > 0)
    <3>1. Meter!In("spent")' = Meter!In("spent")  BY <1>2, <2>2, RunMoves DEF Meter!Spend
    <3> QED  BY <1>2, <2>2, <3>1 DEF Meter!Spend, Meter!Balanced
  <2> QED  BY <2>1, <2>2
<1>3. ASSUME NEW r \in Slots, Meter!Record(r) PROVE Meter!Balanced'
  <2>1. CASE run[r] = "charging"
    <3>1. Meter!In("spent")' = Meter!In("spent")  BY <1>3, <2>1, RunMoves DEF Meter!Record
    <3>2. paid' = paid /\ lost' = lost  BY <1>3, <2>1 DEF Meter!Record
    <3> QED  BY <1>3, <3>1, <3>2 DEF Meter!Record, Meter!Balanced
  <2>2. CASE run[r] = "spent"
    <3>1. Meter!In("spent")' = Meter!In("spent") - 1  BY <1>3, <2>2, RunMoves DEF Meter!Record
    <3>2. credits' = credits /\ granted' = granted /\ clean' = clean
      BY <1>3 DEF Meter!Record
    <3>3. CASE paid' = paid + 1 /\ lost' = lost
      BY <1>0, <3>1, <3>2, <3>3 DEF Meter!Balanced
    <3>4. CASE paid' = paid /\ lost' = lost + 1
      BY <1>0, <3>1, <3>2, <3>4 DEF Meter!Balanced
    <3> QED  BY <1>3, <2>2, <3>3, <3>4 DEF Meter!Record
  <2> QED  BY <1>3, <2>1, <2>2 DEF Meter!Record
<1>4. ASSUME NEW a \in Admins, Meter!ReadBalance(a) PROVE Meter!Balanced'
  BY <1>4, RunsStay DEF Meter!ReadBalance, Meter!Balanced
<1>5. ASSUME NEW a \in Admins, Meter!Grant(a) PROVE Meter!Balanced'
  <2>1. PICK delta \in Grants \ {0} :
          IF request[a] + delta < 0
            THEN UNCHANGED <<credits, Meter!gifts>>
            ELSE /\ credits' = request[a] + delta
                 /\ granted' = granted + delta /\ grants' = grants + 1
                 /\ clean' = (clean /\ request[a] = credits)
    BY <1>5 DEF Meter!Grant
  <2>2. delta \in Int  BY QuotaAssumption
  <2>3. Meter!In("spent")' = Meter!In("spent")  BY <1>5, RunsStay DEF Meter!Grant
  <2>4. paid' = paid /\ lost' = lost  BY <1>5 DEF Meter!Grant
  <2>5. CASE request[a] + delta < 0
    BY <2>1, <2>3, <2>4, <2>5 DEF Meter!Balanced
  <2>6. CASE ~(request[a] + delta < 0)
    <3>1. clean' => clean /\ request[a] = credits  BY <2>1, <2>6
    <3>2. credits' = request[a] + delta /\ granted' = granted + delta  BY <2>1, <2>6
    <3>3. ASSUME clean' PROVE credits' + paid' + Meter!In("spent")' + lost' = granted'
      <4>1. credits + paid + Meter!In("spent") + lost = granted  BY <3>1, <3>3 DEF Meter!Balanced
      <4>2. credits' = credits + delta /\ granted' = granted + delta
        BY <3>1, <3>2, <3>3
      <4>3. \A i, p, l, c, g, d \in Int :
              c + p + i + l = g => (c + d) + p + i + l = g + d
        OBVIOUS
      <4> HIDE DEF Meter!TypeOK
      <4>4. (credits + delta) + paid + Meter!In("spent") + lost = granted + delta
        BY <1>0, <2>2, <4>1, <4>3
      <4> QED  BY <2>3, <2>4, <4>2, <4>4
    <3> QED  BY <3>3 DEF Meter!Balanced
  <2> QED  BY <2>5, <2>6
<1>6. CASE Meter!NewMonth  BY <1>6, RunsStay DEF Meter!NewMonth, Meter!Balanced
<1>7. CASE UNCHANGED Meter!vars  BY <1>7, RunsStay DEF Meter!vars, Meter!Balanced
<1> QED  BY <1>1, <1>2, <1>3, <1>4, <1>5, <1>6, <1>7 DEF Meter!Next

LEMMA Conserved == Meter!Spec => []Meter!Balanced
<1>1. Meter!Init => Meter!Balanced
  <2> SUFFICES ASSUME Meter!Init PROVE Meter!Balanced  OBVIOUS
  <2>1. {r \in Slots : run[r] = "spent"} = {}  BY DEF Meter!Init
  <2>2. Meter!In("spent") = 0  BY <2>1, FS_EmptySet, SameSize DEF Meter!In
  <2> QED  BY <2>2, QuotaAssumption DEF Meter!Init, Meter!Balanced
<1> QED  BY <1>1, BalanceStep, MeterTyped, PTL DEF Meter!Spec

(* However many runs are checked, paid, recorded and lost at once, no credit *)
(* is spent twice and none disappears, but by a grant over a stale balance   *)
(* (check_and_charge_judge_run, patch_admin_user).                           *)
THEOREM CreditsAreConserved == MCSpec => []CreditsBalance
<1>1. Meter!Balanced => CreditsBalance  BY DEF CreditsBalance
<1> QED  BY MeterPart, Conserved, <1>1, PTL

-----------------------------------------------------------------------------
LEMMA SlackStep == Meter!TypeOK /\ Meter!OvershootBounded /\ [Meter!Next]_Meter!vars => Meter!OvershootBounded'
<1> SUFFICES ASSUME Meter!TypeOK, Meter!OvershootBounded, [Meter!Next]_Meter!vars PROVE Meter!OvershootBounded'
  OBVIOUS
<1> USE DEF Meter!TypeOK, Meter!ledger, Meter!gifts, Meter!book
<1> DEFINE card == Cardinality(Slots)
<1>0. /\ Meter!In("charging") \in Nat /\ card \in Nat /\ Limit \in Nat
      /\ monthly \in Nat /\ packed \in Nat
  BY InIsCount, QuotaAssumption
<1>1. ASSUME NEW r \in Slots, Meter!Check(r) PROVE Meter!OvershootBounded'
  <2>1. CASE metered /\ Meter!Exhausted
    <3>1. Meter!In("charging")' = Meter!In("charging")  BY <1>1, <2>1, RunMoves DEF Meter!Check
    <3> QED  BY <1>1, <3>1, SameSize DEF Meter!Check, Meter!OvershootBounded
  <2>2. CASE metered /\ ~Meter!Exhausted
    <3>1. Meter!In("charging")' <= card /\ Meter!In("charging")' \in Nat
      <4>1. {q \in Slots : run'[q] = "charging"} \subseteq Slots  OBVIOUS
      <4>2. /\ Cardinality({q \in Slots : run'[q] = "charging"}) <= card
            /\ IsFiniteSet({q \in Slots : run'[q] = "charging"})
        BY <4>1, FS_Subset, QuotaAssumption
      <4> QED  BY <4>2, FS_CardinalityType, SameSize DEF Meter!In
    <3>2. monthly < Limit  BY <1>0, <2>2 DEF Meter!Exhausted
    <3> QED  BY <1>0, <1>1, <3>1, <3>2, SameSize DEF Meter!Check, Meter!OvershootBounded
  <2>3. CASE ~metered  BY <1>1, <2>3, SameSize DEF Meter!Check, Meter!OvershootBounded
  <2> QED  BY <2>1, <2>2, <2>3
<1>2. ASSUME NEW r \in Slots, Meter!Spend(r) PROVE Meter!OvershootBounded'
  <2>1. Meter!In("charging")' = Meter!In("charging")  BY <1>2, RunMoves DEF Meter!Spend
  <2> QED  BY <1>2, <2>1, SameSize DEF Meter!Spend, Meter!OvershootBounded
<1>3. ASSUME NEW r \in Slots, Meter!Record(r) PROVE Meter!OvershootBounded'
  <2>1. CASE run[r] = "charging"
    <3>1. Meter!In("charging")' = Meter!In("charging") - 1  BY <1>3, <2>1, RunMoves DEF Meter!Record
    <3>2. monthly' \in Nat /\ monthly' <= monthly + 1  BY <1>0, <1>3, <2>1 DEF Meter!Record
    <3> QED  BY <1>0, <1>3, <3>1, <3>2, SameSize DEF Meter!Record, Meter!OvershootBounded
  <2>2. CASE run[r] = "spent"
    <3>1. Meter!In("charging")' = Meter!In("charging")  BY <1>3, <2>2, RunMoves DEF Meter!Record
    <3>2. monthly' = monthly  BY <1>3, <2>2 DEF Meter!Record
    <3> QED  BY <1>3, <3>1, <3>2, SameSize DEF Meter!Record, Meter!OvershootBounded
  <2> QED  BY <1>3, <2>1, <2>2 DEF Meter!Record
<1>4. ASSUME NEW a \in Admins, Meter!ReadBalance(a) PROVE Meter!OvershootBounded'
  BY <1>4, RunsStay, SameSize DEF Meter!ReadBalance, Meter!OvershootBounded
<1>5. ASSUME NEW a \in Admins, Meter!Grant(a) PROVE Meter!OvershootBounded'
  BY <1>5, RunsStay, SameSize DEF Meter!Grant, Meter!OvershootBounded
<1>6. CASE Meter!NewMonth
  <2>1. Meter!In("charging")' = Meter!In("charging")  BY <1>6, RunsStay DEF Meter!NewMonth
  <2>2. monthly' = 0 /\ metered' = metered  BY <1>6 DEF Meter!NewMonth
  <2> QED  BY <1>0, <2>1, <2>2, SameSize DEF Meter!OvershootBounded
<1>7. CASE UNCHANGED Meter!vars  BY <1>7, RunsStay, SameSize DEF Meter!vars, Meter!OvershootBounded
<1> QED  BY <1>1, <1>2, <1>3, <1>4, <1>5, <1>6, <1>7 DEF Meter!Next

(* The month's allowance is exceeded by less than the runs under way at     *)
(* once, whatever their order (OvershootBounded).                           *)
THEOREM OvershootIsBounded == Meter!Spec => []Meter!OvershootBounded
<1>1. Meter!Init => Meter!OvershootBounded
  <2> SUFFICES ASSUME Meter!Init PROVE Meter!OvershootBounded  OBVIOUS
  <2>1. {r \in Slots : run[r] = "charging"} = {}  BY DEF Meter!Init
  <2>2. Meter!In("charging") = 0  BY <2>1, FS_EmptySet, SameSize DEF Meter!In
  <2>3. Meter!TypeOK  BY MeterInit
  <2>4. Cardinality(Slots) \in Nat /\ Cardinality(Slots) >= 1  BY <2>3, InIsCount
  <2> QED  BY <2>2, <2>4, QuotaAssumption, SameSize DEF Meter!Init, Meter!OvershootBounded
<1> QED  BY <1>1, SlackStep, MeterTyped, PTL DEF Meter!Spec

-----------------------------------------------------------------------------
(* The tokens, for any number of browsers' tabs and rows.                   *)

\* A request that has not been answered will find a row for its token.
Calling == {c \in Callers : call[c] \in {"sent", "live", "fresh", "stale"}}
Room == Cardinality(Calling) <= Cardinality(Token!Spare)

\* An answer on its way brings a live token of its own; a cookie that is not
\* live has been replaced by an answer on its way, just now; a request presents
\* a token that was the cookie when it was sent.
Unique == \A c \in Callers : call[c] = "answered" =>
  /\ holds[c] \in live /\ holds[c] # cookie
  /\ \A d \in Callers \ {c} : call[d] # "idle" => holds[d] # holds[c]
CookieKept == cookie \notin live =>
  \E c \in Callers : call[c] = "answered" /\ age[cookie] <= waited[c]
InTime == \A c \in Callers :
  call[c] = "sent" /\ holds[c] \notin live => age[holds[c]] <= MaxDelay + waited[c]
LoggedIn == ~refused /\ (\A c \in Callers : call[c] # "stale") /\ Unique /\ CookieKept /\ InTime

TokenInv == Token!TypeOK /\ Room /\ (~strayed => LoggedIn)

LEMMA TokenBounds ==
  /\ IsFiniteSet(Callers) /\ IsFiniteSet(Tokens) /\ Tokens # {}
  /\ Grace \in Nat /\ MaxDelay \in Nat /\ 2 * MaxDelay <= Grace
  /\ \A S : Token!Cardinality(S) = Cardinality(S)
<1>1. \A S : Token!IsFiniteSet(S) = IsFiniteSet(S)
  BY DEF Token!IsFiniteSet, IsFiniteSet
<1>2. \A S : Token!Cardinality(S) = Cardinality(S)
  BY DEF Token!Cardinality, Cardinality
<1> QED  BY <1>1, <1>2, PartsAssumption DEF Token!TokensAssumption

LEMMA TokenSets ==
  /\ IsFiniteSet(Calling) /\ Cardinality(Calling) \in Nat
  /\ IsFiniteSet(Token!Spare) /\ Cardinality(Token!Spare) \in Nat
<1>1. Calling \subseteq Callers /\ Token!Spare \subseteq Tokens  BY DEF Calling, Token!Spare
<1> QED  BY <1>1, TokenBounds, FS_Subset, FS_CardinalityType

\* While requests lose interest and rows are freed, or one request takes one
\* row, there is room for the others.
LEMMA RoomKept ==
  ASSUME NEW A, NEW B, NEW A1, NEW B1, IsFiniteSet(A), IsFiniteSet(B), IsFiniteSet(B1),
         Cardinality(A) <= Cardinality(B),
         \/ A1 \subseteq A /\ B \subseteq B1
         \/ \E x \in A, y \in B : A1 \subseteq A \ {x} /\ B \ {y} \subseteq B1
  PROVE  Cardinality(A1) <= Cardinality(B1)
<1>0. /\ Cardinality(A) \in Nat /\ Cardinality(B) \in Nat /\ Cardinality(B1) \in Nat
  BY FS_CardinalityType
<1>1. CASE A1 \subseteq A /\ B \subseteq B1
  <2>1. /\ Cardinality(A1) <= Cardinality(A) /\ Cardinality(B) <= Cardinality(B1)
        /\ IsFiniteSet(A1)
    BY <1>1, FS_Subset
  <2>2. Cardinality(A1) \in Nat  BY <2>1, FS_CardinalityType
  <2> QED  BY <1>0, <2>1, <2>2
<1>2. ASSUME NEW x \in A, NEW y \in B, A1 \subseteq A \ {x}, B \ {y} \subseteq B1
      PROVE  Cardinality(A1) <= Cardinality(B1)
  <2>1. /\ IsFiniteSet(A \ {x}) /\ Cardinality(A \ {x}) = Cardinality(A) - 1
        /\ IsFiniteSet(B \ {y}) /\ Cardinality(B \ {y}) = Cardinality(B) - 1
    BY FS_RemoveElement
  <2>2. Cardinality(A1) <= Cardinality(A \ {x}) /\ IsFiniteSet(A1)  BY <1>2, <2>1, FS_Subset
  <2>3. Cardinality(B \ {y}) <= Cardinality(B1)  BY <1>2, FS_Subset
  <2>4. Cardinality(A1) \in Nat  BY <2>2, FS_CardinalityType
  <2> QED  BY <1>0, <2>1, <2>2, <2>3, <2>4
<1> QED  BY <1>1, <1>2

\* A request under way is given a row that nobody has and that is not live.
LEMMA NewToken ==
  ASSUME Room, NEW c \in Callers, c \in Calling
  PROVE  /\ Token!Fresh(Token!Spare) \in Token!Spare
         /\ Token!Spare \subseteq Tokens
<1>1. Cardinality(Calling) # 0  BY TokenSets, FS_EmptySet
<1>2. Cardinality(Token!Spare) # 0  BY <1>1, TokenSets DEF Room
<1>3. Token!Spare # {}  BY <1>2, FS_EmptySet
<1> QED  BY <1>3 DEF Token!Fresh, Token!Spare

LEMMA TokenTypes ==
  ASSUME TokenInv, [Token!Next]_Token!vars
  PROVE  Token!TypeOK'
<1>0. Token!TypeOK /\ Room  BY DEF TokenInv
<1> USE DEF Token!TypeOK, Token!Becomes
<1>1. ASSUME NEW c \in Callers, Token!Send(c) PROVE Token!TypeOK'
  <2>1. 0 \in 0..MaxDelay  BY TokenBounds
  <2> QED  BY <1>0, <1>1, <2>1 DEF Token!Send
<1>2. ASSUME NEW c \in Callers, Token!Look(c) PROVE Token!TypeOK'
  BY <1>0, <1>2 DEF Token!Look
<1>3. ASSUME NEW c \in Callers, Token!Rotate(c) \/ Token!Reissue(c) PROVE Token!TypeOK'
  <2>1. c \in Calling  BY <1>3 DEF Calling, Token!Rotate, Token!Reissue
  <2>2. Token!Fresh(Token!Spare) \in Tokens  BY <1>0, <2>1, NewToken
  <2>3. 0 \in 0..Grace + 1  BY TokenBounds
  <2>4. CASE Token!Rotate(c)  BY <1>0, <2>2, <2>3, <2>4 DEF Token!Rotate
  <2>5. CASE Token!Reissue(c)  BY <1>0, <2>2, <2>5 DEF Token!Reissue
  <2> QED  BY <1>3, <2>4, <2>5
<1>4. ASSUME NEW c \in Callers, Token!RevokeAll(c) PROVE Token!TypeOK'
  <2>1. 0 \in 0..Grace + 1  BY TokenBounds
  <2> QED  BY <1>0, <1>4, <2>1 DEF Token!RevokeAll
<1>5. ASSUME NEW c \in Callers, Token!Receive(c) PROVE Token!TypeOK'
  <2>1. 0 \in 0..MaxDelay  BY TokenBounds
  <2> QED  BY <1>0, <1>5, <2>1 DEF Token!Receive
<1>6. ASSUME NEW t \in Tokens, Token!Expire(t) PROVE Token!TypeOK'
  BY <1>0, <1>6 DEF Token!Expire
<1>7. CASE Token!Tick
  <2>1. waited' \in [Callers -> 0..MaxDelay]
    <3>1. \A c \in Callers : waited[c] \in 0..MaxDelay /\ MaxDelay \in Nat
      BY <1>0, TokenBounds
    <3>2. ASSUME NEW c \in Callers, call[c] # "idle" PROVE waited[c] + 1 \in 0..MaxDelay
      <4>1. waited[c] < MaxDelay  BY <1>7, <3>2 DEF Token!Tick
      <4> QED  BY <3>1, <4>1
    <3>3. waited' = [c \in Callers |-> IF call[c] = "idle" THEN waited[c] ELSE waited[c] + 1]
      BY <1>7 DEF Token!Tick
    <3> QED  BY <3>1, <3>2, <3>3
  <2>2. age' \in [Tokens -> 0..Grace + 1]
    <3>1. \A t \in Tokens : age[t] \in 0..Grace + 1 /\ Grace \in Nat  BY <1>0, TokenBounds
    <3>2. \A t \in Tokens : age[t] <= Grace => age[t] + 1 \in 0..Grace + 1  BY <3>1
    <3>3. Grace + 1 \in 0..Grace + 1  BY TokenBounds
    <3>4. age' = [t \in Tokens |-> IF t \in Token!Known /\ age[t] <= Grace
                                   THEN age[t] + 1 ELSE Grace + 1]
      BY <1>7 DEF Token!Tick
    <3> QED  BY <3>2, <3>3, <3>4
  <2> QED  BY <1>0, <1>7, <2>1, <2>2 DEF Token!Tick
<1>8. CASE UNCHANGED Token!vars  BY <1>0, <1>8 DEF Token!vars
<1> QED  BY <1>1, <1>2, <1>3, <1>4, <1>5, <1>6, <1>7, <1>8 DEF Token!Next

\* What a rotation and a reissue have in common: the answer brings a new token.
LEMMA AnswerTakesOne ==
  ASSUME TokenInv, NEW c \in Callers, c \in Calling, NEW new, new \in Token!Spare,
         Token!Becomes(c, "answered"), holds' = [holds EXCEPT ![c] = new],
         live' \subseteq live \cup {new}, cookie' = cookie
  PROVE  Room'
<1>0. Token!TypeOK /\ Cardinality(Calling) <= Cardinality(Token!Spare)
  BY TokenBounds DEF TokenInv, Room
<1>1. Calling' \subseteq Calling \ {c}
  BY <1>0 DEF Calling, Token!Becomes, Token!TypeOK
<1>2. Token!Known' \subseteq Token!Known \cup {new}
  BY <1>0 DEF Token!Known, Token!Becomes, Token!TypeOK, Calling
<1>3. Token!Spare \ {new} \subseteq Token!Spare'  BY <1>2 DEF Token!Spare
<1>4. IsFiniteSet(Token!Spare')
  <2>1. Token!Spare' \subseteq Tokens  BY DEF Token!Spare
  <2> QED  BY <2>1, TokenBounds, FS_Subset
<1>5. Cardinality(Calling') <= Cardinality(Token!Spare')
  BY <1>0, <1>1, <1>3, <1>4, TokenSets, RoomKept
<1> QED  BY <1>5, TokenBounds DEF Room

LEMMA TokenRoom ==
  ASSUME TokenInv, [Token!Next]_Token!vars
  PROVE  Room'
<1>0. Token!TypeOK /\ Room /\ Cardinality(Calling) <= Cardinality(Token!Spare)
  BY TokenBounds DEF TokenInv, Room
<1>a. IsFiniteSet(Token!Spare')
  <2>1. Token!Spare' \subseteq Tokens  BY DEF Token!Spare
  <2> QED  BY <2>1, TokenBounds, FS_Subset
<1>b. ASSUME Calling' \subseteq Calling, Token!Known' \subseteq Token!Known, live' \subseteq live
      PROVE  Room'
  <2>1. Token!Spare \subseteq Token!Spare'  BY <1>b DEF Token!Spare
  <2>2. Cardinality(Calling') <= Cardinality(Token!Spare')
    BY <1>0, <1>a, <1>b, <2>1, TokenSets, RoomKept
  <2> QED  BY <2>2, TokenBounds DEF Room
<1> USE DEF Token!TypeOK, Token!Becomes
<1>1. ASSUME NEW c \in Callers, Token!Send(c) PROVE Room'
  <2> DEFINE Under == {d \in Callers : call[d] # "idle"}
  <2>1. Cardinality(Under) < Cardinality(Token!Spare)  BY <1>1, TokenBounds DEF Token!Send
  <2>2. IsFiniteSet(Under) /\ Cardinality(Under) \in Nat
    <3>1. Under \subseteq Callers  OBVIOUS
    <3> QED  BY <3>1, TokenBounds, FS_Subset, FS_CardinalityType
  <2>3. Calling' \subseteq Under \cup {c}  BY <1>0, <1>1 DEF Token!Send, Calling
  <2>4. IsFiniteSet(Under \cup {c}) /\ Cardinality(Under \cup {c}) <= Cardinality(Under) + 1
    <3>1. /\ IsFiniteSet(Under \cup {c})
          /\ Cardinality(Under \cup {c}) =
               IF c \in Under THEN Cardinality(Under) ELSE Cardinality(Under) + 1
      BY <2>2, FS_AddElement
    <3> HIDE DEF Under
    <3> QED  BY <2>2, <3>1
  <2>5. Cardinality(Calling') <= Cardinality(Under \cup {c}) /\ IsFiniteSet(Calling')
    BY <2>3, <2>4, FS_Subset
  <2>6. Token!Known' \subseteq Token!Known  BY <1>0, <1>1 DEF Token!Send, Token!Known
  <2>7. Token!Spare \subseteq Token!Spare'  BY <1>1, <2>6 DEF Token!Send, Token!Spare
  <2>8. Cardinality(Token!Spare) <= Cardinality(Token!Spare')  BY <1>a, <2>7, FS_Subset
  <2>9. Cardinality(Calling') \in Nat /\ Cardinality(Token!Spare') \in Nat
        /\ Cardinality(Under \cup {c}) \in Nat
    BY <1>a, <2>4, <2>5, FS_CardinalityType
  <2>10. Cardinality(Calling') <= Cardinality(Token!Spare')
    BY <2>1, <2>2, <2>4, <2>5, <2>8, <2>9, TokenSets
  <2> QED  BY <2>10, TokenBounds DEF Room
<1>2. ASSUME NEW c \in Callers, Token!Look(c) PROVE Room'
  BY <1>0, <1>b, <1>2 DEF Token!Look, Calling, Token!Known
<1>3. ASSUME NEW c \in Callers, Token!Rotate(c) PROVE Room'
  <2> DEFINE new == Token!Fresh(Token!Spare)
  <2>1. c \in Calling  BY <1>3 DEF Calling, Token!Rotate
  <2>2. new \in Token!Spare  BY <1>0, <2>1, NewToken
  <2>3. /\ Token!Becomes(c, "answered") /\ holds' = [holds EXCEPT ![c] = new]
        /\ live' \subseteq live \cup {new} /\ cookie' = cookie
    BY <1>3 DEF Token!Rotate
  <2> HIDE DEF new
  <2> QED  BY <2>1, <2>2, <2>3, AnswerTakesOne
<1>4. ASSUME NEW c \in Callers, Token!Reissue(c) PROVE Room'
  <2> DEFINE new == Token!Fresh(Token!Spare)
  <2>1. c \in Calling  BY <1>4 DEF Calling, Token!Reissue
  <2>2. new \in Token!Spare  BY <1>0, <2>1, NewToken
  <2>3. /\ Token!Becomes(c, "answered") /\ holds' = [holds EXCEPT ![c] = new]
        /\ live' \subseteq live \cup {new} /\ cookie' = cookie
    BY <1>4 DEF Token!Reissue
  <2> HIDE DEF new
  <2> QED  BY <2>1, <2>2, <2>3, AnswerTakesOne
<1>5. ASSUME NEW c \in Callers, Token!RevokeAll(c) PROVE Room'
  BY <1>0, <1>b, <1>5 DEF Token!RevokeAll, Calling, Token!Known
<1>6. ASSUME NEW c \in Callers, Token!Receive(c) PROVE Room'
  BY <1>0, <1>b, <1>6 DEF Token!Receive, Calling, Token!Known
<1>7. ASSUME NEW t \in Tokens, Token!Expire(t) PROVE Room'
  BY <1>b, <1>7 DEF Token!Expire, Calling, Token!Known
<1>8. CASE Token!Tick
  BY <1>b, <1>8 DEF Token!Tick, Calling, Token!Known
<1>9. CASE UNCHANGED Token!vars
  BY <1>b, <1>9 DEF Token!vars, Calling, Token!Known
<1> QED  BY <1>1, <1>2, <1>3, <1>4, <1>5, <1>6, <1>7, <1>8, <1>9 DEF Token!Next

\* Nobody is told to log out: what was looked up was live, or revoked within
\* the grace, and then another token lives.
LEMMA SomethingLives ==
  ASSUME Token!TypeOK, LoggedIn
  PROVE  live # {}
BY DEF LoggedIn, Unique, CookieKept

LEMMA LookInTime ==
  ASSUME Token!TypeOK, LoggedIn, NEW c \in Callers, call[c] = "sent", holds[c] \notin live
  PROVE  age[holds[c]] <= Grace
<1>1. age[holds[c]] <= MaxDelay + waited[c]  BY DEF LoggedIn, InTime
<1>2. /\ holds[c] \in Tokens /\ waited[c] \in 0..MaxDelay /\ age[holds[c]] \in 0..Grace + 1
  BY DEF Token!TypeOK
<1> QED  BY <1>1, <1>2, TokenBounds

LEMMA StaysLive ==
  ASSUME TokenInv, [Token!Next]_Token!vars, ~strayed'
  PROVE  LoggedIn'
<1>0. Token!TypeOK /\ Token!TypeOK' /\ Room  BY TokenTypes DEF TokenInv
<1>a. /\ call \in [Callers -> {"idle", "sent", "live", "fresh", "stale", "answered"}]
      /\ holds \in [Callers -> Tokens] /\ waited \in [Callers -> 0..MaxDelay]
      /\ age \in [Tokens -> 0..Grace + 1] /\ cookie \in Tokens /\ live \subseteq Tokens
  BY <1>0 DEF Token!TypeOK
<1>b. LoggedIn
  <2>1. ~strayed
    BY DEF Token!Next, Token!Send, Token!Look, Token!Rotate, Token!Reissue, Token!RevokeAll,
           Token!Receive, Token!Expire, Token!Tick, Token!vars
  <2> QED  BY <2>1 DEF TokenInv
<1>c. ~refused /\ (\A d \in Callers : call[d] # "stale") /\ Unique /\ CookieKept /\ InTime
  BY <1>b DEF LoggedIn
<1>1. ASSUME NEW c \in Callers, Token!Send(c) PROVE LoggedIn'
  <2>1. /\ call' = [call EXCEPT ![c] = "sent"] /\ holds' = [holds EXCEPT ![c] = cookie]
        /\ waited' = [waited EXCEPT ![c] = 0] /\ call[c] = "idle"
        /\ UNCHANGED <<live, age, cookie, refused, strayed>>
    BY <1>1 DEF Token!Send, Token!Becomes
  <2>2. Unique'  BY <1>a, <1>c, <2>1 DEF Unique
  <2>3. CookieKept'  BY <1>a, <1>c, <2>1 DEF CookieKept
  <2>4. InTime'
    <3>1. ASSUME NEW d \in Callers, d # c, call'[d] = "sent", holds'[d] \notin live
          PROVE  age[holds'[d]] <= MaxDelay + waited'[d]
      BY <1>a, <1>c, <2>1, <3>1 DEF InTime
    <3>2. ASSUME cookie \notin live PROVE age[cookie] <= MaxDelay + 0
      <4>1. PICK d \in Callers : age[cookie] <= waited[d]  BY <1>c, <3>2 DEF CookieKept
      <4>2. waited[d] \in 0..MaxDelay /\ age[cookie] \in 0..Grace + 1  BY <1>a
      <4> QED  BY <4>1, <4>2, TokenBounds
    <3>3. holds'[c] = cookie /\ waited'[c] = 0  BY <1>a, <2>1
    <3> QED  BY <2>1, <3>1, <3>2, <3>3 DEF InTime
  <2> QED  BY <1>a, <1>c, <2>1, <2>2, <2>3, <2>4 DEF LoggedIn
<1>2. ASSUME NEW c \in Callers, Token!Look(c) PROVE LoggedIn'
  <2>1. /\ call' = [call EXCEPT ![c] = IF holds[c] \in live THEN "live"
                                       ELSE IF age[holds[c]] <= Grace THEN "fresh" ELSE "stale"]
        /\ call[c] = "sent" /\ UNCHANGED <<live, age, cookie, holds, waited, refused, strayed>>
    BY <1>2 DEF Token!Look, Token!Becomes
  <2>2. holds[c] \notin live => age[holds[c]] <= Grace  BY <1>0, <1>b, <2>1, LookInTime
  <2>3. call'[c] \in {"live", "fresh"} /\ \A d \in Callers \ {c} : call'[d] = call[d]
    BY <1>a, <2>1, <2>2
  <2>4. Unique'  BY <1>a, <1>c, <2>1, <2>3 DEF Unique
  <2>5. CookieKept'  BY <1>a, <1>c, <2>1, <2>3 DEF CookieKept
  <2>6. InTime'  BY <1>a, <1>c, <2>1, <2>3 DEF InTime
  <2> QED  BY <1>a, <1>c, <2>1, <2>3, <2>4, <2>5, <2>6 DEF LoggedIn
<1>3. ASSUME NEW c \in Callers, NEW new \in Token!Spare,
             call[c] \in {"live", "fresh"}, Token!Becomes(c, "answered"),
             holds' = [holds EXCEPT ![c] = new], UNCHANGED <<cookie, waited, refused, strayed>>,
             \/ live' = live \cup {new} /\ age' = age
             \/ /\ live' = (live \ {holds[c]}) \cup {new}
                /\ age' = [age EXCEPT ![holds[c]] = 0]
      PROVE  LoggedIn'
  <2>1. /\ call' = [call EXCEPT ![c] = "answered"] /\ new \notin live /\ new # cookie
        /\ \A d \in Callers : call[d] # "idle" => holds[d] # new
    BY <1>3 DEF Token!Becomes, Token!Spare, Token!Known
  <2>2. call'[c] = "answered" /\ holds'[c] = new
        /\ \A d \in Callers \ {c} : call'[d] = call[d] /\ holds'[d] = holds[d]
    BY <1>a, <1>3, <2>1
  <2>3. live' \subseteq live \cup {new} /\ live \ {holds[c]} \subseteq live' /\ new \in live'
    BY <1>3
  <2>4. Unique'
    <3>1. ASSUME NEW d \in Callers, call'[d] = "answered", d # c
          PROVE  /\ holds'[d] \in live' /\ holds'[d] # cookie'
                 /\ \A e \in Callers \ {d} : call'[e] # "idle" => holds'[e] # holds'[d]
      <4>1. /\ holds[d] \in live /\ holds[d] # cookie
            /\ \A e \in Callers \ {d} : call[e] # "idle" => holds[e] # holds[d]
        BY <1>c, <2>2, <3>1 DEF Unique
      <4> QED  BY <1>3, <2>1, <2>2, <2>3, <3>1, <4>1
    <3>2. /\ holds'[c] \in live' /\ holds'[c] # cookie'
          /\ \A e \in Callers \ {c} : call'[e] # "idle" => holds'[e] # holds'[c]
      BY <1>3, <2>1, <2>2, <2>3
    <3> QED  BY <3>1, <3>2 DEF Unique
  <2>5. \A t \in Tokens : t \notin live' => /\ t # new
                                            /\ \/ t \notin live /\ age'[t] \in {age[t], 0}
                                               \/ age'[t] = 0
    BY <1>a, <1>3
  <2>6. CookieKept'
    <3>1. SUFFICES ASSUME cookie \notin live'
                   PROVE  \E d \in Callers : call'[d] = "answered" /\ age'[cookie] <= waited[d]
      BY <1>3 DEF CookieKept
    <3>2. CASE age'[cookie] = 0
      <4>1. waited[c] \in 0..MaxDelay  BY <1>a
      <4> QED  BY <2>2, <3>2, <4>1, TokenBounds
    <3>3. CASE cookie \notin live /\ age'[cookie] = age[cookie]
      <4>1. PICK d \in Callers : call[d] = "answered" /\ age[cookie] <= waited[d]
        BY <1>c, <3>3 DEF CookieKept
      <4> QED  BY <1>3, <2>2, <3>3, <4>1
    <3> QED  BY <1>a, <2>5, <3>1, <3>2, <3>3
  <2>7. InTime'
    <3>1. SUFFICES ASSUME NEW d \in Callers, call'[d] = "sent", holds'[d] \notin live'
                   PROVE  age'[holds'[d]] <= MaxDelay + waited[d]
      BY <1>3 DEF InTime
    <3>2. d # c /\ holds'[d] = holds[d] /\ call[d] = "sent" /\ holds[d] \in Tokens
          /\ waited[d] \in 0..MaxDelay
      BY <1>a, <2>2, <3>1
    <3>3. CASE age'[holds[d]] = 0  BY <3>2, <3>3, TokenBounds
    <3>4. CASE holds[d] \notin live /\ age'[holds[d]] = age[holds[d]]
      BY <1>c, <3>2, <3>4 DEF InTime
    <3> QED  BY <2>5, <3>1, <3>2, <3>3, <3>4
  <2> QED  BY <1>c, <1>3, <2>2, <2>4, <2>6, <2>7 DEF LoggedIn
<1>4. ASSUME NEW c \in Callers, Token!Rotate(c) \/ Token!Reissue(c) PROVE LoggedIn'
  <2> DEFINE new == Token!Fresh(Token!Spare)
  <2>1. c \in Calling  BY <1>4 DEF Calling, Token!Rotate, Token!Reissue
  <2>2. new \in Token!Spare  BY <1>0, <2>1, NewToken
  <2>3. /\ call[c] \in {"live", "fresh"} /\ Token!Becomes(c, "answered")
        /\ holds' = [holds EXCEPT ![c] = new] /\ UNCHANGED <<cookie, waited, refused, strayed>>
        /\ \/ live' = live \cup {new} /\ age' = age
           \/ /\ live' = (live \ {holds[c]}) \cup {new}
              /\ age' = [age EXCEPT ![holds[c]] = 0]
    BY <1>4 DEF Token!Rotate, Token!Reissue
  <2> HIDE DEF new
  <2> QED  BY <1>3, <2>2, <2>3
<1>5. ASSUME NEW c \in Callers, Token!RevokeAll(c) PROVE LoggedIn'
  <2>1. FALSE  BY <1>0, <1>b, <1>c, <1>5, SomethingLives DEF Token!RevokeAll
  <2> QED  BY <2>1
<1>6. ASSUME NEW c \in Callers, Token!Receive(c) PROVE LoggedIn'
  <2>1. /\ call[c] = "answered" /\ call' = [call EXCEPT ![c] = "idle"] /\ cookie' = holds[c]
        /\ holds' = [holds EXCEPT ![c] = cookie] /\ waited' = [waited EXCEPT ![c] = 0]
        /\ UNCHANGED <<live, age, refused>>
    BY <1>6 DEF Token!Receive, Token!Becomes
  <2>2. /\ call'[c] = "idle"
        /\ \A d \in Callers \ {c} : /\ call'[d] = call[d] /\ holds'[d] = holds[d]
                                    /\ waited'[d] = waited[d]
    BY <1>a, <2>1
  <2>3. cookie' \in live' /\ \A d \in Callers \ {c} : call[d] # "idle" => holds[d] # cookie'
    BY <1>c, <2>1 DEF Unique
  <2>4. Unique'  BY <1>c, <2>1, <2>2, <2>3 DEF Unique
  <2>5. InTime'  BY <1>c, <2>1, <2>2 DEF InTime
  <2> QED  BY <1>c, <2>1, <2>2, <2>3, <2>4, <2>5 DEF LoggedIn, CookieKept
<1>7. ASSUME NEW t \in Tokens, Token!Expire(t) PROVE LoggedIn'
  <2>1. /\ live' = live \ {t} /\ t # cookie
        /\ \A d \in Callers : call[d] # "idle" => holds[d] # t
        /\ UNCHANGED <<age, cookie, call, holds, waited, refused, strayed>>
    BY <1>7 DEF Token!Expire, Token!Known
  <2>2. Unique'  BY <1>c, <2>1 DEF Unique
  <2>3. CookieKept'  BY <1>c, <2>1 DEF CookieKept
  <2>4. InTime'  BY <1>c, <2>1 DEF InTime
  <2> QED  BY <1>c, <2>1, <2>2, <2>3, <2>4 DEF LoggedIn
<1>8. CASE Token!Tick
  <2>1. /\ UNCHANGED <<live, cookie, call, holds, refused, strayed>>
        /\ \A d \in Callers : call[d] # "idle" => waited'[d] = waited[d] + 1
    BY <1>8 DEF Token!Tick
  <2>2. \A t \in Token!Known : t \in Tokens /\ age[t] <= Grace => age'[t] = age[t] + 1
    BY <1>8 DEF Token!Tick
  <2>3. cookie \in Token!Known /\ \A d \in Callers : call[d] # "idle" => holds[d] \in Token!Known
    BY DEF Token!Known
  <2>4. CookieKept'
    <3>1. SUFFICES ASSUME cookie \notin live
                   PROVE  \E d \in Callers : call'[d] = "answered" /\ age'[cookie] <= waited'[d]
      BY <2>1 DEF CookieKept
    <3>2. PICK d \in Callers : call[d] = "answered" /\ age[cookie] <= waited[d]
      BY <1>c, <3>1 DEF CookieKept
    <3>3. waited[d] \in 0..MaxDelay /\ age[cookie] \in 0..Grace + 1 /\ waited'[d] = waited[d] + 1
      BY <1>a, <2>1, <3>2
    <3>4. age[cookie] <= Grace  BY <3>2, <3>3, TokenBounds
    <3>5. age'[cookie] = age[cookie] + 1  BY <1>a, <2>2, <2>3, <3>4
    <3>6. age'[cookie] <= waited'[d]  BY <3>2, <3>3, <3>5, TokenBounds
    <3> QED  BY <2>1, <3>2, <3>6
  <2>5. InTime'
    <3>1. SUFFICES ASSUME NEW d \in Callers, call[d] = "sent", holds[d] \notin live
                   PROVE  age'[holds[d]] <= MaxDelay + waited'[d]
      BY <2>1 DEF InTime
    <3>2. age[holds[d]] <= MaxDelay + waited[d]  BY <1>c, <3>1 DEF InTime
    <3>3. /\ waited[d] \in 0..MaxDelay /\ age[holds[d]] \in 0..Grace + 1
          /\ waited'[d] = waited[d] + 1 /\ holds[d] \in Tokens
      BY <1>a, <2>1, <3>1
    <3>4. age[holds[d]] <= Grace  BY <1>0, <1>b, <3>1, LookInTime
    <3>5. age'[holds[d]] = age[holds[d]] + 1  BY <2>2, <2>3, <3>1, <3>3, <3>4
    <3> QED  BY <3>2, <3>3, <3>5, TokenBounds
  <2>6. Unique'  BY <1>c, <2>1 DEF Unique
  <2> QED  BY <1>c, <2>1, <2>4, <2>5, <2>6 DEF LoggedIn
<1>9. CASE UNCHANGED Token!vars
  BY <1>c, <1>9 DEF Token!vars, LoggedIn, Unique, CookieKept, InTime
<1> QED  BY <1>1, <1>2, <1>4, <1>5, <1>6, <1>7, <1>8, <1>9 DEF Token!Next

LEMMA TokenInit == Token!Init => TokenInv
<1> SUFFICES ASSUME Token!Init PROVE TokenInv  OBVIOUS
<1>1. cookie \in Tokens /\ live = {cookie}  BY TokenBounds DEF Token!Init, Token!Fresh
<1>2. 0 \in 0..MaxDelay /\ Grace + 1 \in 0..Grace + 1  BY TokenBounds
<1>3. Token!TypeOK  BY <1>1, <1>2 DEF Token!Init, Token!TypeOK
<1>4. \A c \in Callers : call[c] = "idle"  BY DEF Token!Init
<1>5. Room
  <2>1. Calling = {}  BY <1>4 DEF Calling
  <2>2. Cardinality(Calling) = 0  BY <2>1, FS_EmptySet
  <2> QED  BY <2>2, TokenSets, TokenBounds DEF Room
<1>6. LoggedIn  BY <1>1, <1>4 DEF Token!Init, LoggedIn, Unique, CookieKept, InTime
<1> QED  BY <1>3, <1>5, <1>6 DEF TokenInv

(* However many callers refresh one cookie at once, in whatever order their *)
(* reads, rotations and answers come, the family is not revoked unless an   *)
(* answer was lost (refresh.rs, REUSE_GRACE_SECS).                          *)
THEOREM CallersStayLoggedIn == MCSpec => []StaysLoggedIn
<1>1. TokenInv /\ [Token!Next]_Token!vars => TokenInv'
  <2> SUFFICES ASSUME TokenInv, [Token!Next]_Token!vars PROVE TokenInv'  OBVIOUS
  <2>1. Token!TypeOK' /\ Room'  BY TokenTypes, TokenRoom
  <2>2. ~strayed' => LoggedIn'  BY StaysLive
  <2> QED  BY <2>1, <2>2 DEF TokenInv
<1>2. TokenInv => StaysLoggedIn  BY DEF TokenInv, LoggedIn, StaysLoggedIn, Token!StaysLoggedIn
<1> QED  BY TokenPart, TokenInit, <1>1, <1>2, PTL DEF Token!Spec

-----------------------------------------------------------------------------
(* The snapshots, for any number of delays, breaks and commits.             *)

\* The last commit of a client's line is its own, and its latest.
LastIsOwn(c) ==
  /\ c \in open => made[c] > 0
  /\ made[c] > 0 => /\ Len(main[c]) > 0 /\ main[c][Len(main[c])].by = c
                    /\ main[c][Len(main[c])].n = made[c]

\* The head that a push carries is the client's own, covers the callers that
\* wait for it, and is the latest commit unless someone has yet to ask.
Reads(c)  == push[c].at \in {"ready", "sent"}
Awaits(c) == \E k \in Snaps!Waiting : caller[c][k].at = "committed"
HeadIsOwn(c) == Reads(c) =>
  /\ push[c].head \in 1..Len(main[c]) /\ main[c][push[c].head].by = c
  /\ \A k \in waiters[c] : caller[c][k].n <= main[c][push[c].head].n
  /\ main[c][push[c].head].n = made[c] \/ Snaps!Asked(c) \/ Awaits(c)

\* What git compared stays so: neither line is ever rewritten below it.
Packed(c) == push[c].at = "sent" =>
  /\ push[c].head <= push[c].pack /\ push[c].pack <= Len(main[c])
  /\ push[c].base <= push[c].pack /\ push[c].base <= Len(store)
  /\ \A i \in 1..push[c].base : store[i] = main[c][i]
Fetched(c) == push[c].at = "fetched" => push[c].base <= Len(store)

\* A caller waits exactly as long as it is in the channel or in the push, and is
\* never in both: it asks again only once it was answered.
CallersWait(c) ==
  /\ waiters[c] \cap queue[c].replies = {}
  /\ \A k \in Snaps!Waiting :
       /\ caller[c][k].n <= made[c]
       /\ caller[c][k].at = "waiting" <=> k \in waiters[c] \cup queue[c].replies
  /\ push[c].at = "idle" => waiters[c] = {}

\* A pusher that rests has an excuse or nothing to do.
Excused(c) ==
  /\ push[c].at = "recover" => ledger[c].failed
  /\ c \in open /\ push[c].at = "idle" =>
       ledger[c].failed \/ Snaps!Has(c, made[c]) \/ Snaps!Asked(c) \/ Awaits(c)

ToldRight(c) == /\ told[c] > 0 => Snaps!Has(c, told[c])
                /\ ledger[c].pushed \subseteq Snaps!Line(store)

InStep(c) == /\ LastIsOwn(c) /\ HeadIsOwn(c) /\ Packed(c) /\ Fetched(c) /\ CallersWait(c)
             /\ Excused(c) /\ ToldRight(c)
PushInv == Snaps!TypeOK /\ \A c \in Players : InStep(c)

-----------------------------------------------------------------------------
(* Types of what the steps write *)

LEMMA Delays == Retries \in Nat /\ MaxBreaks \in Nat
BY PartsAssumption DEF Snaps!DelaysAssumption

LEMMA RestingTyped ==
  /\ Snaps!Resting \in Snaps!Pushers /\ Snaps!Resting.at = "idle"
  /\ Snaps!Silent.replies = {} /\ ~Snaps!Silent.plain
  /\ Snaps!Nothing.at = "idle" /\ Snaps!Nothing.n = 0 /\ Snaps!NoPush.pushed = {}
BY Delays DEF Snaps!Resting, Snaps!Pushers, Snaps!Silent, Snaps!Nothing, Snaps!NoPush

\* What a client's parts are.
LEMMA PartsTyped ==
  ASSUME Snaps!TypeOK, NEW c \in Players
  PROVE  /\ main[c] \in Seq(Snaps!Commits) /\ store \in Seq(Snaps!Commits) /\ made[c] \in Nat
         /\ queue[c] \in [plain : BOOLEAN, replies : SUBSET Snaps!Waiting]
         /\ waiters[c] \in SUBSET Snaps!Waiting
         /\ push[c] \in Snaps!Pushers
         /\ push[c].head \in Nat /\ push[c].pack \in Nat /\ push[c].base \in Nat
         /\ ledger[c] \in [pushed : SUBSET Snaps!Commits, replaced : SUBSET Snaps!Commits,
                           failed : BOOLEAN]
         /\ caller[c] \in [Snaps!Waiting -> [at : {"idle", "committed", "waiting"}, n : Nat]]
         /\ told[c] \in Nat
BY DEF Snaps!TypeOK, Snaps!Pushers

LEMMA NowTyped ==
  ASSUME Snaps!TypeOK, NEW c \in Players, NEW i \in Nat, NEW kind \in {"start", "feat", "tree"}
  PROVE  /\ Snaps!Now(c, i, kind) \in Snaps!Commits
         /\ Snaps!Now(c, i, kind).by = c /\ Snaps!Now(c, i, kind).n = made[c] + i
BY PartsTyped DEF Snaps!Now, Snaps!Commits

LEMMA UptoTyped ==
  ASSUME NEW s \in Seq(Snaps!Commits), NEW m \in 0..Len(s)
  PROVE  /\ Snaps!Upto(s, m) \in Seq(Snaps!Commits) /\ Len(Snaps!Upto(s, m)) = m
         /\ \A i \in 1..m : Snaps!Upto(s, m)[i] = s[i]
         /\ Snaps!Line(Snaps!Upto(s, m)) = {s[i] : i \in 1..m}
<1>1. Snaps!Upto(s, m) = SubSeq(s, 1, m)  BY DEF Snaps!Upto
<1>2. /\ SubSeq(s, 1, m) \in Seq(Snaps!Commits) /\ Len(SubSeq(s, 1, m)) = m
      /\ \A i \in 1..m : SubSeq(s, 1, m)[i] = s[i]
  OBVIOUS
<1>3. DOMAIN SubSeq(s, 1, m) = 1..m  BY <1>2
<1> QED  BY <1>1, <1>2, <1>3 DEF Snaps!Line

\* A commit of one or two on a line.
LEMMA PutTyped ==
  ASSUME Snaps!TypeOK, NEW c \in Players, NEW line \in Seq(Snaps!Commits),
         NEW new \in Seq(Snaps!Commits), Snaps!Put(c, line, new)
  PROVE  /\ main' \in [Players -> Seq(Snaps!Commits)] /\ made' \in [Players -> Nat]
         /\ main'[c] = line \o new /\ made'[c] = made[c] + Len(new)
         /\ Len(main'[c]) = Len(line) + Len(new)
         /\ \A i \in 1..Len(line) : main'[c][i] = line[i]
         /\ \A i \in 1..Len(new) : main'[c][Len(line) + i] = new[i]
         /\ \A d \in Players \ {c} : main'[d] = main[d] /\ made'[d] = made[d]
<1>1. line \o new \in Seq(Snaps!Commits) /\ Len(new) \in Nat  OBVIOUS
<1>2. main \in [Players -> Seq(Snaps!Commits)] /\ made \in [Players -> Nat]
  BY DEF Snaps!TypeOK
<1>3. main' = [main EXCEPT ![c] = line \o new] /\ made' = [made EXCEPT ![c] = @ + Len(new)]
  BY DEF Snaps!Put
<1>4. /\ main' \in [Players -> Seq(Snaps!Commits)] /\ made' \in [Players -> Nat]
      /\ main'[c] = line \o new /\ made'[c] = made[c] + Len(new)
      /\ \A d \in Players \ {c} : main'[d] = main[d] /\ made'[d] = made[d]
  BY <1>1, <1>2, <1>3
<1>5. /\ Len(line \o new) = Len(line) + Len(new)
      /\ \A i \in 1..Len(line) : (line \o new)[i] = line[i]
      /\ \A i \in 1..Len(new) : (line \o new)[Len(line) + i] = new[i]
  OBVIOUS
<1> QED  BY <1>4, <1>5

-----------------------------------------------------------------------------
(* Steps of one client, as the others and as its own invariant see them     *)

StoreGrows == /\ Len(store) <= Len(store')
              /\ \A i \in 1..Len(store) : store'[i] = store[i]

LEMMA LinesGrow ==
  ASSUME Snaps!TypeOK, store' \in Seq(Snaps!Commits), StoreGrows
  PROVE  /\ Snaps!Line(store) \subseteq Snaps!Line(store')
         /\ \A c \in Players, n \in Nat : Snaps!Has(c, n) => Snaps!Has(c, n)'
<1>1. store \in Seq(Snaps!Commits)  BY DEF Snaps!TypeOK
<1>2. DOMAIN store = 1..Len(store) /\ DOMAIN store' = 1..Len(store')
      /\ Len(store) \in Nat /\ Len(store') \in Nat
  BY <1>1
<1>3. \A i \in DOMAIN store : i \in DOMAIN store' /\ store'[i] = store[i]
  BY <1>2 DEF StoreGrows
<1>4. Snaps!Line(store) \subseteq Snaps!Line(store')  BY <1>3 DEF Snaps!Line
<1> QED  BY <1>4 DEF Snaps!Has

\* Another client's step can only lengthen the server's line.
LEMMA OthersStay ==
  ASSUME Snaps!TypeOK, store' \in Seq(Snaps!Commits), StoreGrows, NEW c \in Players, InStep(c),
         main'[c] = main[c], made'[c] = made[c], queue'[c] = queue[c], waiters'[c] = waiters[c],
         push'[c] = push[c], ledger'[c] = ledger[c], caller'[c] = caller[c], told'[c] = told[c],
         c \in open' => c \in open
  PROVE  InStep(c)'
<1>0. /\ made[c] \in Nat /\ told[c] \in Nat /\ push[c].base \in Nat /\ store \in Seq(Snaps!Commits)
      /\ Len(store) \in Nat /\ Len(store') \in Nat
  BY PartsTyped
<1>1. Snaps!Asked(c)' = Snaps!Asked(c) /\ Awaits(c)' = Awaits(c) /\ Reads(c)' = Reads(c)
  BY DEF Snaps!Asked, Awaits, Reads
<1>2. /\ Snaps!Line(store) \subseteq Snaps!Line(store')
      /\ Snaps!Has(c, made[c]) => Snaps!Has(c, made[c])'
      /\ Snaps!Has(c, told[c]) => Snaps!Has(c, told[c])'
  BY <1>0, LinesGrow
<1>3. LastIsOwn(c)'  BY DEF InStep, LastIsOwn
<1>4. HeadIsOwn(c)'  BY <1>1 DEF InStep, HeadIsOwn
<1>5. Packed(c)'
  <2>1. SUFFICES ASSUME push[c].at = "sent" PROVE Packed(c)'  BY DEF Packed
  <2>2. /\ push[c].head <= push[c].pack /\ push[c].pack <= Len(main[c])
        /\ push[c].base <= push[c].pack /\ push[c].base <= Len(store)
        /\ \A i \in 1..push[c].base : store[i] = main[c][i]
    BY <2>1 DEF InStep, Packed
  <2>3. push[c].base <= Len(store')  BY <1>0, <2>2 DEF StoreGrows
  <2>4. \A i \in 1..push[c].base : i \in 1..Len(store)  BY <1>0, <2>2
  <2>5. \A i \in 1..push[c].base : store'[i] = main[c][i]  BY <2>2, <2>4 DEF StoreGrows
  <2> QED  BY <2>2, <2>3, <2>5 DEF Packed
<1>6. Fetched(c)'  BY <1>0 DEF InStep, Fetched, StoreGrows
<1>7. CallersWait(c)'  BY DEF InStep, CallersWait
<1>8. Excused(c)'  BY <1>1, <1>2 DEF InStep, Excused
<1>9. ToldRight(c)'  BY <1>2 DEF InStep, ToldRight
<1> QED  BY <1>3, <1>4, <1>5, <1>6, <1>7, <1>8, <1>9 DEF InStep

\* The client's own line is lengthened by its own commits.
Appended(c) ==
  /\ main' \in [Players -> Seq(Snaps!Commits)] /\ made' \in [Players -> Nat]
  /\ Len(main'[c]) > Len(main[c]) /\ made'[c] > made[c]
  /\ \A i \in 1..Len(main[c]) : main'[c][i] = main[c][i]
  /\ main'[c][Len(main'[c])].by = c /\ main'[c][Len(main'[c])].n = made'[c]
  /\ \A d \in Players \ {c} : main'[d] = main[d] /\ made'[d] = made[d]

LEMMA AppendedBy ==
  ASSUME Snaps!TypeOK, NEW c \in Players, NEW new \in Seq(Snaps!Commits),
         Snaps!Put(c, main[c], new), Len(new) > 0,
         new[Len(new)].by = c, new[Len(new)].n = made[c] + Len(new)
  PROVE  Appended(c) /\ made'[c] = made[c] + Len(new)
<1>1. main[c] \in Seq(Snaps!Commits) /\ Len(main[c]) \in Nat /\ made[c] \in Nat
      /\ Len(new) \in Nat
  BY PartsTyped
<1>2. /\ main' \in [Players -> Seq(Snaps!Commits)] /\ made' \in [Players -> Nat]
      /\ made'[c] = made[c] + Len(new) /\ Len(main'[c]) = Len(main[c]) + Len(new)
      /\ \A i \in 1..Len(main[c]) : main'[c][i] = main[c][i]
      /\ \A i \in 1..Len(new) : main'[c][Len(main[c]) + i] = new[i]
      /\ \A d \in Players \ {c} : main'[d] = main[d] /\ made'[d] = made[d]
  BY <1>1, PutTyped
<1>3. main'[c][Len(main'[c])] = new[Len(new)]  BY <1>1, <1>2
<1> QED  BY <1>1, <1>2, <1>3 DEF Appended

LEMMA OneAppended ==
  ASSUME Snaps!TypeOK, NEW c \in Players, NEW kind \in {"start", "feat", "tree"},
         Snaps!Put(c, main[c], <<Snaps!Now(c, 1, kind)>>)
  PROVE  Appended(c) /\ made'[c] = made[c] + 1
<1>1. PICK k1 \in Snaps!Commits : k1 = Snaps!Now(c, 1, kind) /\ k1.by = c /\ k1.n = made[c] + 1
  BY NowTyped
<1>2. PICK new \in Seq(Snaps!Commits) : new = <<k1>> /\ Len(new) = 1 /\ new[1] = k1
  <2>1. <<k1>> \in Seq(Snaps!Commits) /\ Len(<<k1>>) = 1 /\ <<k1>>[1] = k1  OBVIOUS
  <2> QED  BY <2>1, Zenon
<1>3. Snaps!Put(c, main[c], new)  BY <1>1, <1>2
<1>4. Len(new) > 0 /\ new[Len(new)].by = c /\ new[Len(new)].n = made[c] + Len(new)
  BY <1>1, <1>2
<1>5. Appended(c) /\ made'[c] = made[c] + Len(new)  BY <1>3, <1>4, AppendedBy
<1> QED  BY <1>2, <1>5

LEMMA TwoAppended ==
  ASSUME Snaps!TypeOK, NEW c \in Players,
         Snaps!Put(c, main[c], <<Snaps!Now(c, 1, "start"), Snaps!Now(c, 2, "tree")>>)
  PROVE  Appended(c)
<1>1. PICK k1 \in Snaps!Commits : k1 = Snaps!Now(c, 1, "start")  BY NowTyped
<1>2. PICK k2 \in Snaps!Commits : k2 = Snaps!Now(c, 2, "tree") /\ k2.by = c /\ k2.n = made[c] + 2
  BY NowTyped
<1>3. PICK new \in Seq(Snaps!Commits) : new = <<k1, k2>> /\ Len(new) = 2 /\ new[2] = k2
  <2>1. <<k1, k2>> \in Seq(Snaps!Commits) /\ Len(<<k1, k2>>) = 2 /\ <<k1, k2>>[2] = k2
    OBVIOUS
  <2> QED  BY <2>1, Zenon
<1>4. Snaps!Put(c, main[c], new)  BY <1>1, <1>2, <1>3
<1> QED  BY <1>2, <1>3, <1>4, AppendedBy

\* A commit asks for a push, or its caller will.
LEMMA CommitKeeps ==
  ASSUME Snaps!TypeOK, NEW c \in Players, InStep(c), Appended(c),
         UNCHANGED <<store, push, waiters, ledger, told>>,
         queue'[c].replies = queue[c].replies, Snaps!Asked(c)' \/ Awaits(c)',
         \A k \in Snaps!Waiting :
           \/ caller'[c][k] = caller[c][k]
           \/ /\ caller[c][k].at = "idle" /\ caller'[c][k].at = "committed"
              /\ caller'[c][k].n = made'[c]
  PROVE  InStep(c)'
<1>0. /\ made[c] \in Nat /\ made'[c] \in Nat /\ Len(main[c]) \in Nat /\ Len(main'[c]) \in Nat
      /\ push[c].head \in Nat /\ push[c].pack \in Nat /\ push[c].base \in Nat
      /\ waiters[c] \in SUBSET Snaps!Waiting
      /\ \A k \in Snaps!Waiting : caller[c][k].n \in Nat
  BY PartsTyped DEF Appended
<1>1. Len(main'[c]) > Len(main[c]) /\ made'[c] > made[c]
      /\ \A i \in 1..Len(main[c]) : main'[c][i] = main[c][i]
  BY DEF Appended
<1>2. LastIsOwn(c)'  BY <1>0, <1>1 DEF Appended, LastIsOwn
<1>3. HeadIsOwn(c)'
  <2>1. SUFFICES ASSUME Reads(c) PROVE HeadIsOwn(c)'  BY DEF HeadIsOwn, Reads
  <2>2. /\ push[c].head \in 1..Len(main[c]) /\ main[c][push[c].head].by = c
        /\ \A k \in waiters[c] : caller[c][k].n <= main[c][push[c].head].n
    BY <2>1 DEF InStep, HeadIsOwn
  <2>3. push[c].head \in 1..Len(main'[c]) /\ main'[c][push[c].head] = main[c][push[c].head]
    BY <1>0, <1>1, <2>2
  <2>4. \A k \in waiters[c] : caller[c][k].at = "waiting"  BY <1>0 DEF InStep, CallersWait
  <2>5. \A k \in waiters[c] : caller'[c][k] = caller[c][k]  BY <1>0, <2>4
  <2> QED  BY <2>2, <2>3, <2>5 DEF HeadIsOwn
<1>4. Packed(c)'
  <2>1. SUFFICES ASSUME push[c].at = "sent" PROVE Packed(c)'  BY DEF Packed
  <2>2. /\ push[c].head <= push[c].pack /\ push[c].pack <= Len(main[c])
        /\ push[c].base <= push[c].pack /\ push[c].base <= Len(store)
        /\ \A i \in 1..push[c].base : store[i] = main[c][i]
    BY <2>1 DEF InStep, Packed
  <2>3. \A i \in 1..push[c].base : i \in 1..Len(main[c])  BY <1>0, <2>2
  <2>4. \A i \in 1..push[c].base : store[i] = main'[c][i]  BY <1>1, <2>2, <2>3
  <2>5. push[c].pack <= Len(main'[c])  BY <1>0, <1>1, <2>2
  <2> QED  BY <2>2, <2>4, <2>5 DEF Packed
<1>5. Fetched(c)'  BY DEF InStep, Fetched
<1>6. CallersWait(c)'
  <2>1. ASSUME NEW k \in Snaps!Waiting
        PROVE  /\ caller'[c][k].n <= made'[c]
               /\ caller'[c][k].at = "waiting" <=> k \in waiters[c] \cup queue[c].replies
    BY <1>0, <1>1, <2>1 DEF InStep, CallersWait
  <2>2. waiters'[c] \cap queue'[c].replies = {}  BY DEF InStep, CallersWait
  <2> QED  BY <2>1, <2>2 DEF InStep, CallersWait
<1>7. Excused(c)'  BY DEF InStep, Excused
<1>8. ToldRight(c)'
  <2>1. Snaps!Has(c, told[c])' = Snaps!Has(c, told[c])  BY DEF Snaps!Has
  <2> QED  BY <2>1 DEF InStep, ToldRight
<1> QED  BY <1>2, <1>3, <1>4, <1>5, <1>6, <1>7, <1>8 DEF InStep

-----------------------------------------------------------------------------
(* The steps *)

Frame(c) == \A d \in Players \ {c} :
  /\ main'[d] = main[d] /\ made'[d] = made[d] /\ queue'[d] = queue[d]
  /\ waiters'[d] = waiters[d] /\ push'[d] = push[d] /\ ledger'[d] = ledger[d]
  /\ caller'[d] = caller[d] /\ told'[d] = told[d] /\ (d \in open' => d \in open)

Step(c) == Snaps!TypeOK' /\ InStep(c)' /\ StoreGrows /\ Frame(c)

\* What TypeOK says of each variable.
Callers1 == [Snaps!Waiting -> [at : {"idle", "committed", "waiting"}, n : Nat]]
Ledgers  == [pushed : SUBSET Snaps!Commits, replaced : SUBSET Snaps!Commits, failed : BOOLEAN]
Queues   == [plain : BOOLEAN, replies : SUBSET Snaps!Waiting]

LEMMA TypeParts ==
  Snaps!TypeOK <=>
    /\ main \in [Players -> Seq(Snaps!Commits)] /\ store \in Seq(Snaps!Commits)
    /\ made \in [Players -> Nat] /\ open \subseteq Players
    /\ started \subseteq Players /\ filed \subseteq Players /\ dirty \subseteq Players
    /\ queue \in [Players -> Queues] /\ waiters \in [Players -> SUBSET Snaps!Waiting]
    /\ push \in [Players -> Snaps!Pushers] /\ ledger \in [Players -> Ledgers]
    /\ caller \in [Players -> Callers1]
    /\ told \in [Players -> Nat] /\ unheard \subseteq Players /\ breaks \in 0..MaxBreaks
BY DEF Snaps!TypeOK, Queues, Ledgers, Callers1

LEMMA RequestTyped ==
  ASSUME Snaps!TypeOK, NEW c \in Players, Snaps!Request(c)
  PROVE  /\ queue' \in [Players -> Queues] /\ queue'[c].replies = queue[c].replies
         /\ Snaps!Asked(c)' /\ \A d \in Players \ {c} : queue'[d] = queue[d]
<1>1. queue \in [Players -> Queues]  BY TypeParts
<1>2. queue[c] \in Queues  BY <1>1
<1>3. queue' = [queue EXCEPT ![c] = [queue[c] EXCEPT !.plain = TRUE]]  BY DEF Snaps!Request
<1>4. /\ [queue[c] EXCEPT !.plain = TRUE] \in Queues
      /\ [queue[c] EXCEPT !.plain = TRUE].replies = queue[c].replies
      /\ [queue[c] EXCEPT !.plain = TRUE].plain
  BY <1>2 DEF Queues
<1>5. /\ queue' \in [Players -> Queues] /\ queue'[c] = [queue[c] EXCEPT !.plain = TRUE]
      /\ \A d \in Players \ {c} : queue'[d] = queue[d]
  BY <1>1, <1>3, <1>4
<1>6. queue'[c].plain /\ ~Snaps!Silent.plain  BY <1>4, <1>5, RestingTyped
<1>7. queue'[c] # Snaps!Silent  BY <1>6
<1> QED  BY <1>4, <1>5, <1>7 DEF Snaps!Asked

\* Open, Probe and Finish.
LEMMA CommitAndRequest ==
  ASSUME PushInv, NEW c \in Players, Appended(c), Snaps!Request(c),
         UNCHANGED <<store, waiters, push, ledger, caller, told, unheard, breaks>>,
         open' \subseteq open \cup {c}, started' \subseteq Players, filed' \subseteq Players,
         dirty' \subseteq Players
  PROVE  Step(c)
<1>0. Snaps!TypeOK /\ InStep(c)  BY DEF PushInv
<1>1. /\ queue' \in [Players -> Queues] /\ queue'[c].replies = queue[c].replies
      /\ Snaps!Asked(c)' /\ \A d \in Players \ {c} : queue'[d] = queue[d]
  BY <1>0, RequestTyped
<1>2. InStep(c)'  BY <1>0, <1>1, CommitKeeps
<1>3. Snaps!TypeOK'
  <2>1. open' \subseteq Players  BY <1>0, TypeParts
  <2> QED  BY <1>0, <1>1, <2>1 DEF Snaps!TypeOK, Appended, Queues
<1>4. StoreGrows  BY <1>0, PartsTyped DEF StoreGrows
<1>5. Frame(c)  BY <1>1 DEF Frame, Appended
<1> QED  BY <1>2, <1>3, <1>4, <1>5 DEF Step

LEMMA OpenStep ==
  ASSUME PushInv, NEW c \in Players, Snaps!Open(c) PROVE Step(c)
<1>0. Snaps!TypeOK  BY DEF PushInv
<1>1. Snaps!Put(c, main[c], <<Snaps!Now(c, 1, "tree")>>) /\ Snaps!Request(c)
      /\ UNCHANGED <<store, waiters, push, ledger, caller, told, unheard, breaks>>
  BY DEF Snaps!Open, Snaps!seen
<1>2. Appended(c)  BY <1>0, <1>1, OneAppended
<1>3. open' \subseteq open \cup {c} /\ started' \subseteq Players /\ filed' \subseteq Players
      /\ dirty' \subseteq Players
  BY <1>0 DEF Snaps!Open, Snaps!TypeOK
<1> QED  BY <1>1, <1>2, <1>3, CommitAndRequest

LEMMA ProbeStep ==
  ASSUME PushInv, NEW c \in Players, Snaps!Probe(c) PROVE Step(c)
<1>0. Snaps!TypeOK  BY DEF PushInv
<1>1. /\ \/ Snaps!Put(c, main[c], <<Snaps!Now(c, 1, "tree")>>)
         \/ Snaps!Put(c, main[c], <<Snaps!Now(c, 1, "start"), Snaps!Now(c, 2, "tree")>>)
      /\ Snaps!Request(c)
      /\ UNCHANGED <<store, open, waiters, push, ledger, caller, told, unheard, breaks>>
  BY DEF Snaps!Probe, Snaps!seen
<1>2. Appended(c)  BY <1>0, <1>1, OneAppended, TwoAppended
<1>3. started' \subseteq Players /\ filed' \subseteq Players /\ dirty' \subseteq Players
  BY <1>0 DEF Snaps!Probe, Snaps!TypeOK
<1> QED  BY <1>1, <1>2, <1>3, CommitAndRequest

LEMMA FinishStep ==
  ASSUME PushInv, NEW c \in Players, Snaps!Finish(c) PROVE Step(c)
<1>0. Snaps!TypeOK  BY DEF PushInv
<1>1. Snaps!Put(c, main[c], <<Snaps!Now(c, 1, "feat")>>) /\ Snaps!Request(c)
      /\ UNCHANGED <<store, open, waiters, push, ledger, caller, told, unheard, breaks>>
  BY DEF Snaps!Finish, Snaps!seen
<1>2. Appended(c)  BY <1>0, <1>1, OneAppended
<1>3. started' \subseteq Players /\ filed' \subseteq Players /\ dirty' \subseteq Players
  BY <1>0 DEF Snaps!Finish, Snaps!TypeOK
<1> QED  BY <1>1, <1>2, <1>3, CommitAndRequest

\* A caller of one of a client's two kinds moves on.
LEMMA CallerMoves ==
  ASSUME Snaps!TypeOK, NEW c \in Players, NEW k \in Snaps!Waiting,
         NEW r \in [at : {"idle", "committed", "waiting"}, n : Nat],
         caller' = [caller EXCEPT ![c] = [caller[c] EXCEPT ![k] = r]]
  PROVE  /\ caller' \in [Players -> Callers1] /\ caller'[c][k] = r
         /\ \A j \in Snaps!Waiting \ {k} : caller'[c][j] = caller[c][j]
         /\ \A d \in Players \ {c} : caller'[d] = caller[d]
<1>1. caller \in [Players -> Callers1]  BY TypeParts
<1>2. caller[c] \in Callers1  BY <1>1
<1>3. /\ [caller[c] EXCEPT ![k] = r] \in Callers1 /\ [caller[c] EXCEPT ![k] = r][k] = r
      /\ \A j \in Snaps!Waiting \ {k} : [caller[c] EXCEPT ![k] = r][j] = caller[c][j]
  BY <1>2 DEF Callers1
<1>4. /\ caller' \in [Players -> Callers1] /\ caller'[c] = [caller[c] EXCEPT ![k] = r]
      /\ \A d \in Players \ {c} : caller'[d] = caller[d]
  BY <1>1, <1>3
<1> QED  BY <1>3, <1>4

LEMMA CommitStep ==
  ASSUME PushInv, NEW c \in Players, NEW k \in Snaps!Waiting, Snaps!Commit(c, k)
  PROVE  Step(c)
<1>0. Snaps!TypeOK /\ InStep(c)  BY DEF PushInv
<1>1. Snaps!Put(c, main[c], <<Snaps!Now(c, 1, "tree")>>) /\ caller[c][k].at = "idle"
      /\ UNCHANGED <<started, filed, store, open, queue, waiters, push, ledger, told, unheard, breaks>>
      /\ dirty' = dirty \ {c}
  BY DEF Snaps!Commit, Snaps!seen, Snaps!pusher
<1>2. Appended(c) /\ made'[c] = made[c] + 1  BY <1>0, <1>1, OneAppended
<1>3. made[c] \in Nat  BY <1>0, PartsTyped
<1>4. PICK r \in [at : {"idle", "committed", "waiting"}, n : Nat] :
        r = [at |-> "committed", n |-> made[c] + 1] /\ r.at = "committed" /\ r.n = made[c] + 1
  <2>1. /\ [at |-> "committed", n |-> made[c] + 1] \in [at : {"idle", "committed", "waiting"}, n : Nat]
        /\ [at |-> "committed", n |-> made[c] + 1].at = "committed"
        /\ [at |-> "committed", n |-> made[c] + 1].n = made[c] + 1
    BY <1>3
  <2> QED  BY <2>1, Zenon
<1>5. caller' = [caller EXCEPT ![c] = [caller[c] EXCEPT ![k] = r]]
  BY <1>4 DEF Snaps!Commit
<1>6. /\ caller' \in [Players -> Callers1] /\ caller'[c][k] = r
      /\ \A j \in Snaps!Waiting \ {k} : caller'[c][j] = caller[c][j]
      /\ \A d \in Players \ {c} : caller'[d] = caller[d]
  BY <1>0, <1>5, CallerMoves
<1>7. InStep(c)'
  <2>1. \A j \in Snaps!Waiting :
          \/ caller'[c][j] = caller[c][j]
          \/ /\ caller[c][j].at = "idle" /\ caller'[c][j].at = "committed"
             /\ caller'[c][j].n = made'[c]
    BY <1>1, <1>2, <1>4, <1>6
  <2>2. Awaits(c)'  BY <1>4, <1>6 DEF Awaits
  <2> QED  BY <1>0, <1>1, <1>2, <2>1, <2>2, CommitKeeps
<1>8. Snaps!TypeOK'
  BY <1>0, <1>1, <1>2, <1>6 DEF Snaps!TypeOK, Appended, Callers1
<1>9. StoreGrows  BY <1>0, <1>1, PartsTyped DEF StoreGrows
<1>10. Frame(c)  BY <1>1, <1>2, <1>6 DEF Frame, Appended
<1> QED  BY <1>7, <1>8, <1>9, <1>10 DEF Step

\* A step that leaves the lines, the clients that run and the server alone.
LEMMA StepOf ==
  ASSUME Snaps!TypeOK, NEW c \in Players, InStep(c)',
         UNCHANGED <<main, made, open, started, filed>>,
         store' \in Seq(Snaps!Commits), StoreGrows,
         dirty' \subseteq Players, unheard' \subseteq Players, breaks' \in 0..MaxBreaks,
         queue' \in [Players -> Queues], waiters' \in [Players -> SUBSET Snaps!Waiting],
         push' \in [Players -> Snaps!Pushers], ledger' \in [Players -> Ledgers],
         caller' \in [Players -> Callers1], told' \in [Players -> Nat],
         \A d \in Players \ {c} :
           /\ queue'[d] = queue[d] /\ waiters'[d] = waiters[d] /\ push'[d] = push[d]
           /\ ledger'[d] = ledger[d] /\ caller'[d] = caller[d] /\ told'[d] = told[d]
  PROVE  Step(c)
<1>1. Snaps!TypeOK'
  BY DEF Snaps!TypeOK, Queues, Ledgers, Callers1
<1>2. Frame(c)  BY DEF Frame
<1> QED  BY <1>1, <1>2 DEF Step

LEMMA StoreStays == ASSUME Snaps!TypeOK, UNCHANGED store
                    PROVE  store' \in Seq(Snaps!Commits) /\ StoreGrows
BY DEF StoreGrows, Snaps!TypeOK

LEMMA SmoothOrBreak == ASSUME Snaps!TypeOK, Snaps!Smooth \/ Snaps!Break
                       PROVE  breaks' \in 0..MaxBreaks
<1>1. breaks \in 0..MaxBreaks /\ MaxBreaks \in Nat  BY Delays DEF Snaps!TypeOK
<1> QED  BY <1>1 DEF Snaps!Smooth, Snaps!Break

LEMMA EditStep ==
  ASSUME PushInv, NEW c \in Players, Snaps!Edit(c) PROVE Step(c)
<1>0. Snaps!TypeOK /\ InStep(c)  BY DEF PushInv
<1>1. /\ UNCHANGED <<main, made, started, filed, store, open, queue, waiters, push, ledger,
                     caller, told, breaks>>
      /\ dirty' = dirty \cup {c} /\ unheard' = unheard \cup {c}
  BY DEF Snaps!Edit, Snaps!pusher, Snaps!Smooth
<1>2. store' \in Seq(Snaps!Commits) /\ StoreGrows  BY <1>0, <1>1, StoreStays
<1>3. InStep(c)'  BY <1>0, <1>1, <1>2, OthersStay
<1>4. dirty' \subseteq Players /\ unheard' \subseteq Players  BY <1>0, <1>1, TypeParts
<1> QED  BY <1>0, <1>1, <1>2, <1>3, <1>4, TypeParts, StepOf

LEMMA AskStep ==
  ASSUME PushInv, NEW c \in Players, NEW k \in Snaps!Waiting, Snaps!Ask(c, k)
  PROVE  Step(c)
<1>0. Snaps!TypeOK /\ InStep(c)  BY DEF PushInv
<1>1. /\ UNCHANGED <<main, made, started, filed, dirty, store, open, waiters, push, ledger,
                     told, unheard, breaks>>
      /\ caller[c][k].at = "committed"
  BY DEF Snaps!Ask, Snaps!repos, Snaps!seen
<1>2. PICK r \in [at : {"idle", "committed", "waiting"}, n : Nat] :
        r = [caller[c][k] EXCEPT !.at = "waiting"] /\ r.at = "waiting" /\ r.n = caller[c][k].n
  <2>1. caller[c][k] \in [at : {"idle", "committed", "waiting"}, n : Nat]
    BY <1>0, PartsTyped
  <2>2. /\ [caller[c][k] EXCEPT !.at = "waiting"] \in [at : {"idle", "committed", "waiting"}, n : Nat]
        /\ [caller[c][k] EXCEPT !.at = "waiting"].at = "waiting"
        /\ [caller[c][k] EXCEPT !.at = "waiting"].n = caller[c][k].n
    BY <2>1
  <2> QED  BY <2>2, Zenon
<1>3. caller' = [caller EXCEPT ![c] = [caller[c] EXCEPT ![k] = r]]
  BY <1>2 DEF Snaps!Ask
<1>4. /\ caller' \in [Players -> Callers1] /\ caller'[c][k] = r
      /\ \A j \in Snaps!Waiting \ {k} : caller'[c][j] = caller[c][j]
      /\ \A d \in Players \ {c} : caller'[d] = caller[d]
  BY <1>0, <1>3, CallerMoves
<1>5. /\ queue' \in [Players -> Queues] /\ queue'[c].replies = queue[c].replies \cup {k}
      /\ \A d \in Players \ {c} : queue'[d] = queue[d]
  <2>1. queue \in [Players -> Queues] /\ queue[c] \in Queues  BY <1>0, TypeParts
  <2>2. queue' = [queue EXCEPT ![c] = [queue[c] EXCEPT !.replies = queue[c].replies \cup {k}]]
    BY DEF Snaps!Ask
  <2>3. /\ [queue[c] EXCEPT !.replies = queue[c].replies \cup {k}] \in Queues
        /\ [queue[c] EXCEPT !.replies = queue[c].replies \cup {k}].replies
             = queue[c].replies \cup {k}
    BY <2>1 DEF Queues
  <2> QED  BY <2>1, <2>2, <2>3
<1>6. Snaps!Asked(c)'
  <2>1. queue'[c] # Snaps!Silent  BY <1>5, RestingTyped
  <2> QED  BY <2>1 DEF Snaps!Asked
<1>7. InStep(c)'
  <2>0. /\ waiters[c] \in SUBSET Snaps!Waiting /\ waiters'[c] = waiters[c]
        /\ \A j \in Snaps!Waiting : caller'[c][j].n = caller[c][j].n
    BY <1>0, <1>1, <1>2, <1>4, PartsTyped
  <2>1. LastIsOwn(c)'  BY <1>0, <1>1 DEF InStep, LastIsOwn
  <2>2. HeadIsOwn(c)'
    <3>1. HeadIsOwn(c)  BY <1>0 DEF InStep
    <3>2. Reads(c)' = Reads(c)  BY <1>1 DEF Reads
    <3>3. \A j \in waiters[c] : caller'[c][j].n = caller[c][j].n  BY <2>0
    <3> QED  BY <1>1, <1>6, <2>0, <3>1, <3>2, <3>3 DEF HeadIsOwn
  <2>3. Packed(c)' /\ Fetched(c)'  BY <1>0, <1>1 DEF InStep, Packed, Fetched
  <2>4. CallersWait(c)'
    <3>1. CallersWait(c)  BY <1>0 DEF InStep
    <3>2. ASSUME NEW j \in Snaps!Waiting
          PROVE  /\ caller'[c][j].n <= made'[c]
                 /\ caller'[c][j].at = "waiting" <=> j \in waiters'[c] \cup queue'[c].replies
      BY <1>1, <1>2, <1>4, <1>5, <2>0, <3>1, <3>2 DEF CallersWait
    <3>3. waiters'[c] \cap queue'[c].replies = {}
      BY <1>1, <1>5, <2>0, <3>1 DEF CallersWait
    <3> QED  BY <1>1, <3>1, <3>2, <3>3 DEF CallersWait
  <2>5. Excused(c)'  BY <1>0, <1>1, <1>6 DEF InStep, Excused
  <2>6. ToldRight(c)'
    <3>1. Snaps!Has(c, told[c])' = Snaps!Has(c, told[c])  BY <1>1 DEF Snaps!Has
    <3> QED  BY <1>0, <1>1, <3>1 DEF InStep, ToldRight
  <2> QED  BY <2>1, <2>2, <2>3, <2>4, <2>5, <2>6 DEF InStep
<1>8. store' \in Seq(Snaps!Commits) /\ StoreGrows  BY <1>0, <1>1, StoreStays
<1> QED  BY <1>0, <1>1, <1>4, <1>5, <1>7, <1>8, TypeParts, StepOf

-----------------------------------------------------------------------------
(* The pusher *)

LEMMA PushMoves ==
  ASSUME Snaps!TypeOK, NEW c \in Players, NEW p \in Snaps!Pushers,
         push' = [push EXCEPT ![c] = p]
  PROVE  /\ push' \in [Players -> Snaps!Pushers] /\ push'[c] = p
         /\ \A d \in Players \ {c} : push'[d] = push[d]
<1>1. push \in [Players -> Snaps!Pushers]  BY DEF Snaps!TypeOK
<1> QED  BY <1>1

LEMMA GoTyped ==
  ASSUME Snaps!TypeOK, NEW c \in Players, Snaps!Go(c, "push")
  PROVE  /\ push' \in [Players -> Snaps!Pushers] /\ push'[c].at = "push"
         /\ \A d \in Players \ {c} : push'[d] = push[d]
<1>1. PICK p \in Snaps!Pushers : p = [push[c] EXCEPT !.at = "push"] /\ p.at = "push"
  <2>1. push[c] \in Snaps!Pushers  BY PartsTyped
  <2>2. [push[c] EXCEPT !.at = "push"] \in Snaps!Pushers
        /\ [push[c] EXCEPT !.at = "push"].at = "push"
    BY <2>1 DEF Snaps!Pushers
  <2> QED  BY <2>2, Zenon
<1>2. push' = [push EXCEPT ![c] = p]  BY <1>1 DEF Snaps!Go
<1> QED  BY <1>1, <1>2, PushMoves

LEMMA DrainTyped ==
  ASSUME Snaps!TypeOK, NEW c \in Players, Snaps!Drain(c)
  PROVE  /\ queue' \in [Players -> Queues] /\ waiters' \in [Players -> SUBSET Snaps!Waiting]
         /\ waiters'[c] \cup queue'[c].replies = waiters[c] \cup queue[c].replies
         /\ waiters'[c] \cap queue'[c].replies = {}
         /\ \A d \in Players \ {c} : queue'[d] = queue[d] /\ waiters'[d] = waiters[d]
<1>1. /\ queue \in [Players -> Queues] /\ waiters \in [Players -> SUBSET Snaps!Waiting]
  BY TypeParts
<1>2. Snaps!Silent \in Queues  BY DEF Snaps!Silent, Queues
<1>3. queue[c].replies \in SUBSET Snaps!Waiting  BY <1>1 DEF Queues
<1>4. /\ queue' \in [Players -> Queues] /\ queue'[c] = Snaps!Silent
      /\ \A d \in Players \ {c} : queue'[d] = queue[d]
  BY <1>1, <1>2 DEF Snaps!Drain
<1>5. waiters[c] \cup queue[c].replies \in SUBSET Snaps!Waiting  BY <1>1, <1>3
<1>6. /\ waiters' \in [Players -> SUBSET Snaps!Waiting]
      /\ waiters'[c] = waiters[c] \cup queue[c].replies
      /\ \A d \in Players \ {c} : waiters'[d] = waiters[d]
  BY <1>1, <1>5 DEF Snaps!Drain
<1> QED  BY <1>4, <1>6, RestingTyped

\* The pusher goes on: nobody is answered yet.
LEMMA GoesOn ==
  ASSUME Snaps!TypeOK, NEW c \in Players, InStep(c),
         UNCHANGED <<main, made, open, caller, told>>,
         store' \in Seq(Snaps!Commits), StoreGrows,
         push'[c].at \in {"push", "recover", "backoff"},
         push'[c].at = "recover" => ledger'[c].failed,
         ledger'[c].pushed = ledger[c].pushed,
         waiters'[c] \cup queue'[c].replies = waiters[c] \cup queue[c].replies,
         waiters'[c] \cap queue'[c].replies = {}
  PROVE  InStep(c)'
<1>1. LastIsOwn(c)'  BY DEF InStep, LastIsOwn
<1>2. HeadIsOwn(c)' /\ Packed(c)' /\ Fetched(c)'  BY DEF HeadIsOwn, Reads, Packed, Fetched
<1>3. CallersWait(c)'  BY DEF InStep, CallersWait
<1>4. Excused(c)'  BY DEF Excused
<1>5. ToldRight(c)'
  <2>1. told[c] \in Nat  BY PartsTyped
  <2>2. Snaps!Line(store) \subseteq Snaps!Line(store')
        /\ (Snaps!Has(c, told[c]) => Snaps!Has(c, told[c])')
    BY <2>1, LinesGrow
  <2> QED  BY <2>2 DEF InStep, ToldRight
<1> QED  BY <1>1, <1>2, <1>3, <1>4, <1>5 DEF InStep

LEMMA TakeStep ==
  ASSUME PushInv, NEW c \in Players, Snaps!Take(c) PROVE Step(c)
<1>0. Snaps!TypeOK /\ InStep(c)  BY DEF PushInv
<1>1. /\ UNCHANGED <<main, made, started, filed, dirty, store, open, ledger, caller, told,
                     unheard, breaks>>
      /\ Snaps!Drain(c) /\ Snaps!Go(c, "push")
  BY DEF Snaps!Take, Snaps!repos, Snaps!seen
<1>2. store' \in Seq(Snaps!Commits) /\ StoreGrows  BY <1>0, <1>1, StoreStays
<1>3. InStep(c)'  BY <1>0, <1>1, <1>2, GoTyped, DrainTyped, GoesOn
<1> QED  BY <1>0, <1>1, <1>2, <1>3, GoTyped, DrainTyped, TypeParts, StepOf

LEMMA WakeStep ==
  ASSUME PushInv, NEW c \in Players, Snaps!Wake(c) PROVE Step(c)
<1>0. Snaps!TypeOK /\ InStep(c)  BY DEF PushInv
<1>1. /\ UNCHANGED <<main, made, started, filed, dirty, store, open, ledger, caller, told,
                     unheard, breaks>>
      /\ Snaps!Drain(c) \/ UNCHANGED <<queue, waiters>>
      /\ Snaps!Go(c, "push")
  BY DEF Snaps!Wake, Snaps!repos, Snaps!seen
<1>2. store' \in Seq(Snaps!Commits) /\ StoreGrows  BY <1>0, <1>1, StoreStays
<1>3. /\ queue' \in [Players -> Queues] /\ waiters' \in [Players -> SUBSET Snaps!Waiting]
      /\ waiters'[c] \cup queue'[c].replies = waiters[c] \cup queue[c].replies
      /\ waiters'[c] \cap queue'[c].replies = {}
      /\ \A d \in Players \ {c} : queue'[d] = queue[d] /\ waiters'[d] = waiters[d]
  BY <1>0, <1>1, DrainTyped, TypeParts DEF InStep, CallersWait
<1>4. InStep(c)'  BY <1>0, <1>1, <1>2, <1>3, GoTyped, GoesOn
<1> QED  BY <1>0, <1>1, <1>2, <1>3, <1>4, GoTyped, TypeParts, StepOf

LEMMA BeginStep ==
  ASSUME PushInv, NEW c \in Players, Snaps!Begin(c) PROVE Step(c)
<1>0. Snaps!TypeOK /\ InStep(c)  BY DEF PushInv
<1>1. /\ UNCHANGED <<main, made, started, filed, dirty, store, open, queue, waiters, ledger,
                     caller, told, unheard, breaks>>
      /\ c \in open
      /\ push' = [push EXCEPT ![c].at = "ready", ![c].head = Len(main[c])]
  BY DEF Snaps!Begin, Snaps!repos, Snaps!seen, Snaps!At
<1>2. main[c] \in Seq(Snaps!Commits) /\ Len(main[c]) \in Nat /\ made[c] \in Nat
      /\ waiters[c] \in SUBSET Snaps!Waiting
  BY <1>0, PartsTyped
<1>3. PICK p \in Snaps!Pushers :
        p = [push[c] EXCEPT !.at = "ready", !.head = Len(main[c])]
        /\ p.at = "ready" /\ p.head = Len(main[c])
  <2>1. push[c] \in Snaps!Pushers  BY <1>0, PartsTyped
  <2>2. /\ [push[c] EXCEPT !.at = "ready", !.head = Len(main[c])] \in Snaps!Pushers
        /\ [push[c] EXCEPT !.at = "ready", !.head = Len(main[c])].at = "ready"
        /\ [push[c] EXCEPT !.at = "ready", !.head = Len(main[c])].head = Len(main[c])
    BY <1>2, <2>1 DEF Snaps!Pushers
  <2> QED  BY <2>2, Zenon
<1>4. push' = [push EXCEPT ![c] = p]  BY <1>1, <1>3
<1>5. /\ push' \in [Players -> Snaps!Pushers] /\ push'[c] = p
      /\ \A d \in Players \ {c} : push'[d] = push[d]
  BY <1>0, <1>4, PushMoves
<1>6. InStep(c)'
  <2>1. LastIsOwn(c)  BY <1>0 DEF InStep
  <2>2. CallersWait(c)  BY <1>0 DEF InStep
  <2>3. Len(main[c]) > 0 /\ main[c][Len(main[c])].by = c /\ main[c][Len(main[c])].n = made[c]
    BY <1>1, <2>1 DEF LastIsOwn
  <2>4. LastIsOwn(c)'  BY <1>1, <2>1 DEF LastIsOwn
  <2>5. HeadIsOwn(c)'
    <3>1. Len(main[c]) \in 1..Len(main[c])  BY <1>2, <2>3
    <3>2. \A k \in waiters[c] : caller[c][k].n <= made[c]  BY <1>2, <2>2 DEF CallersWait
    <3> QED  BY <1>1, <1>3, <1>5, <2>3, <3>1, <3>2 DEF HeadIsOwn
  <2>6. Packed(c)' /\ Fetched(c)'  BY <1>3, <1>5 DEF Packed, Fetched
  <2>7. CallersWait(c)'  BY <1>1, <1>3, <1>5, <2>2 DEF CallersWait
  <2>8. Excused(c)'  BY <1>3, <1>5 DEF Excused
  <2>9. ToldRight(c)'
    <3>1. Snaps!Has(c, told[c])' = Snaps!Has(c, told[c])  BY <1>1 DEF Snaps!Has
    <3> QED  BY <1>0, <1>1, <3>1 DEF InStep, ToldRight
  <2> QED  BY <2>4, <2>5, <2>6, <2>7, <2>8, <2>9 DEF InStep
<1>7. store' \in Seq(Snaps!Commits) /\ StoreGrows  BY <1>0, <1>1, StoreStays
<1> QED  BY <1>0, <1>1, <1>5, <1>6, <1>7, TypeParts, StepOf

\* What the callers of a push are told.
LEMMA Told ==
  ASSUME Snaps!TypeOK, NEW c \in Players, NEW landed \in BOOLEAN, Snaps!Reply(c, landed)
  PROVE  /\ told' \in [Players -> Nat]
         /\ \/ told'[c] = told[c]
            \/ landed /\ \E k \in waiters[c] : told'[c] = caller[c][k].n
         /\ \A d \in Players \ {c} : told'[d] = told[d]
<1> DEFINE ks   == waiters[c]
           S    == {told[c]} \cup {caller[c][k].n : k \in ks}
           P(m) == IF landed THEN \A k \in ks : caller[c][k].n <= m /\ told[c] <= m
                             ELSE m = told[c]
<1>1. /\ told \in [Players -> Nat] /\ told[c] \in Nat /\ ks \in SUBSET Snaps!Waiting
      /\ \A k \in Snaps!Waiting : caller[c][k].n \in Nat
  BY PartsTyped, TypeParts
<1>2. told' = [told EXCEPT ![c] = CHOOSE m \in S : P(m)]  BY DEF Snaps!Reply
<1>3. \E m \in S : P(m)
  <2>1. CASE ~landed  BY <2>1
  <2>2. CASE landed
    <3>1. CASE ks = {}  BY <2>2, <3>1
    <3>2. CASE \E k \in ks : ks = {k}
      <4>1. PICK k \in ks : ks = {k}  BY <3>2
      <4>2. caller[c][k].n \in S /\ told[c] \in S /\ caller[c][k].n \in Nat  BY <1>1
      <4>3. CASE told[c] <= caller[c][k].n
        <5>1. \A j \in ks : caller[c][j].n <= caller[c][k].n /\ told[c] <= caller[c][k].n
          BY <1>1, <4>1, <4>2, <4>3
        <5> QED  BY <2>2, <4>2, <5>1
      <4>4. CASE caller[c][k].n <= told[c]
        <5>1. \A j \in ks : caller[c][j].n <= told[c] /\ told[c] <= told[c]
          BY <1>1, <4>1, <4>4
        <5> QED  BY <2>2, <4>2, <5>1
      <4> QED  BY <1>1, <4>2, <4>3, <4>4
    <3>3. CASE ks = Snaps!Waiting
      <4>1. PICK a \in Nat, b \in Nat : a = caller[c]["memory"].n /\ b = caller[c]["flag"].n
        BY <1>1 DEF Snaps!Waiting
      <4>2. a \in S /\ b \in S /\ told[c] \in S  BY <3>3, <4>1 DEF Snaps!Waiting
      <4>3. ASSUME NEW m \in Nat, a <= m, b <= m, told[c] <= m PROVE P(m)
        <5>1. \A k \in ks : k = "memory" \/ k = "flag"  BY <3>3 DEF Snaps!Waiting
        <5>2. \A k \in ks : caller[c][k].n <= m /\ told[c] <= m  BY <4>1, <4>3, <5>1
        <5> QED  BY <2>2, <5>2
      <4>4. \/ b <= a /\ told[c] <= a
            \/ a <= b /\ told[c] <= b
            \/ a <= told[c] /\ b <= told[c]
        BY <1>1, <4>1
      <4>5. a <= a /\ b <= b /\ told[c] <= told[c]  BY <1>1, <4>1
      <4> HIDE DEF S, P
      <4> QED  BY <1>1, <4>2, <4>3, <4>4, <4>5
    <3> QED  BY <1>1, <3>1, <3>2, <3>3 DEF Snaps!Waiting
  <2> QED  BY <2>1, <2>2
<1>4. PICK w : w = CHOOSE m \in S : P(m)  OBVIOUS
<1>5. w \in S /\ P(w)
  <2> HIDE DEF S, P
  <2> QED  BY <1>3, <1>4, Zenon
<1>6. w \in Nat /\ (w = told[c] \/ (landed /\ \E k \in ks : w = caller[c][k].n))
  BY <1>1, <1>5
<1>7. /\ told' \in [Players -> Nat] /\ told'[c] = w
      /\ \A d \in Players \ {c} : told'[d] = told[d]
  <2> HIDE DEF S, P
  <2> QED  BY <1>1, <1>2, <1>4, <1>6
<1> QED  BY <1>6, <1>7

LEMMA ReplyTyped ==
  ASSUME Snaps!TypeOK, NEW c \in Players, NEW landed \in BOOLEAN, Snaps!Reply(c, landed)
  PROVE  /\ push' \in [Players -> Snaps!Pushers] /\ push'[c].at = "idle"
         /\ waiters' \in [Players -> SUBSET Snaps!Waiting] /\ waiters'[c] = {}
         /\ caller' \in [Players -> Callers1] /\ queue' = queue /\ unheard' \subseteq Players
         /\ \A k \in Snaps!Waiting :
              caller'[c][k] = IF k \in waiters[c] THEN Snaps!Nothing ELSE caller[c][k]
         /\ \A d \in Players \ {c} :
              push'[d] = push[d] /\ waiters'[d] = waiters[d] /\ caller'[d] = caller[d]
<1>1. push' = [push EXCEPT ![c] = Snaps!Resting]  BY DEF Snaps!Reply
<1>2. /\ push' \in [Players -> Snaps!Pushers] /\ push'[c].at = "idle"
      /\ \A d \in Players \ {c} : push'[d] = push[d]
  BY <1>1, RestingTyped, PushMoves
<1>3. /\ waiters' \in [Players -> SUBSET Snaps!Waiting] /\ waiters'[c] = {}
      /\ \A d \in Players \ {c} : waiters'[d] = waiters[d]
  BY DEF Snaps!Reply, Snaps!TypeOK
<1>4. queue' = queue /\ unheard' \subseteq Players  BY DEF Snaps!Reply, Snaps!TypeOK
<1>5. caller \in [Players -> Callers1] /\ caller[c] \in Callers1  BY TypeParts
<1>6. Snaps!Nothing \in [at : {"idle", "committed", "waiting"}, n : Nat]
  BY DEF Snaps!Nothing
<1>7. PICK f : f = [k \in Snaps!Waiting |->
                      IF k \in waiters[c] THEN Snaps!Nothing ELSE caller[c][k]]
  OBVIOUS
<1>8. f \in Callers1
      /\ \A k \in Snaps!Waiting : f[k] = IF k \in waiters[c] THEN Snaps!Nothing ELSE caller[c][k]
  BY <1>5, <1>6, <1>7 DEF Callers1
<1>9. caller' = [caller EXCEPT ![c] = f]  BY <1>7 DEF Snaps!Reply
<1>10. /\ caller' \in [Players -> Callers1] /\ caller'[c] = f
       /\ \A d \in Players \ {c} : caller'[d] = caller[d]
  BY <1>5, <1>8, <1>9
<1> QED  BY <1>2, <1>3, <1>4, <1>8, <1>10

\* A push ends, and the pusher rests.
LEMMA Rests ==
  ASSUME Snaps!TypeOK, NEW c \in Players, InStep(c), NEW landed \in BOOLEAN,
         Snaps!Reply(c, landed), UNCHANGED <<main, made, open>>,
         store' \in Seq(Snaps!Commits), StoreGrows,
         ledger'[c].pushed \subseteq Snaps!Line(store'),
         ledger'[c].failed \/ Snaps!Has(c, made[c])' \/ Snaps!Asked(c) \/ Awaits(c),
         landed => \A k \in waiters[c], n \in Nat : n = caller[c][k].n => Snaps!Has(c, n)'
  PROVE  InStep(c)'
<1>1. LastIsOwn(c)'  BY DEF InStep, LastIsOwn
<1>2. HeadIsOwn(c)' /\ Packed(c)' /\ Fetched(c)'
  BY ReplyTyped DEF HeadIsOwn, Reads, Packed, Fetched
<1>3. CallersWait(c)'
  <2>0. made[c] \in Nat /\ waiters[c] \in SUBSET Snaps!Waiting
        /\ queue[c].replies \in SUBSET Snaps!Waiting
    BY PartsTyped
  <2>1. ASSUME NEW k \in Snaps!Waiting
        PROVE  /\ caller'[c][k].n <= made'[c]
               /\ caller'[c][k].at = "waiting" <=> k \in waiters'[c] \cup queue'[c].replies
    <3>1. caller[c][k].n <= made[c]
          /\ (caller[c][k].at = "waiting" <=> k \in waiters[c] \cup queue[c].replies)
      BY <2>1 DEF InStep, CallersWait
    <3>2. CASE k \notin waiters[c]
      <4>1. caller'[c][k] = caller[c][k]  BY <2>1, <3>2, ReplyTyped
      <4>2. waiters'[c] = {} /\ queue' = queue  BY ReplyTyped
      <4> QED  BY <3>1, <3>2, <4>1, <4>2
    <3>3. CASE k \in waiters[c]
      <4>1. caller'[c][k] = Snaps!Nothing  BY <2>1, <3>3, ReplyTyped
      <4>2. waiters'[c] = {} /\ queue' = queue  BY ReplyTyped
      <4>3. k \notin queue[c].replies  BY <3>3 DEF InStep, CallersWait
      <4> QED  BY <2>0, <4>1, <4>2, <4>3, RestingTyped
    <3> QED  BY <3>2, <3>3
  <2> QED  BY <2>1, ReplyTyped DEF CallersWait
<1>4. Excused(c)'
  <2>1. Snaps!Asked(c)' = Snaps!Asked(c)  BY ReplyTyped DEF Snaps!Asked
  <2>2. Awaits(c) => Awaits(c)'
    <3>1. SUFFICES ASSUME NEW k \in Snaps!Waiting, caller[c][k].at = "committed"
                   PROVE  Awaits(c)'
      BY DEF Awaits
    <3>2. k \notin waiters[c]  BY <3>1 DEF InStep, CallersWait
    <3>3. caller'[c][k] = caller[c][k]  BY <3>1, <3>2, ReplyTyped
    <3> QED  BY <3>1, <3>3 DEF Awaits
  <2> QED  BY <2>1, <2>2, ReplyTyped DEF Excused
<1>5. ToldRight(c)'
  <2>1. /\ told[c] \in Nat /\ waiters[c] \in SUBSET Snaps!Waiting
        /\ \A k \in Snaps!Waiting : caller[c][k].n \in Nat
    BY PartsTyped
  <2>2. PICK n : n = told'[c]  OBVIOUS
  <2>3. CASE n = told[c]
    <3>1. Snaps!Has(c, n) => Snaps!Has(c, n)'  BY <2>1, <2>3, LinesGrow
    <3>2. n > 0 => Snaps!Has(c, n)  BY <2>3 DEF InStep, ToldRight
    <3> QED  BY <2>2, <3>1, <3>2 DEF ToldRight, Snaps!Has
  <2>4. CASE landed /\ \E k \in waiters[c] : n = caller[c][k].n
    <3>1. Snaps!Has(c, n)'  BY <2>1, <2>4
    <3> QED  BY <2>2, <3>1 DEF ToldRight, Snaps!Has
  <2> QED  BY <2>2, <2>3, <2>4, Told
<1> QED  BY <1>1, <1>2, <1>3, <1>4, <1>5 DEF InStep

LEMMA FailsTyped ==
  ASSUME Snaps!TypeOK, NEW c \in Players, Snaps!Fails(c)
  PROVE  /\ ledger' \in [Players -> Ledgers] /\ ledger'[c].failed
         /\ ledger'[c].pushed = ledger[c].pushed
         /\ \A d \in Players \ {c} : ledger'[d] = ledger[d]
<1>1. ledger \in [Players -> Ledgers] /\ ledger[c] \in Ledgers  BY TypeParts
<1>2. ledger' = [ledger EXCEPT ![c] = [ledger[c] EXCEPT !.failed = TRUE]]  BY DEF Snaps!Fails
<1>3. /\ [ledger[c] EXCEPT !.failed = TRUE] \in Ledgers
      /\ [ledger[c] EXCEPT !.failed = TRUE].failed
      /\ [ledger[c] EXCEPT !.failed = TRUE].pushed = ledger[c].pushed
  BY <1>1 DEF Ledgers
<1> QED  BY <1>1, <1>2, <1>3

\* Failed and Rejected with another attempt to come.
LEMMA TriesOn ==
  ASSUME Snaps!TypeOK, NEW c \in Players,
         \/ /\ push[c].tries # Retries
            /\ push' = [push EXCEPT ![c].at = "backoff", ![c].tries = @ + 1]
         \/ push' = [push EXCEPT ![c].at = "recover", ![c].again = TRUE]
  PROVE  /\ push' \in [Players -> Snaps!Pushers] /\ push'[c].at \in {"recover", "backoff"}
         /\ \A d \in Players \ {c} : push'[d] = push[d]
<1>1. push[c] \in Snaps!Pushers /\ Retries \in Nat  BY PartsTyped, Delays
<1>2. PICK p : /\ push' = [push EXCEPT ![c] = p]
               /\ \/ /\ push[c].tries # Retries
                     /\ p = [push[c] EXCEPT !.at = "backoff", !.tries = push[c].tries + 1]
                  \/ p = [push[c] EXCEPT !.at = "recover", !.again = TRUE]
  <2>1. CASE /\ push[c].tries # Retries
             /\ push' = [push EXCEPT ![c].at = "backoff", ![c].tries = @ + 1]
    <3>1. push' = [push EXCEPT ![c] =
                     [push[c] EXCEPT !.at = "backoff", !.tries = push[c].tries + 1]]
      BY <2>1
    <3> QED  BY <2>1, <3>1, Zenon
  <2>2. CASE push' = [push EXCEPT ![c].at = "recover", ![c].again = TRUE]
    <3>1. push' = [push EXCEPT ![c] = [push[c] EXCEPT !.at = "recover", !.again = TRUE]]
      BY <2>2
    <3> QED  BY <3>1, Zenon
  <2> QED  BY <2>1, <2>2
<1>3. p \in Snaps!Pushers /\ p.at \in {"recover", "backoff"}
  <2>1. push[c].tries \in 0..Retries  BY <1>1 DEF Snaps!Pushers
  <2>2. push[c].tries # Retries => push[c].tries + 1 \in 0..Retries  BY <1>1, <2>1
  <2> QED  BY <1>1, <1>2, <2>2 DEF Snaps!Pushers
<1> QED  BY <1>2, <1>3, PushMoves

\* A push that failed, was killed or refused, whatever the server did.
LEMMA Refused ==
  ASSUME PushInv, NEW c \in Players, Snaps!Failed(c) \/ Snaps!Killed(c) \/ Snaps!Rejected(c),
         UNCHANGED <<main, made, started, filed, dirty, open>>,
         store' \in Seq(Snaps!Commits), StoreGrows, breaks' \in 0..MaxBreaks
  PROVE  Step(c)
<1>0. Snaps!TypeOK /\ InStep(c)  BY DEF PushInv
<1>1. Snaps!Fails(c)  BY DEF Snaps!Failed, Snaps!Killed, Snaps!Rejected
<1>2. \/ Snaps!Reply(c, FALSE)
      \/ /\ \/ /\ push[c].tries # Retries
               /\ push' = [push EXCEPT ![c].at = "backoff", ![c].tries = @ + 1]
            \/ push' = [push EXCEPT ![c].at = "recover", ![c].again = TRUE]
         /\ UNCHANGED <<queue, waiters, caller, told, unheard>>
  BY DEF Snaps!Failed, Snaps!Killed, Snaps!Rejected
<1>3. /\ ledger' \in [Players -> Ledgers] /\ ledger'[c].failed
      /\ ledger'[c].pushed = ledger[c].pushed
      /\ \A d \in Players \ {c} : ledger'[d] = ledger[d]
  BY <1>0, <1>1, FailsTyped
<1>4. ledger'[c].pushed \subseteq Snaps!Line(store')
  BY <1>0, <1>3, LinesGrow DEF InStep, ToldRight
<1>5. CASE Snaps!Reply(c, FALSE)
  <2>1. InStep(c)'  BY <1>0, <1>3, <1>4, <1>5, Rests
  <2>2. /\ push' \in [Players -> Snaps!Pushers]
        /\ waiters' \in [Players -> SUBSET Snaps!Waiting]
        /\ caller' \in [Players -> Callers1] /\ queue' = queue /\ unheard' \subseteq Players
        /\ \A d \in Players \ {c} :
             push'[d] = push[d] /\ waiters'[d] = waiters[d] /\ caller'[d] = caller[d]
    BY <1>0, <1>5, ReplyTyped
  <2>3. told' \in [Players -> Nat] /\ \A d \in Players \ {c} : told'[d] = told[d]
    BY <1>0, <1>5, Told
  <2>4. queue' \in [Players -> Queues] /\ dirty' \subseteq Players
    BY <1>0, <2>2, TypeParts
  <2> QED  BY <1>0, <1>3, <2>1, <2>2, <2>3, <2>4, StepOf
<1>6. CASE /\ \/ /\ push[c].tries # Retries
                 /\ push' = [push EXCEPT ![c].at = "backoff", ![c].tries = @ + 1]
              \/ push' = [push EXCEPT ![c].at = "recover", ![c].again = TRUE]
           /\ UNCHANGED <<queue, waiters, caller, told, unheard>>
  <2>1. /\ push' \in [Players -> Snaps!Pushers] /\ push'[c].at \in {"recover", "backoff"}
        /\ \A d \in Players \ {c} : push'[d] = push[d]
    BY <1>0, <1>6, TriesOn
  <2>2. waiters[c] \cap queue[c].replies = {}  BY <1>0 DEF InStep, CallersWait
  <2>3. InStep(c)'  BY <1>0, <1>3, <1>6, <2>1, <2>2, GoesOn
  <2> QED  BY <1>0, <1>3, <1>6, <2>1, <2>3, TypeParts, StepOf
<1> QED  BY <1>2, <1>5, <1>6

LEMMA SendStep ==
  ASSUME PushInv, NEW c \in Players, Snaps!Send(c) PROVE Step(c)
<1>0. Snaps!TypeOK /\ InStep(c)  BY DEF PushInv
<1>1. /\ UNCHANGED <<main, made, started, filed, dirty, store, open>>
      /\ push[c].at = "ready" /\ (Snaps!Smooth \/ Snaps!Break)
  BY DEF Snaps!Send, Snaps!repos, Snaps!At
<1>2. store' \in Seq(Snaps!Commits) /\ StoreGrows /\ breaks' \in 0..MaxBreaks
  BY <1>0, <1>1, StoreStays, SmoothOrBreak
<1>3. CASE Snaps!Failed(c) \/ Snaps!Rejected(c)
  BY <1>1, <1>2, <1>3, Refused
<1>4. CASE /\ Snaps!Extends(main[c], store)
           /\ push' = [push EXCEPT ![c].at = "sent", ![c].pack = Len(main[c]),
                                   ![c].base = Len(store)]
           /\ UNCHANGED <<queue, waiters, ledger, caller, told, unheard>>
  <2>1. main[c] \in Seq(Snaps!Commits) /\ Len(main[c]) \in Nat /\ Len(store) \in Nat
        /\ push[c] \in Snaps!Pushers /\ push[c].head \in Nat /\ store \in Seq(Snaps!Commits)
    BY <1>0, PartsTyped
  <2>2. PICK p \in Snaps!Pushers :
          /\ p = [push[c] EXCEPT !.at = "sent", !.pack = Len(main[c]), !.base = Len(store)]
          /\ p.at = "sent" /\ p.pack = Len(main[c]) /\ p.base = Len(store)
          /\ p.head = push[c].head
    <3> DEFINE q == [push[c] EXCEPT !.at = "sent", !.pack = Len(main[c]), !.base = Len(store)]
    <3>1. /\ q \in Snaps!Pushers /\ q.at = "sent" /\ q.pack = Len(main[c])
          /\ q.base = Len(store) /\ q.head = push[c].head
      BY <2>1 DEF Snaps!Pushers
    <3> QED  BY <3>1, Zenon
  <2>3. push' = [push EXCEPT ![c] = p]  BY <1>4, <2>2
  <2>4. /\ push' \in [Players -> Snaps!Pushers] /\ push'[c] = p
        /\ \A d \in Players \ {c} : push'[d] = push[d]
    BY <1>0, <2>3, PushMoves
  <2>5. /\ Len(store) <= Len(main[c])
        /\ \A i \in 1..Len(store) : store[i] = main[c][i]
    <3>1. Len(store) <= Len(main[c]) /\ Snaps!Upto(main[c], Len(store)) = store
      BY <1>4 DEF Snaps!Extends
    <3>2. Len(store) \in 0..Len(main[c])  BY <2>1, <3>1
    <3>3. \A i \in 1..Len(store) : Snaps!Upto(main[c], Len(store))[i] = main[c][i]
      BY <2>1, <3>2, UptoTyped
    <3> QED  BY <3>1, <3>3
  <2>6. InStep(c)'
    <3>1. LastIsOwn(c)'  BY <1>0, <1>1 DEF InStep, LastIsOwn
    <3>2. HeadIsOwn(c)'
      <4>1. HeadIsOwn(c) /\ Reads(c)  BY <1>0, <1>1 DEF InStep, Reads
      <4>2. Snaps!Asked(c)' = Snaps!Asked(c) /\ Awaits(c)' = Awaits(c)
        BY <1>4 DEF Snaps!Asked, Awaits
      <4>3. push'[c].head = push[c].head  BY <2>2, <2>4
      <4> QED  BY <1>1, <1>4, <4>1, <4>2, <4>3 DEF HeadIsOwn
    <3>3. Packed(c)'
      <4>1. push[c].head <= Len(main[c])
        BY <1>0, <1>1, <2>1 DEF InStep, HeadIsOwn, Reads
      <4> QED  BY <1>1, <2>1, <2>2, <2>4, <2>5, <4>1 DEF Packed
    <3>4. Fetched(c)'  BY <2>2, <2>4 DEF Fetched
    <3>5. CallersWait(c)'  BY <1>0, <1>1, <1>4, <2>2, <2>4 DEF InStep, CallersWait
    <3>6. Excused(c)'  BY <2>2, <2>4 DEF Excused
    <3>7. ToldRight(c)'
      <4>1. Snaps!Has(c, told[c])' = Snaps!Has(c, told[c])  BY <1>1, <1>4 DEF Snaps!Has
      <4> QED  BY <1>0, <1>1, <1>4, <4>1 DEF InStep, ToldRight
    <3> QED  BY <3>1, <3>2, <3>3, <3>4, <3>5, <3>6, <3>7 DEF InStep
  <2> QED  BY <1>0, <1>1, <1>2, <1>4, <2>4, <2>6, TypeParts, StepOf
<1> QED  BY <1>3, <1>4 DEF Snaps!Send

\* The server's line after a push that landed: what was packed, and so the head.
Landed(c) ==
  \/ push[c].pack = push[c].base /\ UNCHANGED store
  \/ Len(store) = push[c].base /\ store' = Snaps!Upto(main[c], push[c].pack)

LEMMA PackLands ==
  ASSUME Snaps!TypeOK, NEW c \in Players, InStep(c), push[c].at = "sent", Landed(c)
  PROVE  /\ store' \in Seq(Snaps!Commits) /\ StoreGrows
         /\ push[c].head \in 1..Len(main[c])
         /\ \A i \in 1..push[c].head : main[c][i] \in Snaps!Line(store')
<1>0. /\ main[c] \in Seq(Snaps!Commits) /\ store \in Seq(Snaps!Commits)
      /\ Len(main[c]) \in Nat /\ Len(store) \in Nat
      /\ push[c].head \in Nat /\ push[c].pack \in Nat /\ push[c].base \in Nat
  BY PartsTyped
<1>1. /\ push[c].head <= push[c].pack /\ push[c].pack <= Len(main[c])
      /\ push[c].base <= push[c].pack /\ push[c].base <= Len(store)
      /\ \A i \in 1..push[c].base : store[i] = main[c][i]
  BY DEF InStep, Packed
<1>2. push[c].head \in 1..Len(main[c])  BY DEF InStep, HeadIsOwn, Reads
<1>3. CASE push[c].pack = push[c].base /\ UNCHANGED store
  <2>1. store' \in Seq(Snaps!Commits) /\ StoreGrows  BY <1>3, StoreStays
  <2>2. \A i \in 1..push[c].head : i \in 1..push[c].base /\ i \in DOMAIN store
    BY <1>0, <1>1, <1>3
  <2>3. \A i \in 1..push[c].head : main[c][i] = store'[i] /\ i \in DOMAIN store'
    BY <1>1, <1>3, <2>2
  <2> QED  BY <1>2, <2>1, <2>3 DEF Snaps!Line
<1>4. CASE Len(store) = push[c].base /\ store' = Snaps!Upto(main[c], push[c].pack)
  <2>1. push[c].pack \in 0..Len(main[c])  BY <1>0, <1>1
  <2>2. /\ store' \in Seq(Snaps!Commits) /\ Len(store') = push[c].pack
        /\ \A i \in 1..push[c].pack : store'[i] = main[c][i]
        /\ Snaps!Line(store') = {main[c][i] : i \in 1..push[c].pack}
    BY <1>0, <1>4, <2>1, UptoTyped
  <2>3. StoreGrows
    <3>1. \A i \in 1..Len(store) : i \in 1..push[c].base /\ i \in 1..push[c].pack
      BY <1>0, <1>1, <1>4
    <3>2. \A i \in 1..Len(store) : store'[i] = store[i]  BY <1>1, <2>2, <3>1
    <3>3. Len(store) <= Len(store')  BY <1>1, <1>4, <2>2
    <3> QED  BY <3>2, <3>3 DEF StoreGrows
  <2>4. \A i \in 1..push[c].head : i \in 1..push[c].pack  BY <1>0, <1>1
  <2> QED  BY <1>2, <2>2, <2>3, <2>4
<1> QED  BY <1>3, <1>4 DEF Landed

LEMMA PushedTyped ==
  ASSUME Snaps!TypeOK, NEW c \in Players, push[c].head \in 1..Len(main[c]),
         \A i \in 1..push[c].head : main[c][i] \in Snaps!Line(store'),
         Snaps!Line(store) \subseteq Snaps!Line(store'),
         ledger[c].pushed \subseteq Snaps!Line(store), Snaps!Pushed(c)
  PROVE  /\ ledger' \in [Players -> Ledgers]
         /\ ledger'[c].pushed \subseteq Snaps!Line(store')
         /\ \A d \in Players \ {c} : ledger'[d] = ledger[d]
<1> DEFINE new == Snaps!Line(Snaps!Upto(main[c], push[c].head))
<1>1. main[c] \in Seq(Snaps!Commits) /\ Len(main[c]) \in Nat  BY PartsTyped
<1>2. push[c].head \in 0..Len(main[c])  BY <1>1
<1>3. new = {main[c][i] : i \in 1..push[c].head}  BY <1>1, <1>2, UptoTyped
<1>4. \A i \in 1..push[c].head : main[c][i] \in Snaps!Commits  BY <1>1, <1>2
<1>5. new \subseteq Snaps!Commits /\ new \subseteq Snaps!Line(store')  BY <1>3, <1>4
<1>6. ledger \in [Players -> Ledgers] /\ ledger[c] \in Ledgers  BY TypeParts
<1>7. ledger' = [ledger EXCEPT ![c] =
                   [ledger[c] EXCEPT !.pushed = ledger[c].pushed \cup new, !.failed = FALSE]]
  BY DEF Snaps!Pushed
<1> HIDE DEF new
<1>8. ledger[c].pushed \cup new \in SUBSET Snaps!Commits  BY <1>5, <1>6 DEF Ledgers
<1>9. PICK l \in Ledgers :
        /\ l = [ledger[c] EXCEPT !.pushed = ledger[c].pushed \cup new, !.failed = FALSE]
        /\ l.pushed = ledger[c].pushed \cup new
  <2>1. /\ [ledger[c] EXCEPT !.pushed = ledger[c].pushed \cup new, !.failed = FALSE] \in Ledgers
        /\ [ledger[c] EXCEPT !.pushed = ledger[c].pushed \cup new, !.failed = FALSE].pushed
             = ledger[c].pushed \cup new
    BY <1>6, <1>8 DEF Ledgers
  <2> QED  BY <2>1, Zenon
<1>10. /\ ledger' \in [Players -> Ledgers] /\ ledger'[c] = l
       /\ \A d \in Players \ {c} : ledger'[d] = ledger[d]
  BY <1>6, <1>7, <1>9
<1> QED  BY <1>5, <1>9, <1>10

LEMMA PushedStep ==
  ASSUME PushInv, NEW c \in Players, push[c].at = "sent", Landed(c), Snaps!Pushed(c),
         UNCHANGED <<main, made, started, filed, dirty, open>>, Snaps!Smooth
  PROVE  Step(c)
<1>0. Snaps!TypeOK /\ InStep(c)  BY DEF PushInv
<1>1. /\ store' \in Seq(Snaps!Commits) /\ StoreGrows
      /\ push[c].head \in 1..Len(main[c])
      /\ \A i \in 1..push[c].head : main[c][i] \in Snaps!Line(store')
  BY <1>0, PackLands
<1>2. /\ Snaps!Line(store) \subseteq Snaps!Line(store')
      /\ ledger[c].pushed \subseteq Snaps!Line(store)
  BY <1>0, <1>1, LinesGrow DEF InStep, ToldRight
<1>3. /\ ledger' \in [Players -> Ledgers]
      /\ ledger'[c].pushed \subseteq Snaps!Line(store')
      /\ \A d \in Players \ {c} : ledger'[d] = ledger[d]
  BY <1>0, <1>1, <1>2, PushedTyped
<1>4. Snaps!Reply(c, TRUE)  BY DEF Snaps!Pushed
<1>5. PICK h \in Snaps!Line(store') :
        /\ h = main[c][push[c].head] /\ h.by = c
        /\ \A k \in waiters[c] : caller[c][k].n <= h.n
        /\ h.n = made[c] \/ Snaps!Asked(c) \/ Awaits(c)
  <2>1. push[c].head \in 1..push[c].head  BY <1>0, <1>1, PartsTyped
  <2>2. main[c][push[c].head] \in Snaps!Line(store')  BY <1>1, <2>1
  <2>3. HeadIsOwn(c) /\ Reads(c)  BY <1>0 DEF InStep, Reads
  <2> QED  BY <2>2, <2>3 DEF HeadIsOwn
<1>6. /\ made[c] \in Nat /\ waiters[c] \in SUBSET Snaps!Waiting
      /\ \A k \in Snaps!Waiting : caller[c][k].n \in Nat
  BY <1>0, PartsTyped
<1>7. h.n \in Nat
  <2>1. h \in Snaps!Commits  BY <1>1, <1>5 DEF Snaps!Line
  <2> QED  BY <2>1 DEF Snaps!Commits
<1>8. \A n \in Nat : n <= h.n => Snaps!Has(c, n)'  BY <1>5, <1>7 DEF Snaps!Has
<1>9. \A k \in waiters[c], n \in Nat : n = caller[c][k].n => Snaps!Has(c, n)'
  BY <1>5, <1>6, <1>8
<1>10. h.n = made[c] => Snaps!Has(c, made[c])'  BY <1>6, <1>8
<1>11. InStep(c)'  BY <1>0, <1>1, <1>3, <1>4, <1>5, <1>9, <1>10, Rests
<1>12. breaks' \in 0..MaxBreaks  BY <1>0, SmoothOrBreak
<1>13. /\ push' \in [Players -> Snaps!Pushers]
       /\ waiters' \in [Players -> SUBSET Snaps!Waiting]
       /\ caller' \in [Players -> Callers1] /\ queue' = queue /\ unheard' \subseteq Players
       /\ \A d \in Players \ {c} :
            push'[d] = push[d] /\ waiters'[d] = waiters[d] /\ caller'[d] = caller[d]
  BY <1>0, <1>4, ReplyTyped
<1>14. told' \in [Players -> Nat] /\ \A d \in Players \ {c} : told'[d] = told[d]
  BY <1>0, <1>4, Told
<1>15. queue' \in [Players -> Queues] /\ dirty' \subseteq Players
  BY <1>0, <1>13, TypeParts
<1> QED  BY <1>0, <1>1, <1>3, <1>11, <1>12, <1>13, <1>14, <1>15, StepOf

LEMMA LandStep ==
  ASSUME PushInv, NEW c \in Players, Snaps!Land(c) PROVE Step(c)
<1>0. Snaps!TypeOK /\ InStep(c)  BY DEF PushInv
<1>1. /\ UNCHANGED <<main, made, started, filed, dirty, open>>
      /\ push[c].at = "sent" /\ (Snaps!Smooth \/ Snaps!Break)
      /\ \/ Landed(c) /\ Snaps!Pushed(c) /\ Snaps!Smooth
         \/ /\ Landed(c) \/ UNCHANGED store
            /\ Snaps!Failed(c) \/ Snaps!Killed(c) \/ Snaps!Rejected(c)
  BY DEF Snaps!Land, Snaps!repos, Snaps!At, Landed
<1>2. breaks' \in 0..MaxBreaks  BY <1>0, <1>1, SmoothOrBreak
<1>3. CASE Landed(c) /\ Snaps!Pushed(c) /\ Snaps!Smooth
  BY <1>1, <1>3, PushedStep
<1>4. CASE /\ Landed(c) \/ UNCHANGED store
           /\ Snaps!Failed(c) \/ Snaps!Killed(c) \/ Snaps!Rejected(c)
  <2>1. store' \in Seq(Snaps!Commits) /\ StoreGrows
    BY <1>0, <1>1, <1>4, PackLands, StoreStays
  <2> QED  BY <1>1, <1>2, <1>4, <2>1, Refused
<1> QED  BY <1>1, <1>3, <1>4

LEMMA FetchStep ==
  ASSUME PushInv, NEW c \in Players, Snaps!Fetch(c) PROVE Step(c)
<1>0. Snaps!TypeOK /\ InStep(c)  BY DEF PushInv
<1>1. /\ UNCHANGED <<main, made, started, filed, dirty, store, open, ledger>>
      /\ push[c].at = "recover" /\ (Snaps!Smooth \/ Snaps!Break)
  BY DEF Snaps!Fetch, Snaps!repos, Snaps!At
<1>2. store' \in Seq(Snaps!Commits) /\ StoreGrows /\ breaks' \in 0..MaxBreaks
  BY <1>0, <1>1, StoreStays, SmoothOrBreak
<1>3. CASE Snaps!Reply(c, FALSE)
  <2>1. ledger'[c].failed /\ ledger'[c].pushed \subseteq Snaps!Line(store')
    BY <1>0, <1>1 DEF InStep, Excused, ToldRight
  <2>2. InStep(c)'  BY <1>0, <1>1, <1>2, <1>3, <2>1, Rests
  <2> QED  BY <1>0, <1>1, <1>2, <1>3, <2>2, ReplyTyped, Told, TypeParts, StepOf
<1>4. CASE /\ push' = [push EXCEPT ![c].at = "fetched", ![c].base = Len(store)]
           /\ UNCHANGED <<waiters, queue, caller, told, unheard>>
  <2>1. Len(store) \in Nat /\ push[c] \in Snaps!Pushers  BY <1>0, PartsTyped
  <2>2. PICK p \in Snaps!Pushers :
          /\ p = [push[c] EXCEPT !.at = "fetched", !.base = Len(store)]
          /\ p.at = "fetched" /\ p.base = Len(store)
    <3> DEFINE q == [push[c] EXCEPT !.at = "fetched", !.base = Len(store)]
    <3>1. q \in Snaps!Pushers /\ q.at = "fetched" /\ q.base = Len(store)
      BY <2>1 DEF Snaps!Pushers
    <3> QED  BY <3>1, Zenon
  <2>3. push' = [push EXCEPT ![c] = p]  BY <1>4, <2>2
  <2>4. /\ push' \in [Players -> Snaps!Pushers] /\ push'[c] = p
        /\ \A d \in Players \ {c} : push'[d] = push[d]
    BY <1>0, <2>3, PushMoves
  <2>5. InStep(c)'
    <3>1. LastIsOwn(c)'  BY <1>0, <1>1 DEF InStep, LastIsOwn
    <3>2. HeadIsOwn(c)' /\ Packed(c)' /\ Excused(c)'
      BY <2>2, <2>4 DEF HeadIsOwn, Reads, Packed, Excused
    <3>3. Fetched(c)'  BY <1>1, <2>1, <2>2, <2>4 DEF Fetched
    <3>4. CallersWait(c)'  BY <1>0, <1>1, <1>4, <2>2, <2>4 DEF InStep, CallersWait
    <3>5. ToldRight(c)'
      <4>1. Snaps!Has(c, told[c])' = Snaps!Has(c, told[c])  BY <1>1, <1>4 DEF Snaps!Has
      <4> QED  BY <1>0, <1>1, <1>4, <4>1 DEF InStep, ToldRight
    <3> QED  BY <3>1, <3>2, <3>3, <3>4, <3>5 DEF InStep
  <2> QED  BY <1>0, <1>1, <1>2, <1>4, <2>4, <2>5, TypeParts, StepOf
<1> QED  BY <1>3, <1>4 DEF Snaps!Fetch

LEMMA ResyncStep ==
  ASSUME PushInv, NEW c \in Players, Snaps!Resync(c) PROVE Step(c)
<1> DEFINE theirs == Snaps!Upto(store, push[c].base)
<1>0. Snaps!TypeOK /\ InStep(c)  BY DEF PushInv
<1>1. /\ UNCHANGED <<filed, store, open, queue, waiters, caller, told, unheard, breaks>>
      /\ push[c].at = "fetched" /\ Snaps!Go(c, "push")
      /\ Snaps!Put(c, theirs, <<Snaps!Now(c, 1, "tree")>>)
      /\ started' \in {started \cup {c}, started \ {c}} /\ dirty' = dirty \ {c}
      /\ ledger' = [ledger EXCEPT ![c].replaced = @ \cup Snaps!Line(main[c])]
  BY DEF Snaps!Resync, Snaps!At, Snaps!seen
<1>2. /\ main[c] \in Seq(Snaps!Commits) /\ store \in Seq(Snaps!Commits)
      /\ made[c] \in Nat /\ Len(store) \in Nat /\ push[c].base \in Nat
      /\ waiters[c] \in SUBSET Snaps!Waiting /\ queue[c].replies \in SUBSET Snaps!Waiting
      /\ \A k \in Snaps!Waiting : caller[c][k].n \in Nat
  BY <1>0, PartsTyped
<1>3. theirs \in Seq(Snaps!Commits) /\ Len(theirs) \in Nat
  <2>1. push[c].base \in 0..Len(store)  BY <1>0, <1>1, <1>2 DEF InStep, Fetched
  <2> QED  BY <1>2, <2>1, UptoTyped
<1> HIDE DEF theirs
<1>4. PICK k1 \in Snaps!Commits :
        k1 = Snaps!Now(c, 1, "tree") /\ k1.by = c /\ k1.n = made[c] + 1
  BY <1>0, NowTyped
<1>5. PICK new \in Seq(Snaps!Commits) : new = <<k1>> /\ Len(new) = 1 /\ new[1] = k1
  <2>1. <<k1>> \in Seq(Snaps!Commits) /\ Len(<<k1>>) = 1 /\ <<k1>>[1] = k1  OBVIOUS
  <2> QED  BY <2>1, Zenon
<1>6. Snaps!Put(c, theirs, new)  BY <1>1, <1>4, <1>5
<1>7. /\ main' \in [Players -> Seq(Snaps!Commits)] /\ made' \in [Players -> Nat]
      /\ made'[c] = made[c] + 1 /\ Len(main'[c]) = Len(theirs) + 1
      /\ main'[c][Len(theirs) + 1] = k1
      /\ \A d \in Players \ {c} : main'[d] = main[d] /\ made'[d] = made[d]
  <2>1. /\ main' \in [Players -> Seq(Snaps!Commits)] /\ made' \in [Players -> Nat]
        /\ made'[c] = made[c] + Len(new) /\ Len(main'[c]) = Len(theirs) + Len(new)
        /\ \A i \in 1..Len(new) : main'[c][Len(theirs) + i] = new[i]
        /\ \A d \in Players \ {c} : main'[d] = main[d] /\ made'[d] = made[d]
    BY <1>0, <1>3, <1>6, PutTyped
  <2>2. 1 \in 1..Len(new)  BY <1>5
  <2> QED  BY <1>5, <2>1, <2>2
<1>8. /\ ledger' \in [Players -> Ledgers] /\ ledger'[c].pushed = ledger[c].pushed
      /\ \A d \in Players \ {c} : ledger'[d] = ledger[d]
  <2>1. ledger \in [Players -> Ledgers] /\ ledger[c] \in Ledgers  BY <1>0, TypeParts
  <2>2. Snaps!Line(main[c]) \in SUBSET Snaps!Commits  BY <1>2 DEF Snaps!Line
  <2>3. PICK l \in Ledgers :
          /\ l = [ledger[c] EXCEPT !.replaced = ledger[c].replaced \cup Snaps!Line(main[c])]
          /\ l.pushed = ledger[c].pushed
    <3> DEFINE q == [ledger[c] EXCEPT !.replaced = ledger[c].replaced \cup Snaps!Line(main[c])]
    <3>1. q \in Ledgers /\ q.pushed = ledger[c].pushed  BY <2>1, <2>2 DEF Ledgers
    <3> QED  BY <3>1, Zenon
  <2>4. ledger' = [ledger EXCEPT ![c] = l]  BY <1>1, <2>3
  <2> QED  BY <2>1, <2>3, <2>4
<1>9. /\ push' \in [Players -> Snaps!Pushers] /\ push'[c].at = "push"
      /\ \A d \in Players \ {c} : push'[d] = push[d]
  BY <1>0, <1>1, GoTyped
<1>10. store' \in Seq(Snaps!Commits) /\ StoreGrows  BY <1>0, <1>1, StoreStays
<1>11. InStep(c)'
  <2>1. LastIsOwn(c)'  BY <1>2, <1>3, <1>4, <1>7 DEF LastIsOwn
  <2>2. HeadIsOwn(c)' /\ Packed(c)' /\ Fetched(c)' /\ Excused(c)'
    BY <1>9 DEF HeadIsOwn, Reads, Packed, Fetched, Excused
  <2>3. CallersWait(c)'
    <3>1. CallersWait(c)  BY <1>0 DEF InStep
    <3>2. \A k \in Snaps!Waiting : caller[c][k].n <= made'[c]
      BY <1>2, <1>7, <3>1 DEF CallersWait
    <3> QED  BY <1>1, <1>9, <3>1, <3>2 DEF CallersWait
  <2>4. ToldRight(c)'
    <3>1. Snaps!Has(c, told[c])' = Snaps!Has(c, told[c])  BY <1>1 DEF Snaps!Has
    <3> QED  BY <1>0, <1>1, <1>8, <3>1 DEF InStep, ToldRight
  <2> QED  BY <2>1, <2>2, <2>3, <2>4 DEF InStep
<1>12. Snaps!TypeOK'
  <2>1. started' \subseteq Players /\ dirty' \subseteq Players  BY <1>0, <1>1, TypeParts
  <2> QED  BY <1>0, <1>1, <1>7, <1>8, <1>9, <2>1 DEF Snaps!TypeOK, Ledgers
<1>13. Frame(c)  BY <1>1, <1>7, <1>8, <1>9 DEF Frame
<1> QED  BY <1>10, <1>11, <1>12, <1>13 DEF Step

LEMMA CrashStep ==
  ASSUME PushInv, NEW c \in Players, Snaps!Crash(c) PROVE Step(c)
<1>0. Snaps!TypeOK /\ InStep(c)  BY DEF PushInv
<1>1. /\ UNCHANGED <<main, made, started, dirty, told, unheard>> /\ Snaps!Break
      /\ open' = open \ {c} /\ filed' = filed \ {c}
      /\ UNCHANGED store \/ (push[c].at = "sent" /\ Landed(c))
      /\ queue' = [queue EXCEPT ![c] = Snaps!Silent] /\ waiters' = [waiters EXCEPT ![c] = {}]
      /\ push' = [push EXCEPT ![c] = Snaps!Resting]
      /\ ledger' = [ledger EXCEPT ![c] = Snaps!NoPush]
      /\ caller' = [caller EXCEPT ![c] = [k \in Snaps!Waiting |-> Snaps!Nothing]]
  BY DEF Snaps!Crash, Snaps!At, Landed
<1>2. store' \in Seq(Snaps!Commits) /\ StoreGrows  BY <1>0, <1>1, PackLands, StoreStays
<1>3. breaks' \in 0..MaxBreaks  BY <1>0, <1>1, SmoothOrBreak
<1>4. /\ queue \in [Players -> Queues] /\ waiters \in [Players -> SUBSET Snaps!Waiting]
      /\ ledger \in [Players -> Ledgers] /\ caller \in [Players -> Callers1]
      /\ made[c] \in Nat /\ told[c] \in Nat
  BY <1>0, TypeParts
<1>5. /\ queue' \in [Players -> Queues] /\ queue'[c] = Snaps!Silent
      /\ \A d \in Players \ {c} : queue'[d] = queue[d]
  <2>1. Snaps!Silent \in Queues  BY DEF Snaps!Silent, Queues
  <2> QED  BY <1>1, <1>4, <2>1
<1>6. /\ waiters' \in [Players -> SUBSET Snaps!Waiting] /\ waiters'[c] = {}
      /\ \A d \in Players \ {c} : waiters'[d] = waiters[d]
  BY <1>1, <1>4
<1>7. /\ push' \in [Players -> Snaps!Pushers] /\ push'[c].at = "idle"
      /\ \A d \in Players \ {c} : push'[d] = push[d]
  BY <1>0, <1>1, RestingTyped, PushMoves
<1>8. /\ ledger' \in [Players -> Ledgers] /\ ledger'[c].pushed = {}
      /\ \A d \in Players \ {c} : ledger'[d] = ledger[d]
  <2>1. Snaps!NoPush \in Ledgers  BY DEF Snaps!NoPush, Ledgers
  <2>2. /\ ledger' \in [Players -> Ledgers] /\ ledger'[c] = Snaps!NoPush
        /\ \A d \in Players \ {c} : ledger'[d] = ledger[d]
    BY <1>1, <1>4, <2>1
  <2> QED  BY <2>2, RestingTyped
<1>9. /\ caller' \in [Players -> Callers1]
      /\ \A k \in Snaps!Waiting : caller'[c][k].at = "idle" /\ caller'[c][k].n = 0
      /\ \A d \in Players \ {c} : caller'[d] = caller[d]
  <2>1. Snaps!Nothing \in [at : {"idle", "committed", "waiting"}, n : Nat]
    BY DEF Snaps!Nothing
  <2>2. [k \in Snaps!Waiting |-> Snaps!Nothing] \in Callers1  BY <2>1 DEF Callers1
  <2>3. /\ caller' \in [Players -> Callers1]
        /\ caller'[c] = [k \in Snaps!Waiting |-> Snaps!Nothing]
        /\ \A d \in Players \ {c} : caller'[d] = caller[d]
    BY <1>1, <1>4, <2>2
  <2>4. \A k \in Snaps!Waiting : caller'[c][k] = Snaps!Nothing  BY <2>3
  <2> QED  BY <2>3, <2>4, RestingTyped
<1>10. InStep(c)'
  <2>1. LastIsOwn(c)'  BY <1>0, <1>1 DEF InStep, LastIsOwn
  <2>2. HeadIsOwn(c)' /\ Packed(c)' /\ Fetched(c)' /\ Excused(c)'
    BY <1>1, <1>7 DEF HeadIsOwn, Reads, Packed, Fetched, Excused
  <2>3. CallersWait(c)'
    <3>1. /\ waiters'[c] \cup queue'[c].replies = {}
          /\ waiters'[c] \cap queue'[c].replies = {}
      BY <1>5, <1>6, RestingTyped
    <3>2. made'[c] \in Nat  BY <1>1, <1>4
    <3> QED  BY <1>6, <1>9, <3>1, <3>2 DEF CallersWait
  <2>4. ToldRight(c)'
    <3>1. Snaps!Has(c, told[c]) => Snaps!Has(c, told[c])'
      BY <1>0, <1>1, <1>2, <1>4, LinesGrow DEF Snaps!Has
    <3> QED  BY <1>0, <1>1, <1>8, <3>1 DEF InStep, ToldRight, Snaps!Has
  <2> QED  BY <2>1, <2>2, <2>3, <2>4 DEF InStep
<1>11. Snaps!TypeOK'
  <2>1. open' \subseteq Players /\ filed' \subseteq Players  BY <1>0, <1>1, TypeParts
  <2> QED  BY <1>0, <1>1, <1>2, <1>3, <1>5, <1>6, <1>7, <1>8, <1>9, <2>1
           DEF Snaps!TypeOK, Queues, Ledgers, Callers1
<1>12. Frame(c)  BY <1>1, <1>5, <1>6, <1>7, <1>8, <1>9 DEF Frame
<1> QED  BY <1>2, <1>10, <1>11, <1>12 DEF Step

-----------------------------------------------------------------------------
LEMMA PushInit == Snaps!Init => PushInv
<1> SUFFICES ASSUME Snaps!Init PROVE PushInv  OBVIOUS
<1>1. Snaps!TypeOK
  <2>1. /\ <<>> \in Seq(Snaps!Commits) /\ Snaps!Silent \in Queues /\ Snaps!NoPush \in Ledgers
        /\ Snaps!Nothing \in [at : {"idle", "committed", "waiting"}, n : Nat]
    BY DEF Snaps!Silent, Queues, Snaps!NoPush, Ledgers, Snaps!Nothing
  <2>2. 0 \in 0..MaxBreaks  BY Delays
  <2> QED  BY <2>1, <2>2, RestingTyped, TypeParts DEF Snaps!Init, Callers1
<1>2. ASSUME NEW c \in Players PROVE InStep(c)
  <2>1. /\ main[c] = <<>> /\ made[c] = 0 /\ c \notin open /\ queue[c] = Snaps!Silent
        /\ waiters[c] = {} /\ push[c] = Snaps!Resting /\ ledger[c] = Snaps!NoPush
        /\ told[c] = 0 /\ \A k \in Snaps!Waiting : caller[c][k] = Snaps!Nothing
    BY <1>2 DEF Snaps!Init
  <2> QED
    BY <2>1, RestingTyped
    DEF InStep, LastIsOwn, HeadIsOwn, Reads, Packed, Fetched, CallersWait, Excused, ToldRight
<1> QED  BY <1>1, <1>2 DEF PushInv

LEMMA PushNext == PushInv /\ [Snaps!Next]_Snaps!vars => PushInv'
<1> SUFFICES ASSUME PushInv, [Snaps!Next]_Snaps!vars PROVE PushInv'  OBVIOUS
<1>0. Snaps!TypeOK  BY DEF PushInv
<1>1. CASE Snaps!Next
  <2>1. PICK c \in Players : Step(c)
    <3>1. PICK c \in Players :
            \/ Snaps!Open(c) \/ Snaps!Edit(c) \/ Snaps!Probe(c) \/ Snaps!Finish(c)
            \/ Snaps!Crash(c) \/ Snaps!Pusher(c)
            \/ \E k \in Snaps!Waiting : Snaps!Commit(c, k) \/ Snaps!Ask(c, k)
      BY <1>1 DEF Snaps!Next
    <3>2. Snaps!Pusher(c) => Step(c)
      BY TakeStep, BeginStep, SendStep, LandStep, FetchStep, ResyncStep, WakeStep
      DEF Snaps!Pusher
    <3> QED
      BY <3>1, <3>2, OpenStep, EditStep, ProbeStep, FinishStep, CrashStep, CommitStep, AskStep
  <2>2. Snaps!TypeOK' /\ InStep(c)' /\ StoreGrows /\ Frame(c)  BY <2>1 DEF Step
  <2>3. store' \in Seq(Snaps!Commits)  BY <2>2 DEF Snaps!TypeOK
  <2>4. ASSUME NEW d \in Players, d # c PROVE InStep(d)'
    <3>1. InStep(d)  BY DEF PushInv
    <3> QED  BY <1>0, <2>2, <2>3, <2>4, <3>1, OthersStay DEF Frame
  <2> QED  BY <2>2, <2>4 DEF PushInv
<1>2. CASE UNCHANGED Snaps!vars
  <2>1. UNCHANGED <<main, made, started, filed, dirty, store, open, queue, waiters, push,
                    ledger, caller, told, unheard, breaks>>
    BY <1>2 DEF Snaps!vars, Snaps!repos, Snaps!pusher, Snaps!seen
  <2>2. Snaps!TypeOK'  BY <1>0, <2>1 DEF Snaps!TypeOK
  <2>3. store' \in Seq(Snaps!Commits) /\ StoreGrows  BY <1>0, <2>1, StoreStays
  <2>4. \A d \in Players : InStep(d)'  BY <1>0, <2>1, <2>3, OthersStay DEF PushInv
  <2> QED  BY <2>2, <2>4 DEF PushInv
<1> QED  BY <1>1, <1>2

LEMMA PushKept == Snaps!Spec => []PushInv
BY PushInit, PushNext, PTL DEF Snaps!Spec

\* Repositories, channels and ledgers hold what SnapshotPush says they hold
\* (ololo/src/snapshot/mod.rs and pusher.rs).
THEOREM SnapshotsTyped == Snaps!Spec => []Snaps!TypeOK
BY PushKept, PTL DEF PushInv

\* No commit is reported pushed that the server lacks.
THEOREM PushedAlwaysThere == MCSpec => []PushedIsThere
<1>1. PushInv => PushedIsThere
  BY DEF PushInv, InStep, ToldRight, PushedIsThere, Snaps!PushedIsThere
<1> QED  BY <1>1, SnapsPart, PushKept, PTL

\* A pusher that rests without an error has left nothing behind.
THEOREM NoLagIsSilent == MCSpec => []NoSilentLag
<1>1. PushInv => NoSilentLag
  <2> SUFFICES ASSUME PushInv, NEW c \in open,
                      push[c].at = "idle", ~Snaps!Asked(c),
                      \A k \in Snaps!Waiting : caller[c][k].at = "idle"
               PROVE  ledger[c].failed \/ Snaps!Has(c, made[c])
    BY DEF NoSilentLag, Snaps!NoSilentLag
  <2>1. c \in Players /\ ~Awaits(c)  BY TypeParts DEF PushInv, Awaits
  <2>2. Excused(c)  BY <2>1 DEF PushInv, InStep
  <2> QED  BY <2>1, <2>2 DEF Excused
<1> QED  BY <1>1, SnapsPart, PushKept, PTL
====
