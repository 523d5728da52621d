--------------------------- MODULE PresenceProofs ---------------------------
(***************************************************************************)
(* What holds of Presence for every set of players and connections, every  *)
(* timeout and any number of crashes.                                      *)
(***************************************************************************)
EXTENDS Presence, TLAPS

(* Every step of a connection belongs to one connection of one player.      *)
LEMMA ConnOfPlayer ==
  ASSUME NEW p \in Players, NEW s \in Slots[p]
  PROVE  <<p, s>> \in Conns /\ s # Nobody /\ s \in UNION {Slots[q] : q \in Players}
BY NobodyAssumption DEF Conns

LEMMA OlderAge ==
  ASSUME NEW x \in Ages \cup {Never}
  PROVE  /\ Older(x) \in Ages \cup {Never}
         /\ x = Never => Older(x) = Never
         /\ x # Never => Older(x) \in Ages
         /\ \A y \in Ages : x <= y => Older(x) <= Older(y)
BY TimeoutAssumption DEF Ages, Older, Never

-----------------------------------------------------------------------------
LEMMA TypeInit == Init => TypeOK
<1> SUFFICES ASSUME Init PROVE TypeOK  OBVIOUS
<1>1. 0 \in Ages  BY TimeoutAssumption DEF Ages
<1>2. seenAge \in [Players -> Ages \cup {Never}]  BY DEF Init
<1>3. /\ conn \in [Conns -> {"off", "accepted", "registered", "serving", "ended"}]
      /\ goodbye \in [Conns -> {"none", "check", "write"}]
  BY DEF Init
<1>4. registry \in [Players -> (UNION {Slots[p] : p \in Players}) \cup {Nobody}]
  BY DEF Init
<1> QED  BY <1>1, <1>2, <1>3, <1>4 DEF Init, TypeOK

LEMMA TypeConnection ==
  ASSUME TypeOK, NEW p \in Players, NEW s \in Slots[p], Connection(p, s)
  PROVE  TypeOK'
<1> USE DEF TypeOK
<1>0. <<p, s>> \in Conns /\ s \in UNION {Slots[q] : q \in Players} /\ 0 \in Ages
  BY ConnOfPlayer, TimeoutAssumption DEF Ages
<1>1. CASE Accept(p, s)
  BY <1>0, <1>1 DEF Accept, Goto, columns, session, late
<1>2. CASE Register(p, s)
  BY <1>0, <1>2 DEF Register, Goto, columns, session, late
<1>3. CASE Hello(p, s)
  <2>1. connected' \in [Players -> BOOLEAN] /\ seenAge' \in [Players -> Ages \cup {Never}]
    BY <1>0, <1>3 DEF Hello, SetAgentPresence
  <2>2. away' \in Ages /\ lateHello' \in BOOLEAN  BY <1>0, <1>3 DEF Hello
  <2> QED  BY <1>0, <1>3, <2>1, <2>2 DEF Hello, Goto, session
<1>4. CASE Close(p, s)
  <2>1. /\ registry' \in [Players -> (UNION {Slots[q] : q \in Players}) \cup {Nobody}]
        /\ goodbye' \in [Conns -> {"none", "check", "write"}]
    BY <1>4 DEF Close, DropGuard
  <2> QED  BY <1>4, <2>1 DEF Close, Goto, columns, session, late
<1>5. CASE GoodbyeChecks(p, s)
  BY <1>5 DEF GoodbyeChecks, columns, session, late
<1>6. CASE GoodbyeWrites(p, s)
  <2>1. connected' \in [Players -> BOOLEAN] /\ seenAge' \in [Players -> Ages \cup {Never}]
    BY <1>0, <1>6 DEF GoodbyeWrites, SetAgentPresence
  <2>2. lateGoodbye' \in BOOLEAN  BY <1>6 DEF GoodbyeWrites, Present
  <2> QED  BY <1>6, <2>1, <2>2 DEF GoodbyeWrites, session
<1> QED  BY <1>1, <1>2, <1>3, <1>4, <1>5, <1>6 DEF Connection

LEMMA TypeStep == TypeOK /\ [Next]_vars => TypeOK'
<1> SUFFICES ASSUME TypeOK, [Next]_vars PROVE TypeOK'  OBVIOUS
<1>1. CASE \E p \in Players : \E s \in Slots[p] : Connection(p, s)  BY <1>1, TypeConnection
<1>2. CASE SweepReads  BY <1>2 DEF SweepReads, TypeOK, sockets, columns, late
<1>3. CASE SweepCancels  BY <1>3 DEF SweepCancels, TypeOK, sockets, columns, late
<1>4. CASE Finish  BY <1>4 DEF Finish, TypeOK, sockets, columns, late
<1>5. CASE Tick
  <2>1. seenAge' \in [Players -> Ages \cup {Never}]
    BY <1>5, OlderAge DEF Tick, TypeOK
  <2>2. \A x \in Ages : Older(x) \in Ages  BY TimeoutAssumption DEF Older, Ages
  <2>3. startAge' \in Ages /\ away' \in Ages
    BY <1>5, <2>2, TimeoutAssumption DEF Tick, TypeOK, Ages
  <2> QED  BY <1>5, <2>1, <2>3 DEF Tick, TypeOK, sockets, late
<1>6. CASE Crash
  <2>1. /\ conn' \in [Conns -> {"off", "accepted", "registered", "serving", "ended"}]
        /\ goodbye' \in [Conns -> {"none", "check", "write"}]
    BY <1>6 DEF Crash
  <2>2. registry' \in [Players -> (UNION {Slots[p] : p \in Players}) \cup {Nobody}]
    BY <1>6 DEF Crash
  <2>3. crashes' \in Nat  BY <1>6 DEF Crash, TypeOK
  <2>4. UNCHANGED <<connected, seenAge, startAge, status, away, lateHello, lateGoodbye>>
    BY <1>6 DEF Crash, columns, late
  <2>5. up' = FALSE /\ sweep' = FALSE  BY <1>6 DEF Crash
  <2> QED  BY <2>1, <2>2, <2>3, <2>4, <2>5 DEF TypeOK
<1>7. CASE Restart
  <2>1. connected' \in [Players -> BOOLEAN] /\ seenAge' \in [Players -> Ages \cup {Never}]
    BY <1>7, TimeoutAssumption DEF Restart, ResetPresence, TypeOK, Ages
  <2> QED  BY <1>7, <2>1 DEF Restart, TypeOK, sockets, session, late
<1>8. CASE UNCHANGED vars
  BY <1>8 DEF vars, sockets, columns, session, late, TypeOK
<1> QED  BY <1>1, <1>2, <1>3, <1>4, <1>5, <1>6, <1>7, <1>8 DEF Next

(* Type correctness of registry, guard tasks, columns and ages.             *)
THEOREM PresenceTyped == Spec => []TypeOK
BY TypeInit, TypeStep, PTL DEF Spec

-----------------------------------------------------------------------------
(* Everything but a connection's step and a crash leaves the registry and   *)
(* the handlers alone.                                                      *)
LEMMA OtherSteps ==
  ASSUME SweepReads \/ SweepCancels \/ Finish \/ Tick \/ Restart \/ UNCHANGED vars
  PROVE  UNCHANGED sockets /\ UNCHANGED late
BY DEF SweepReads, SweepCancels, Finish, Tick, Restart, vars, late

(* The newest connection stays registered while it is open, for any number  *)
(* of connections of a player.                                              *)
THEOREM NewestConnectionStaysRegistered == Spec => NewestStaysRegistered
<1>1. ASSUME TypeOK, [Next]_vars, NEW p \in Players,
             registry[p] # Nobody, registry'[p] # registry[p], up'
      PROVE  \/ conn'[<<p, registry[p]>>] = "ended"
             \/ registry'[p] # Nobody /\ conn[<<p, registry'[p]>>] = "accepted"
  <2>0. registry' # registry  BY <1>1
  <2>1. CASE \E q \in Players : \E s \in Slots[q] : Connection(q, s)
    <3>a. PICK q \in Players : \E s \in Slots[q] : Connection(q, s)  BY <2>1
    <3>1. PICK s \in Slots[q] : Connection(q, s)  BY <3>a
    <3>2. <<q, s>> \in Conns /\ s # Nobody  BY ConnOfPlayer
    <3>3. Register(q, s) \/ Close(q, s)
      BY <2>0, <3>1 DEF Connection, Accept, Hello, GoodbyeChecks, GoodbyeWrites
    <3>4. CASE Register(q, s)
      BY <1>1, <3>2, <3>4 DEF Register, TypeOK
    <3>5. CASE Close(q, s)
      <4>1. q = p /\ registry[p] = s  BY <1>1, <3>5 DEF Close, DropGuard, TypeOK
      <4>2. conn'[<<q, s>>] = "ended"  BY <1>1, <3>2, <3>5 DEF Close, Goto, TypeOK
      <4> QED  BY <4>1, <4>2
    <3> QED  BY <3>3, <3>4, <3>5
  <2>2. CASE Crash  BY <1>1, <2>2 DEF Crash
  <2>3. CASE SweepReads \/ SweepCancels \/ Finish \/ Tick \/ Restart \/ UNCHANGED vars
    BY <2>0, <2>3, OtherSteps DEF sockets
  <2> QED  BY <1>1, <2>1, <2>2, <2>3 DEF Next
<1>2. TypeOK /\ [Next]_vars =>
        [\A p \in Players : registry[p] # Nobody /\ registry'[p] # registry[p] /\ up' =>
           \/ conn'[<<p, registry[p]>>] = "ended"
           \/ registry'[p] # Nobody /\ conn[<<p, registry'[p]>>] = "accepted"]_vars
  BY <1>1
<1> QED  BY <1>2, PresenceTyped, PTL DEF Spec, NewestStaysRegistered

-----------------------------------------------------------------------------
(* A player shown connected has something that will say goodbye.            *)
GhostFree(p) == \/ registry[p] # Nobody
                \/ \E s \in Slots[p] : goodbye[<<p, s>>] # "none"
                \/ lateHello

LEMMA GhostsStep == TypeOK /\ NoGhosts /\ [Next]_vars => NoGhosts'
<1> SUFFICES ASSUME TypeOK, NoGhosts, [Next]_vars, NEW p \in Players, up', connected'[p]
             PROVE  GhostFree(p)'
  BY DEF NoGhosts, GhostFree
<1>1. CASE \E q \in Players : \E s \in Slots[q] : Connection(q, s)
  <2>a. PICK q \in Players : \E s \in Slots[q] : Connection(q, s)  BY <1>1
  <2>1. PICK s \in Slots[q] : Connection(q, s)  BY <2>a
  <2>2. <<q, s>> \in Conns /\ s # Nobody  BY ConnOfPlayer
  <2>3. \A r \in Slots[p] : <<p, r>> \in Conns  BY ConnOfPlayer
  <2>4. up  BY <2>1 DEF Connection, Accept, Register, Hello, Close, GoodbyeChecks, GoodbyeWrites
  <2>5. connected[p] => GhostFree(p)  BY <2>4 DEF NoGhosts, GhostFree
  <2>6. CASE Accept(q, s)  BY <2>5, <2>6 DEF Accept, columns, late, GhostFree
  <2>7. CASE Register(q, s)
    <3>1. connected[p]  BY <2>7 DEF Register, columns
    <3> QED  BY <2>2, <2>5, <2>7, <3>1 DEF Register, late, GhostFree, TypeOK
  <2>8. CASE Hello(q, s)
    <3>1. CASE p = q  BY <2>2, <2>8, <3>1 DEF Hello, GhostFree
    <3>2. CASE p # q
      <4>1. connected[p]  BY <2>8, <3>2 DEF Hello, SetAgentPresence, TypeOK
      <4> QED  BY <2>5, <2>8, <4>1 DEF Hello, GhostFree
    <3> QED  BY <3>1, <3>2
  <2>9. CASE Close(q, s)
    <3>1. connected[p] /\ lateHello' = lateHello  BY <2>9 DEF Close, columns, late
    <3>2. CASE registry[q] # s
      BY <2>5, <2>9, <3>1, <3>2 DEF Close, DropGuard, GhostFree
    <3>3. CASE registry[q] = s /\ p = q
      BY <2>2, <2>9, <3>3 DEF Close, DropGuard, GhostFree, TypeOK
    <3>4. CASE registry[q] = s /\ p # q
      <4>1. registry'[p] = registry[p] /\ \A r \in Slots[p] : goodbye'[<<p, r>>] = goodbye[<<p, r>>]
        BY <2>3, <2>9, <3>4 DEF Close, DropGuard, TypeOK
      <4> QED  BY <2>5, <3>1, <4>1 DEF GhostFree
    <3> QED  BY <3>2, <3>3, <3>4
  <2>10. CASE GoodbyeChecks(q, s)
    <3>1. connected[p] /\ lateHello' = lateHello /\ registry' = registry
      BY <2>10 DEF GoodbyeChecks, columns, late
    <3>2. CASE registry[p] # Nobody  BY <3>1, <3>2 DEF GhostFree
    <3>3. CASE registry[p] = Nobody
      <4>1. ASSUME NEW r \in Slots[p], goodbye[<<p, r>>] # "none"
            PROVE  goodbye'[<<p, r>>] # "none"
        BY <2>3, <2>10, <3>3, <4>1 DEF GoodbyeChecks, TypeOK
      <4> QED  BY <2>5, <3>1, <3>3, <4>1 DEF GhostFree
    <3> QED  BY <3>2, <3>3
  <2>11. CASE GoodbyeWrites(q, s)
    <3>1. p # q  BY <2>11 DEF GoodbyeWrites, SetAgentPresence, TypeOK
    <3>2. connected[p] /\ lateHello' = lateHello /\ registry' = registry
      BY <2>11, <3>1 DEF GoodbyeWrites, SetAgentPresence, TypeOK
    <3>3. \A r \in Slots[p] : goodbye'[<<p, r>>] = goodbye[<<p, r>>]
      BY <2>3, <2>11, <3>1 DEF GoodbyeWrites, TypeOK
    <3> QED  BY <2>5, <3>2, <3>3 DEF GhostFree
  <2> QED  BY <2>1, <2>6, <2>7, <2>8, <2>9, <2>10, <2>11 DEF Connection
<1>2. CASE Restart  BY <1>2 DEF Restart, ResetPresence
<1>3. CASE Crash  BY <1>3 DEF Crash
<1>4. CASE SweepReads \/ SweepCancels \/ Finish \/ Tick \/ UNCHANGED vars
  <2>1. up /\ connected[p]
    BY <1>4 DEF SweepReads, SweepCancels, Finish, Tick, vars, columns
  <2>2. GhostFree(p)  BY <2>1 DEF NoGhosts, GhostFree
  <2>3. UNCHANGED <<sockets, late>>  BY <1>4, OtherSteps
  <2> QED  BY <2>2, <2>3 DEF GhostFree, sockets, late
<1> QED  BY <1>1, <1>2, <1>3, <1>4 DEF Next

(* No player stays shown as connected when nobody is, but for a superseded  *)
(* handler's late announcement.                                             *)
THEOREM GhostsAreLateAnnouncements == Spec => []NoGhosts
<1>1. Init => NoGhosts  BY DEF Init, NoGhosts
<1> QED  BY <1>1, GhostsStep, PresenceTyped, PTL DEF Spec

-----------------------------------------------------------------------------
(* The strengthening FullTimeoutToReconnect needs: an announced connection  *)
(* is shown, and somebody's stamp is as young as the last one that was      *)
(* announced, unless the flag keeps the sweep away or a goodbye came late.  *)
ShownOnline(p) == Present(p) => connected[p]
YoungStamp == \E p \in Players : seenAge[p] # Never /\ seenAge[p] <= away
NeverSeen  == (\A p \in Players : seenAge[p] = Never) /\ startAge <= away
DownEmpty  == ~up => \A p \in Players : registry[p] = Nobody
StampInv ==
  /\ \/ lateGoodbye
     \/ /\ \A p \in Players : ShownOnline(p)
        /\ (\E p \in Players : connected[p]) \/ YoungStamp \/ NeverSeen
  /\ DownEmpty /\ (~up => \A c \in Conns : conn[c] = "off")

LEMMA StampInit == Init => StampInv
BY DEF Init, StampInv, ShownOnline, Present, NeverSeen, DownEmpty

(* While the server is down no handler takes a step that registers.         *)
LEMMA DownStep ==
  ASSUME TypeOK, StampInv, [Next]_vars
  PROVE  DownEmpty' /\ (~up' => \A c \in Conns : conn'[c] = "off")
<1> USE DEF StampInv, DownEmpty
<1>1. CASE \E q \in Players : \E s \in Slots[q] : Connection(q, s)
  <2>a. PICK q \in Players : \E s \in Slots[q] : Connection(q, s)  BY <1>1
  <2>1. PICK s \in Slots[q] : Connection(q, s)  BY <2>a
  <2>2. <<q, s>> \in Conns  BY ConnOfPlayer
  <2>3. up' = up  BY <2>1 DEF Connection, Accept, Register, Hello, Close, GoodbyeChecks, GoodbyeWrites
  <2>4. up \/ UNCHANGED <<conn, registry>>
    BY <2>1, <2>2 DEF Connection, Accept, Register, Hello, Close, GoodbyeChecks, GoodbyeWrites
  <2> QED  BY <2>3, <2>4
<1>2. CASE Crash  BY <1>2 DEF Crash
<1>3. CASE SweepReads \/ SweepCancels \/ Finish \/ Tick \/ UNCHANGED vars
  BY <1>3 DEF SweepReads, SweepCancels, Finish, Tick, vars, sockets
<1>4. CASE Restart  BY <1>4 DEF Restart
<1> QED  BY <1>1, <1>2, <1>3, <1>4 DEF Next

LEMMA StampConnection ==
  ASSUME TypeOK, StampInv, NEW q \in Players, NEW s \in Slots[q], Connection(q, s), ~lateGoodbye'
  PROVE  /\ \A p \in Players : ShownOnline(p)'
         /\ (\E p \in Players : connected'[p]) \/ YoungStamp' \/ NeverSeen'
<1>0. <<q, s>> \in Conns /\ s # Nobody  BY ConnOfPlayer
<1>1. ~lateGoodbye
  BY DEF Connection, Accept, Register, Hello, Close, GoodbyeChecks, GoodbyeWrites, late
<1>2. /\ \A p \in Players : ShownOnline(p)
      /\ (\E p \in Players : connected[p]) \/ YoungStamp \/ NeverSeen
  BY <1>1 DEF StampInv
<1>3. CASE Hello(q, s)
  <2>1. connected'[q]  BY <1>3 DEF Hello, SetAgentPresence, TypeOK
  <2>2. ASSUME NEW p \in Players, p # q PROVE ShownOnline(p)'
    <3>1. Present(p)' => Present(p)  BY <1>3, <2>2 DEF Hello, Goto, Present, TypeOK
    <3>2. connected'[p] = connected[p]  BY <1>3, <2>2 DEF Hello, SetAgentPresence, TypeOK
    <3> QED  BY <1>2, <3>1, <3>2 DEF ShownOnline
  <2> QED  BY <2>1, <2>2 DEF ShownOnline
<1>4. CASE GoodbyeWrites(q, s)
  <2>1. ~Present(q) /\ UNCHANGED <<conn, registry, away>>  BY <1>4 DEF GoodbyeWrites
  <2>2. seenAge'[q] = 0 /\ 0 <= away
    BY <1>4, TimeoutAssumption DEF GoodbyeWrites, SetAgentPresence, TypeOK, Ages
  <2>3. YoungStamp'  BY <2>1, <2>2 DEF YoungStamp, Never
  <2>4. ASSUME NEW p \in Players PROVE ShownOnline(p)'
    <3>1. CASE p = q  BY <2>1, <3>1 DEF ShownOnline, Present
    <3>2. CASE p # q
      <4>1. connected'[p] = connected[p]  BY <1>4, <3>2 DEF GoodbyeWrites, SetAgentPresence, TypeOK
      <4> QED  BY <1>2, <2>1, <4>1 DEF ShownOnline, Present
    <3> QED  BY <3>1, <3>2
  <2> QED  BY <2>3, <2>4
<1>5. CASE Accept(q, s) \/ Register(q, s) \/ Close(q, s) \/ GoodbyeChecks(q, s)
  <2>1. UNCHANGED <<connected, seenAge, startAge, away>>
    BY <1>5 DEF Accept, Register, Close, GoodbyeChecks, columns, session
  <2>2. ASSUME NEW p \in Players, Present(p)' PROVE Present(p)
    <3>0. CASE GoodbyeChecks(q, s)  BY <2>2, <3>0 DEF GoodbyeChecks, Present
    <3>1. CASE Accept(q, s)
      <4>1. registry[p] # Nobody /\ conn'[<<p, registry[p]>>] = "serving"
        BY <2>2, <3>1 DEF Accept, Present
      <4>2. conn'[<<q, s>>] = "accepted"  BY <1>0, <3>1 DEF Accept, Goto, TypeOK
      <4>3. <<p, registry[p]>> # <<q, s>>  BY <4>1, <4>2
      <4>4. conn'[<<p, registry[p]>>] = conn[<<p, registry[p]>>]
        BY <3>1, <4>3 DEF Accept, Goto, TypeOK
      <4> QED  BY <4>1, <4>4 DEF Present
    <3>2. CASE Register(q, s)
      BY <1>0, <2>2, <3>2 DEF Register, Goto, Present, TypeOK
    <3>3. CASE Close(q, s)
      BY <1>0, <2>2, <3>3 DEF Close, DropGuard, Goto, Present, TypeOK
    <3> QED  BY <1>5, <3>0, <3>1, <3>2, <3>3
  <2> QED  BY <1>2, <2>1, <2>2 DEF ShownOnline, YoungStamp, NeverSeen
<1> QED  BY <1>3, <1>4, <1>5 DEF Connection

LEMMA StampTick ==
  ASSUME TypeOK, StampInv, Tick, ~lateGoodbye
  PROVE  /\ \A p \in Players : ShownOnline(p)'
         /\ (\E p \in Players : connected'[p]) \/ YoungStamp' \/ NeverSeen'
<1>1. /\ \A p \in Players : ShownOnline(p)
      /\ (\E p \in Players : connected[p]) \/ YoungStamp \/ NeverSeen
  BY DEF StampInv
<1>2. UNCHANGED <<conn, registry, connected>>  BY DEF Tick, sockets
<1>3. \A p \in Players : ShownOnline(p)'  BY <1>1, <1>2 DEF ShownOnline, Present
<1>4. CASE \E p \in Players : connected[p]  BY <1>2, <1>3, <1>4
<1>5. CASE \A p \in Players : ~connected[p]
  <2>1. ~SomeonePresent  BY <1>1, <1>5 DEF SomeonePresent, ShownOnline
  <2>2. away' = Older(away) /\ away \in Ages  BY <2>1 DEF Tick, TypeOK
  <2>3. CASE YoungStamp
    <3>1. PICK p \in Players : seenAge[p] # Never /\ seenAge[p] <= away  BY <2>3 DEF YoungStamp
    <3>2. seenAge[p] \in Ages /\ seenAge'[p] = Older(seenAge[p])  BY <3>1 DEF Tick, TypeOK
    <3>3. seenAge'[p] <= away' /\ seenAge'[p] \in Ages  BY <2>2, <3>1, <3>2, OlderAge
    <3>4. seenAge'[p] # Never  BY <3>3 DEF Ages, Never
    <3> QED  BY <1>3, <3>3, <3>4 DEF YoungStamp
  <2>4. CASE NeverSeen
    <3>1. \A p \in Players : seenAge'[p] = Never  BY <2>4, OlderAge DEF NeverSeen, Tick, TypeOK
    <3>2. startAge' <= away'  BY <2>2, <2>4, OlderAge DEF NeverSeen, Tick, TypeOK
    <3> QED  BY <1>3, <3>1, <3>2 DEF NeverSeen
  <2> QED  BY <1>1, <1>5, <2>3, <2>4
<1> QED  BY <1>4, <1>5

LEMMA StampRestart ==
  ASSUME TypeOK, StampInv, Restart, ~lateGoodbye
  PROVE  /\ \A p \in Players : ShownOnline(p)'
         /\ (\E p \in Players : connected'[p]) \/ YoungStamp' \/ NeverSeen'
<1>1. (\E p \in Players : connected[p]) \/ YoungStamp \/ NeverSeen  BY DEF StampInv
<1>2. \A p \in Players : registry'[p] = Nobody
  BY DEF StampInv, DownEmpty, Restart, sockets
<1>3. \A p \in Players : ShownOnline(p)'  BY <1>2 DEF ShownOnline, Present
<1>4. UNCHANGED <<away, startAge>>  BY DEF Restart, session
<1>5. CASE \E p \in Players : connected[p]
  <2>1. PICK p \in Players : connected[p]  BY <1>5
  <2>2. seenAge'[p] = 0  BY <2>1 DEF Restart, ResetPresence
  <2>3. 0 <= away  BY DEF TypeOK, Ages
  <2> QED  BY <1>3, <1>4, <2>2, <2>3 DEF YoungStamp, Never
<1>6. CASE \A p \in Players : ~connected[p]
  <2>1. \A p \in Players : seenAge'[p] = seenAge[p]  BY <1>6 DEF Restart, ResetPresence
  <2> QED  BY <1>1, <1>3, <1>4, <1>6, <2>1 DEF YoungStamp, NeverSeen
<1> QED  BY <1>5, <1>6

LEMMA StampStep == TypeOK /\ StampInv /\ [Next]_vars => StampInv'
<1> SUFFICES ASSUME TypeOK, StampInv, [Next]_vars, ~lateGoodbye'
             PROVE  /\ \A p \in Players : ShownOnline(p)'
                    /\ (\E p \in Players : connected'[p]) \/ YoungStamp' \/ NeverSeen'
  BY DownStep DEF StampInv
<1>1. CASE \E q \in Players : \E s \in Slots[q] : Connection(q, s)  BY <1>1, StampConnection
<1>2. CASE Tick  BY <1>2, StampTick DEF Tick, late
<1>3. CASE Restart  BY <1>3, StampRestart DEF Restart, late
<1>4. CASE Crash
  <2>1. UNCHANGED <<connected, seenAge, startAge, away, lateGoodbye>>
    BY <1>4 DEF Crash, columns, late
  <2>2. \A p \in Players : ~Present(p)'  BY <1>4 DEF Crash, Present
  <2> QED  BY <2>1, <2>2 DEF StampInv, ShownOnline, YoungStamp, NeverSeen
<1>5. CASE SweepReads \/ SweepCancels \/ Finish \/ UNCHANGED vars
  <2>1. UNCHANGED <<connected, seenAge, startAge, away, lateGoodbye, conn, registry>>
    BY <1>5 DEF SweepReads, SweepCancels, Finish, vars, sockets, columns, session, late
  <2> QED  BY <2>1 DEF StampInv, ShownOnline, Present, YoungStamp, NeverSeen
<1> QED  BY <1>1, <1>2, <1>3, <1>4, <1>5 DEF Next

(* The idle sweep only cancels a session nobody has been connected to for   *)
(* the whole timeout, for every timeout and any number of crashes, unless   *)
(* a goodbye has fallen on a live connection.                               *)
THEOREM SweepLeavesTimeToReconnect == Spec => FullTimeoutToReconnect
<1>1. ASSUME TypeOK, StampInv, [Next]_vars, ~sweep, sweep'
      PROVE  away >= Timeout \/ lateGoodbye
  <2>1. SweepReads
    BY <1>1 DEF Next, Connection, Accept, Register, Hello, Close, GoodbyeChecks, GoodbyeWrites,
                SweepCancels, Finish, Tick, Crash, Restart, vars, session
  <2>2. CASE YoungStamp
    <3>1. PICK p \in Players : seenAge[p] # Never /\ seenAge[p] <= away  BY <2>2 DEF YoungStamp
    <3>2. seenAge[p] >= Timeout  BY <2>1, <3>1 DEF SweepReads, IdleLongEnough
    <3>3. seenAge[p] \in Int /\ away \in Int  BY <1>1 DEF TypeOK, Ages, Never
    <3> QED  BY <3>1, <3>2, <3>3, TimeoutAssumption
  <2>3. CASE NeverSeen
    <3>1. startAge >= Timeout /\ startAge <= away
      BY <2>1, <2>3 DEF NeverSeen, SweepReads, IdleLongEnough
    <3> QED  BY <1>1, <3>1, TimeoutAssumption DEF TypeOK, Ages
  <2> QED  BY <1>1, <2>1, <2>2, <2>3 DEF StampInv, SweepReads
<1>2. TypeOK /\ StampInv /\ [Next]_vars => [~sweep /\ sweep' => away >= Timeout \/ lateGoodbye]_vars
  BY <1>1
<1> QED  BY <1>2, StampInit, StampStep, PresenceTyped, PTL DEF Spec, FullTimeoutToReconnect

=============================================================================
