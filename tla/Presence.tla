------------------------------ MODULE Presence ------------------------------
(***************************************************************************)
(* Who is connected: the game server's registry of agent channels, the     *)
(* agent_connected / agent_last_seen_at columns of the players, and the    *)
(* idle sweep that cancels a running session on what they say.             *)
(*                                                                         *)
(* A player may have several connections: the newest takes the registry    *)
(* entry over, and the older handlers find out when they next look.  The   *)
(* registry, the announcement of a connection and the announcement of its  *)
(* end are three steps of two tasks, so they interleave with those of the  *)
(* player's other connections.  Time is counted in ticks, Timeout of them  *)
(* to the project's idle_timeout_secs.                                     *)
(***************************************************************************)
EXTENDS Integers

CONSTANTS Players,     \* the non-revoked players of the session
          Slots,       \* bound, per player: connections in one process
          Timeout,     \* idle_timeout_secs, in ticks
          MaxCrashes   \* bound: crashes of the game server

ASSUME TimeoutAssumption == Timeout \in Nat \ {0}
ASSUME BoundsAssumption == MaxCrashes \in Nat

Nobody == "nobody"
ASSUME NobodyAssumption == \A p \in Players : Nobody \notin Slots[p]

VARIABLES
  conn,        \* <<player, slot>> -> where that connection's handler is
  registry,    \* player -> the slot whose channel is registered, or Nobody
  goodbye,     \* <<player, slot>> -> the task the RegistryGuard spawned
  connected,   \* players.agent_connected
  seenAge,     \* age of players.agent_last_seen_at in ticks, Never if NULL
  startAge,    \* age of sessions.started_at
  status,      \* sessions.status, once the session is running
  sweep,       \* the idle sweep decided to cancel and has not yet written
  up,          \* the game-server process runs
  away,        \* observability: ticks without an announced connection
  lateHello,   \* observability: a superseded handler announced itself
  lateGoodbye, \* observability: an offline mark fell on a live connection
  crashes      \* observability: crashes so far

sockets == <<conn, registry, goodbye>>
columns == <<connected, seenAge>>
session == <<startAge, status, sweep>>
late    == <<lateHello, lateGoodbye>>
vars    == <<sockets, columns, session, up, away, late, crashes>>

Conns == UNION {{p} \X Slots[p] : p \in Players}
Never == -1
Ages  == 0 .. Timeout      \* beyond the timeout, ages make no difference

TypeOK ==
  /\ conn \in [Conns -> {"off", "accepted", "registered", "serving", "ended"}]
  /\ registry \in [Players -> (UNION {Slots[p] : p \in Players}) \cup {Nobody}]
  /\ goodbye \in [Conns -> {"none", "check", "write"}]
  /\ connected \in [Players -> BOOLEAN]
  /\ seenAge \in [Players -> Ages \cup {Never}]
  /\ startAge \in Ages /\ away \in Ages
  /\ status \in {"Running", "Ended"}
  /\ sweep \in BOOLEAN /\ up \in BOOLEAN
  /\ lateHello \in BOOLEAN /\ lateGoodbye \in BOOLEAN
  /\ crashes \in Nat

Older(x) == IF x \in 0 .. Timeout - 1 THEN x + 1 ELSE x

\* The player's current connection has been announced.
Present(p) == registry[p] # Nobody /\ conn[<<p, registry[p]>>] = "serving"
SomeonePresent == \E p \in Players : Present(p)

Init ==
  /\ conn = [c \in Conns |-> "off"]
  /\ registry = [p \in Players |-> Nobody]
  /\ goodbye = [c \in Conns |-> "none"]
  /\ connected = [p \in Players |-> FALSE]
  /\ seenAge = [p \in Players |-> Never]
  /\ startAge = 0 /\ status = "Running" /\ sweep = FALSE
  /\ up = TRUE /\ away = 0
  /\ lateHello = FALSE /\ lateGoodbye = FALSE /\ crashes = 0

-----------------------------------------------------------------------------
(* The players row                                                         *)

\* set_agent_presence: both columns, of whoever calls it last.
SetAgentPresence(p, online) ==
  /\ connected' = [connected EXCEPT ![p] = online]
  /\ seenAge' = [seenAge EXCEPT ![p] = 0]

-----------------------------------------------------------------------------
(* A connection's handler                                                  *)

Goto(p, s, stage) == conn' = [conn EXCEPT ![<<p, s>>] = stage]

\* The upgrade is refused once the session has ended.
Accept(p, s) ==
  /\ up /\ status = "Running"
  /\ conn[<<p, s>>] = "off" /\ Goto(p, s, "accepted")
  /\ UNCHANGED <<registry, goodbye, columns, session, up, away, late, crashes>>

\* The insert overwrites the entry of an older connection.
Register(p, s) ==
  /\ conn[<<p, s>>] = "accepted" /\ Goto(p, s, "registered")
  /\ registry' = [registry EXCEPT ![p] = s]
  /\ UNCHANGED <<goodbye, columns, session, up, away, late, crashes>>

\* The announcement, and the guard is armed; nothing looks at the registry.
Hello(p, s) ==
  /\ conn[<<p, s>>] = "registered" /\ Goto(p, s, "serving")
  /\ SetAgentPresence(p, TRUE)
  /\ away' = IF registry[p] = s THEN 0 ELSE away
  /\ lateHello' = (lateHello \/ registry[p] # s)
  /\ UNCHANGED <<registry, goodbye, session, up, lateGoodbye, crashes>>

\* Mutants: the guard removes whatever entry there is; it records no end.
DropUnconditionally(p, s) ==
  /\ registry' = [registry EXCEPT ![p] = Nobody]
  /\ goodbye' = [goodbye EXCEPT ![<<p, s>>] = "check"]
DropSilently(p, s) ==
  /\ registry' = [registry EXCEPT ![p] = IF @ = s THEN Nobody ELSE @]
  /\ UNCHANGED goodbye

\* RegistryGuard::drop: only the handler that is still the player's current
\* connection removes the entry and spawns the task that records the end.
DropGuard(p, s) ==
  IF registry[p] = s
    THEN /\ registry' = [registry EXCEPT ![p] = Nobody]
         /\ goodbye' = [goodbye EXCEPT ![<<p, s>>] = "check"]
    ELSE UNCHANGED <<registry, goodbye>>

\* The client closed, or the loop found the session ended.
Close(p, s) ==
  /\ conn[<<p, s>>] = "serving" /\ Goto(p, s, "ended")
  /\ DropGuard(p, s)
  /\ UNCHANGED <<columns, session, up, away, late, crashes>>

\* The top of the loop finds another channel in the registry.
Superseded(p, s) == registry[p] # s /\ Close(p, s)
SessionOver(p, s) == status # "Running" /\ Close(p, s)

\* The task first looks whether a reconnect has registered...
GoodbyeChecks(p, s) ==
  /\ goodbye[<<p, s>>] = "check"
  /\ goodbye' = [goodbye EXCEPT ![<<p, s>>] = IF registry[p] = Nobody THEN "write" ELSE "none"]
  /\ UNCHANGED <<conn, registry, columns, session, up, away, late, crashes>>

\* ... and then writes, with a lookup of the player in between.
GoodbyeWrites(p, s) ==
  /\ goodbye[<<p, s>>] = "write"
  /\ goodbye' = [goodbye EXCEPT ![<<p, s>>] = "none"]
  /\ SetAgentPresence(p, FALSE)
  /\ lateGoodbye' = (lateGoodbye \/ Present(p))
  /\ UNCHANGED <<conn, registry, session, up, away, lateHello, crashes>>

Connection(p, s) == \/ Accept(p, s) \/ Register(p, s) \/ Hello(p, s) \/ Close(p, s)
                    \/ GoodbyeChecks(p, s) \/ GoodbyeWrites(p, s)

-----------------------------------------------------------------------------
(* The idle sweep                                                          *)

\* Empty since the last agent was seen, or since the start if none ever was.
IdleLongEnough ==
  IF \A p \in Players : seenAge[p] = Never
    THEN startAge >= Timeout
    ELSE \A p \in Players : seenAge[p] # Never => seenAge[p] >= Timeout

SweepReads ==
  /\ up /\ ~sweep /\ status = "Running"
  /\ \A p \in Players : ~connected[p]
  /\ IdleLongEnough
  /\ sweep' = TRUE
  /\ UNCHANGED <<sockets, columns, startAge, status, up, away, late, crashes>>

\* cancel_idle_session: the update is conditional on the status alone, and
\* does nothing once the session has ended.
SweepCancels ==
  /\ sweep /\ sweep' = FALSE
  /\ status' = "Ended"
  /\ UNCHANGED <<sockets, columns, startAge, up, away, late, crashes>>

\* Any other end of the session.
Finish ==
  /\ status = "Running" /\ status' = "Ended"
  /\ UNCHANGED <<sockets, columns, startAge, sweep, up, away, late, crashes>>

-----------------------------------------------------------------------------
(* Time, crash and restart                                                 *)

Tick ==
  /\ seenAge' = [p \in Players |-> Older(seenAge[p])]
  /\ startAge' = Older(startAge)
  /\ away' = IF SomeonePresent THEN 0 ELSE Older(away)
  /\ UNCHANGED <<sockets, connected, status, sweep, up, late, crashes>>

\* Sockets, registry and spawned tasks are gone; the columns are not.
Crash ==
  /\ up /\ crashes < MaxCrashes
  /\ up' = FALSE /\ crashes' = crashes + 1
  /\ conn' = [c \in Conns |-> "off"]
  /\ registry' = [p \in Players |-> Nobody]
  /\ goodbye' = [c \in Conns |-> "none"]
  /\ sweep' = FALSE
  /\ UNCHANGED <<columns, startAge, status, away, late>>

\* Mutants: the flags are not reset; they are, and the stamp is left alone.
NoReset == UNCHANGED columns
ResetFlagsOnly == connected' = [p \in Players |-> FALSE] /\ UNCHANGED seenAge

\* reset_agent_presence_on_startup, before the sweep runs and sockets come.
ResetPresence ==
  /\ connected' = [p \in Players |-> FALSE]
  /\ seenAge' = [p \in Players |-> IF connected[p] THEN 0 ELSE seenAge[p]]

Restart ==
  /\ ~up /\ up' = TRUE
  /\ ResetPresence
  /\ UNCHANGED <<sockets, session, away, late, crashes>>

-----------------------------------------------------------------------------
Next == \/ \E p \in Players : \E s \in Slots[p] : Connection(p, s)
        \/ SweepReads \/ SweepCancels \/ Finish
        \/ Tick \/ Crash \/ Restart

Spec == Init /\ [][Next]_vars

\* Handlers and spawned tasks run on, the sweep comes round, time passes and
\* a crashed server is restarted.  No client has to come or go.
Fairness ==
  /\ \A p \in Players : \A s \in Slots[p] :
       /\ WF_vars(Register(p, s)) /\ WF_vars(Hello(p, s))
       /\ WF_vars(Superseded(p, s)) /\ WF_vars(SessionOver(p, s))
       /\ WF_vars(GoodbyeChecks(p, s)) /\ WF_vars(GoodbyeWrites(p, s))
  /\ WF_vars(SweepReads) /\ WF_vars(SweepCancels)
  /\ WF_vars(Tick) /\ WF_vars(Restart)

FairSpec == Spec /\ Fairness

-----------------------------------------------------------------------------
(* Safety                                                                  *)

(* Verdicts reach a player's newest connection: as long as the connection   *)
(* that registered last is open it is the registered one, whichever older   *)
(* handlers are torn down meanwhile.  So a player with an empty entry has   *)
(* no open connection but superseded ones.                                  *)
NewestStaysRegistered ==
  [][\A p \in Players : registry[p] # Nobody /\ registry'[p] # registry[p] /\ up' =>
       \/ conn'[<<p, registry[p]>>] = "ended"
       \/ registry'[p] # Nobody /\ conn[<<p, registry'[p]>>] = "accepted"]_vars

(* No ghosts: a player shown connected has a registered connection or a     *)
(* goodbye on its way, also after a crash.  The one exception is a handler  *)
(* that announced itself after it had been superseded.                      *)
NoGhosts ==
  \A p \in Players :
    up /\ connected[p] =>
      \/ registry[p] # Nobody
      \/ \E s \in Slots[p] : goodbye[<<p, s>>] # "none"
      \/ lateHello

(* The sweep gives clients the whole idle timeout to come back: it decides  *)
(* to cancel only when no announced connection has been there for that      *)
(* long, across crashes and restarts of the server too.  The one exception  *)
(* is a goodbye that fell on a live connection.                             *)
FullTimeoutToReconnect == [][~sweep /\ sweep' => away >= Timeout \/ lateGoodbye]_vars

-----------------------------------------------------------------------------
(* Liveness                                                                *)

(* A session that everybody has left ends, crash or no crash, unless a late *)
(* announcement leaves a ghost behind.                                      *)
AbandonedSessionEnds ==
  <>[](\A p \in Players : registry[p] = Nobody) => <>(status # "Running" \/ lateHello)

-----------------------------------------------------------------------------
(* What the comment says and the code does not do: violated                *)

(* "A superseded handler's teardown does neither, so a reconnect never      *)
(* marks the new, live connection offline."                                 *)
LiveStaysLive == \A p \in Players : Present(p) => connected[p]

=============================================================================
