-------------------------- MODULE SessionLifecycle --------------------------
(***************************************************************************)
(* The life of one session, driven by two processes that share only its    *)
(* database row:                                                           *)
(*                                                                         *)
(*   main server   the owner's PATCH and DELETE, and the countdown task    *)
(*                 spawned at creation (`web`);                            *)
(*   game server   the registry entry, the countdown tasks it spawns       *)
(*                 (`timers`), one probe-loop handler per player (`pc`),   *)
(*                 the idle sweep and the startup recovery.                *)
(*                                                                         *)
(* No writer holds a lock from its read of the row to its write: every     *)
(* such pair is two actions here, and other writers come in between.       *)
(* The exceptions are the two conditional UPDATEs, which are one action.   *)
(*                                                                         *)
(* The clock is two facts: countdowns may reach zero at any tick, and      *)
(* `overdue` says the running time of the session is used up.              *)
(***************************************************************************)
EXTENDS SessionRow, FiniteSets

CONSTANTS Players,        \* the non-revoked players of the session
          MaxPatches,     \* bound: PATCH requests in a behaviour
          MaxInFlight,    \* bound: PATCH requests between read and write
          MaxCrashes,     \* bound: game-server crashes
          Events          \* the rarer events an instance includes

ASSUME BoundsAssumption == /\ MaxPatches \in Nat
                           /\ MaxInFlight \in Nat
                           /\ MaxCrashes \in Nat
                           /\ Events \subseteq {"delete", "observer", "idle", "webCrash"}

VARIABLES
  row,          \* the sessions row
  overdue,      \* running time used up (the arithmetic is in PauseClock)
  patches,      \* PATCH handlers between load and update: [to, seen]
  web,          \* where the main server's countdown task is
  up,           \* the game-server process: down, booting, up
  resuming,     \* what resume_on_startup decided and has not yet spawned
  entry,        \* phase cached in the registry entry, "none" without entry
  timers,       \* [stage -> how many game-server countdown tasks are there]
  idle,         \* the idle sweep saw an empty Running session
  pc, seen,     \* per player: the handler's place, the status it read last
  sched,        \* per player: the session_scheduler_state row (persisted)
  requested,    \* observability: PATCH requests so far
  crashes,      \* observability: crashes of the game server so far
  webLost,      \* observability: the main server has restarted
  revived,      \* observability: times an ended row was put back in play
  chains        \* observability: judge-and-award chains started

gs   == <<up, resuming, entry, timers, idle>>
play == <<pc, seen, sched>>
obs  == <<requested, crashes, webLost, revived, chains>>
vars == <<row, overdue, patches, web, gs, play, obs>>

NoEntry == "none"
Stages  == {"lobby", "lobbyWrite", "running", "expired", "parked", "finishNow"}
WebPCs  == {"lobby", "lobbyWrite", "ticking", "expired", "waiting", "final",
            "write", "off"}
Places  == {"away", "upgrading", "lobbyWait", "loop", "resolve", "ensure",
            "ensureWrite", "work", "exhausted", "flip", "done"}
Requests == [to : Status, seen : Rows]
NoTimers == [s \in Stages |-> 0]
Connected(p) == pc[p] \notin {"away", "upgrading"}

TypeOK ==
  /\ row \in Rows
  /\ overdue \in BOOLEAN
  /\ patches \subseteq Requests
  /\ web \in WebPCs
  /\ up \in {"down", "booting", "up"}
  /\ resuming \in {"none", "running", "parked", "finishNow"}
  /\ entry \in Status \cup {NoEntry}
  /\ timers \in [Stages -> Nat]
  /\ idle \in BOOLEAN
  /\ pc \in [Players -> Places]
  /\ seen \in [Players -> Status]
  /\ sched \in [Players -> {"none", "task", "completed"}]
  /\ requested \in Nat /\ crashes \in Nat /\ revived \in Nat /\ chains \in Nat
  /\ webLost \in BOOLEAN

\* post_create: a Lobby row, its countdown task, and an owning game server.
Init ==
  /\ row = NewRow
  /\ overdue = FALSE
  /\ patches = {}
  /\ web = "lobby"
  /\ up = "up" /\ resuming = "none"
  /\ entry = NoEntry
  /\ timers = NoTimers
  /\ idle = FALSE
  /\ pc = [p \in Players |-> "away"]
  /\ seen = [p \in Players |-> "Lobby"]
  /\ sched = [p \in Players |-> "none"]
  /\ requested = 0 /\ crashes = 0 /\ webLost = FALSE
  /\ revived = 0 /\ chains = 0

-----------------------------------------------------------------------------
(* Helpers                                                                 *)

\* Every write of the row; `revived` counts the ones that undo an ending.
Put(new) ==
  /\ row' = new
  /\ revived' = revived + IF Ended(row) /\ ~Ended(new) THEN 1 ELSE 0

\* started_at := now, so the running time starts over.
Start == Put(StartColumns(row)) /\ overdue' = FALSE

Spawned(s)    == [timers EXCEPT ![s] = @ + 1]
Gone(s)       == [timers EXCEPT ![s] = @ - 1]
Moved(s, t)   == [timers EXCEPT ![s] = @ - 1, ![t] = @ + 1]
Cached(phase) == IF entry = NoEntry THEN NoEntry ELSE phase
Goto(p, l)    == pc' = [pc EXCEPT ![p] = l]

\* finish_session: announce (cached phase), then the conditional UPDATE; the
\* one caller whose UPDATE changed the row runs the judge-and-award chain.
FinishSession ==
  IF Flippable(row)
    THEN Put(FlipColumns(row)) /\ chains' = chains + 1
    ELSE UNCHANGED <<row, revived, chains>>

-----------------------------------------------------------------------------
(* Main server: the owner's requests                                       *)

\* patch_one up to validate_transition, on the row it loaded.
PatchRead(s) ==
  /\ requested < MaxPatches /\ Cardinality(patches) < MaxInFlight
  /\ row.exists
  /\ ValidTransition(row.status, s)
  /\ patches' = patches \cup {[to |-> s, seen |-> row]}
  /\ requested' = requested + 1
  /\ UNCHANGED <<row, overdue, web, gs, play, crashes, webLost, revived, chains>>

\* The update; it fails when the row is gone.
PatchWrite(r) ==
  /\ patches' = patches \ {r}
  /\ IF row.exists THEN Put(PatchColumns(row, r.seen, r.to))
                   ELSE UNCHANGED <<row, revived>>
  /\ overdue' = (overdue /\ ~(r.to = "Running" /\ ~r.seen.started))
  /\ UNCHANGED <<web, gs, play, requested, crashes, webLost, chains>>

DeleteOne ==
  /\ "delete" \in Events /\ row.exists
  /\ row' = [row EXCEPT !.exists = FALSE]
  /\ UNCHANGED <<overdue, patches, web, gs, play, obs>>

(* Main server: lobby_timer, then running_timer in the same task           *)

WebUnchanged == UNCHANGED <<patches, gs, play, requested, crashes, webLost, chains>>
WebMoves(l)  == web' = l /\ UNCHANGED <<row, overdue, revived>> /\ WebUnchanged

\* Mutant: no look at the row after the last tick.
WebLobbyUnchecked == web = "lobby" /\ WebMoves("lobbyWrite")

\* A tick, or the read after the last one.
WebLobby ==
  /\ web = "lobby"
  /\ WebMoves(IF Is(row, "Lobby") THEN "lobbyWrite" ELSE "off")

WebLobbyWrite ==
  /\ web = "lobbyWrite"
  /\ IF row.exists THEN Start /\ web' = "ticking"
                   ELSE UNCHANGED <<row, overdue, revived>> /\ web' = "off"
  /\ WebUnchanged

WebTick ==
  /\ web = "ticking"
  /\ \/ Is(row, "Running") /\ overdue /\ WebMoves("expired")
     \/ (Ended(row) \/ Is(row, "Lobby") \/ ~row.exists) /\ WebMoves("off")

\* Re-read after the break; then, is the owning game server heartbeating?
WebConfirm ==
  /\ web = "expired"
  /\ IF Is(row, "Running") THEN WebMoves("waiting") \/ WebMoves("final")
                           ELSE WebMoves("off")

\* Mutant: the wait has no deadline.
WebWaitForever ==
  /\ web = "waiting"
  /\ row.exists /\ row.status # "Running" /\ WebMoves("off")

\* wait_for_owner_to_finish: any other status ends the wait with TRUE, which
\* ends the task; the deadline (or a failed poll) ends it with FALSE.
WebWait ==
  /\ web = "waiting"
  /\ \/ row.exists /\ row.status # "Running" /\ WebMoves("off")
     \/ WebMoves("final")

WebFinal ==
  /\ web = "final"
  /\ WebMoves(IF Is(row, "Running") THEN "write" ELSE "off")

WebFinish ==
  /\ web = "write"
  /\ web' = "off"
  /\ IF row.exists THEN Put(WebFinishColumns(row)) ELSE UNCHANGED <<row, revived>>
  /\ UNCHANGED overdue /\ WebUnchanged

\* The process restarts: handlers and countdown are gone, nothing respawns them.
WebCrash ==
  /\ "webCrash" \in Events /\ ~webLost
  /\ webLost' = TRUE /\ web' = "off" /\ patches' = {}
  /\ UNCHANGED <<row, overdue, gs, play, requested, crashes, revived, chains>>

\* The running time is used up while the session runs.
TimeUp ==
  /\ Is(row, "Running") /\ ~overdue
  /\ overdue' = TRUE
  /\ UNCHANGED <<row, patches, web, gs, play, obs>>

-----------------------------------------------------------------------------
(* Game server: the countdown tasks                                        *)

GsUnchanged == UNCHANGED <<patches, web, up, resuming, idle, play,
                           requested, crashes, webLost>>
NoWrite == UNCHANGED <<row, overdue, revived, chains>>

\* lobby_timer after its last tick: start, adopt a Running row, or leave.
TimerLobby ==
  /\ timers["lobby"] > 0
  /\ \/ Is(row, "Lobby") /\ timers' = Moved("lobby", "lobbyWrite") /\ UNCHANGED entry
     \/ Is(row, "Running") /\ timers' = Moved("lobby", "running") /\ entry' = Cached("Running")
     \/ ~Is(row, "Lobby") /\ ~Is(row, "Running") /\ timers' = Gone("lobby") /\ UNCHANGED entry
  /\ NoWrite /\ GsUnchanged

TimerLobbyWrite ==
  /\ timers["lobbyWrite"] > 0
  /\ IF row.exists
       THEN /\ Start
            /\ timers' = Moved("lobbyWrite", "running") /\ entry' = Cached("Running")
       ELSE timers' = Gone("lobbyWrite") /\ UNCHANGED <<row, overdue, revived, entry>>
  /\ UNCHANGED chains /\ GsUnchanged

\* Mutant: a countdown that reaches zero only announces it.
TimerTickNoExpiry ==
  /\ timers["running"] > 0
  /\ (Ended(row) \/ Is(row, "Lobby") \/ ~row.exists) /\ timers' = Gone("running")
  /\ UNCHANGED entry /\ NoWrite /\ GsUnchanged

TimerTick ==
  /\ timers["running"] > 0
  /\ \/ Is(row, "Running") /\ overdue /\ timers' = Moved("running", "expired")
     \/ (Ended(row) \/ Is(row, "Lobby") \/ ~row.exists) /\ timers' = Gone("running")
  /\ UNCHANGED entry /\ NoWrite /\ GsUnchanged

\* running_timer's last two lines: finish_session, then drop the entry.
TimerFinish ==
  /\ timers["expired"] > 0
  /\ FinishSession
  /\ timers' = Gone("expired") /\ entry' = NoEntry
  /\ UNCHANGED overdue /\ GsUnchanged

\* parked_poller: a tick that leaves the loop.
Parked ==
  /\ timers["parked"] > 0
  /\ \/ /\ Is(row, "Running")
        /\ timers' = Moved("parked", IF overdue THEN "finishNow" ELSE "running")
     \/ (Ended(row) \/ ~row.exists) /\ timers' = Gone("parked")
  /\ UNCHANGED entry /\ NoWrite /\ GsUnchanged

\* The recovery's own finish_session calls keep the entry.
FinishNow ==
  /\ timers["finishNow"] > 0
  /\ FinishSession
  /\ timers' = Gone("finishNow") /\ entry' = Cached("Finished")
  /\ UNCHANGED overdue /\ GsUnchanged

-----------------------------------------------------------------------------
(* Game server: crash, restart, resume_on_startup, observers, idle sweep   *)

Crash ==
  /\ up # "down" /\ crashes < MaxCrashes
  /\ crashes' = crashes + 1
  /\ up' = "down" /\ resuming' = "none" /\ entry' = NoEntry
  /\ timers' = NoTimers /\ idle' = FALSE
  /\ pc' = [p \in Players |-> "away"] /\ seen' = [p \in Players |-> "Lobby"]
  /\ UNCHANGED <<row, overdue, patches, web, sched, requested, webLost, revived, chains>>

\* The listener and the recovery task start together: players may connect
\* while the recovery has not looked yet.
Restart ==
  /\ up = "down" /\ up' = "booting"
  /\ UNCHANGED <<row, overdue, patches, web, resuming, entry, timers, idle, play, obs>>

\* The query for Running and Paused sessions, and decide_recovery.
ResumeRead ==
  /\ up = "booting" /\ up' = "up"
  /\ resuming' = CASE Is(row, "Running") -> IF overdue THEN "finishNow" ELSE "running"
                   [] Is(row, "Paused")  -> "parked"
                   [] OTHER              -> "none"
  /\ UNCHANGED <<row, overdue, patches, web, entry, timers, idle, play, obs>>

\* register_session_entry leaves an existing entry alone; the spawn does not ask.
ResumeSpawn ==
  /\ resuming # "none" /\ resuming' = "none"
  /\ timers' = Spawned(resuming)
  /\ entry' = IF entry # NoEntry THEN entry
              ELSE CASE resuming = "running"   -> "Running"
                     [] resuming = "parked"    -> "Paused"
                     [] resuming = "finishNow" -> NoEntry
  /\ UNCHANGED <<row, overdue, patches, web, up, idle, play, obs>>

\* A CLI observer's socket: ensure_session_entry, and no timer.
ObserverConnect ==
  /\ "observer" \in Events /\ up # "down"
  /\ row.exists /\ ~Ended(row) /\ entry = NoEntry
  /\ entry' = row.status
  /\ UNCHANGED <<row, overdue, patches, web, up, resuming, timers, idle, play, obs>>

\* sweep_once: nobody connected for longer than the project's idle timeout.
IdleRead ==
  /\ "idle" \in Events /\ up # "down" /\ ~idle
  /\ Is(row, "Running") /\ \A p \in Players : ~Connected(p)
  /\ idle' = TRUE
  /\ UNCHANGED <<row, overdue, patches, web, up, resuming, entry, timers, play, obs>>

\* cancel_idle_session: one conditional UPDATE.
IdleWrite ==
  /\ idle /\ idle' = FALSE
  /\ IF IdleCancellable(row)
       THEN Put(IdleColumns(row)) /\ entry' = Cached("Cancelled")
       ELSE UNCHANGED <<row, revived, entry>>
  /\ UNCHANGED <<overdue, patches, web, up, resuming, timers, play,
                 requested, crashes, webLost, chains>>

-----------------------------------------------------------------------------
(* Game server: one player-agent handler per player                        *)

Handler == UNCHANGED <<patches, web, up, resuming, idle, requested, crashes, webLost>>
\* `seen` is a local of the handler: it goes out of scope with the loop body.
Scope == {"upgrading", "resolve", "ensure", "ensureWrite", "work"}
Scoped(p, l) == seen' = IF l \in Scope THEN seen ELSE [seen EXCEPT ![p] = "Lobby"]
Moves(p, l) == Goto(p, l) /\ Scoped(p, l) /\ UNCHANGED <<sched, entry, timers, row,
                                          overdue, revived, chains>> /\ Handler

\* ws_player_agent_handler: the session as read at the start; GONE once ended.
Connect(p) ==
  /\ up # "down" /\ pc[p] = "away" /\ row.exists /\ ~Ended(row)
  /\ Goto(p, "upgrading") /\ seen' = [seen EXCEPT ![p] = row.status]
  /\ UNCHANGED <<sched, entry, timers, row, overdue, revived, chains>> /\ Handler

\* Mutant: every connection spawns.
SpawnsTimerAlways(p) == seen[p] # "Paused"

\* already_tracked; a Paused session gets neither entry nor timer.
SpawnsTimer(p) == entry = NoEntry /\ seen[p] # "Paused"

\* The spawn decision, then the socket task up to the lobby wait.
Upgrade(p) ==
  /\ pc[p] = "upgrading"
  /\ entry' = IF entry = NoEntry /\ seen[p] # "Paused" THEN seen[p] ELSE entry
  /\ timers' = IF SpawnsTimer(p) THEN Spawned(IF seen[p] = "Lobby" THEN "lobby" ELSE "running")
                ELSE timers
  /\ Goto(p, IF entry' = "Lobby" THEN "lobbyWait" ELSE "loop")
  /\ seen' = [seen EXCEPT ![p] = "Lobby"]
  /\ UNCHANGED <<sched, row, overdue, revived, chains>> /\ Handler

\* SessionStarted, or the lobby deadline, which is after the countdown's end.
LobbyWaitEnds(p) ==
  /\ pc[p] = "lobbyWait" /\ timers["lobby"] = 0
  /\ Moves(p, "loop")

\* The top of the probe loop; ProbeAction::Pause drains a second and falls
\* through to the same dispatch body as ProbeAction::Dispatch.
LoopTop(p) ==
  /\ pc[p] = "loop"
  /\ IF ~row.exists \/ Ended(row)
       THEN Goto(p, "away") /\ UNCHANGED seen
       ELSE Goto(p, "resolve") /\ seen' = [seen EXCEPT ![p] = row.status]
  /\ UNCHANGED <<sched, entry, timers, row, overdue, revived, chains>> /\ Handler

\* resolve_current_task_id, with bootstrap_scheduler_state on first dispatch.
Resolve(p) ==
  /\ pc[p] = "resolve"
  /\ Goto(p, CASE sched[p] = "completed" -> "done"
               [] sched[p] = "task"      -> "work"
               [] OTHER                  -> IF row.exists THEN "ensure" ELSE "done")
  /\ Scoped(p, pc'[p])
  /\ sched' = IF sched[p] = "none" /\ row.exists THEN [sched EXCEPT ![p] = "task"] ELSE sched
  /\ UNCHANGED <<entry, timers, row, overdue, revived, chains>> /\ Handler

\* ensure_session_running: the read, and the unconditional write.
EnsureRead(p) ==
  /\ pc[p] = "ensure"
  /\ Moves(p, IF row.exists /\ row.status # "Running" THEN "ensureWrite" ELSE "work")

EnsureWrite(p) ==
  /\ pc[p] = "ensureWrite"
  /\ Goto(p, "work")
  /\ IF row.exists THEN Start ELSE UNCHANGED <<row, overdue, revived>>
  /\ UNCHANGED <<seen, sched, entry, timers, chains>> /\ Handler

\* A probe was dispatched and graded, or the next task scheduled.
Work(p) == pc[p] = "work" /\ Moves(p, "loop")

\* advance_to_next_task found no next task.
LastTask(p) ==
  /\ pc[p] = "work"
  /\ sched' = [sched EXCEPT ![p] = "completed"]
  /\ Goto(p, "exhausted") /\ Scoped(p, "exhausted")
  /\ UNCHANGED <<entry, timers, row, overdue, revived, chains>> /\ Handler

\* Mutant: a player counts as done once its handler is idle.
EveryoneDoneIdle(p) == \A q \in Players \ {p} : sched[q] = "completed" /\ pc[q] = "done"

\* all_eligible_players_done, asked by p's handler.
EveryoneDone(p) == p \in Players /\ \A q \in Players : sched[q] = "completed"

\* finish_session_if_all_done: the completion query.
CheckAllDone(p) ==
  /\ pc[p] = "exhausted"
  /\ Moves(p, IF row.exists /\ EveryoneDone(p) THEN "flip" ELSE "done")

AllDoneFinish(p) ==
  /\ pc[p] = "flip"
  /\ FinishSession
  /\ Goto(p, "done") /\ entry' = Cached("Finished")
  /\ UNCHANGED <<seen, sched, timers, overdue>> /\ Handler

\* idle_until_session_ends
IdleUntilEnd(p) ==
  /\ pc[p] = "done" /\ (~row.exists \/ Ended(row))
  /\ Moves(p, "away")

\* The client closes; noticed where the handler is reading its socket.
Disconnect(p) ==
  /\ pc[p] \in {"lobbyWait", "resolve", "work", "done"}
  /\ Moves(p, "away")

-----------------------------------------------------------------------------
Web   == WebLobby \/ WebLobbyWrite \/ WebTick \/ WebConfirm \/ WebWait \/ WebFinal \/ WebFinish
Timer == TimerLobby \/ TimerLobbyWrite \/ TimerTick \/ TimerFinish \/ Parked \/ FinishNow
Owner == \/ \E s \in Status : PatchRead(s)
         \/ \E r \in patches : PatchWrite(r)
         \/ DeleteOne
Recover == Restart \/ ResumeRead \/ ResumeSpawn
Player(p) == \/ Connect(p) \/ Upgrade(p) \/ LobbyWaitEnds(p) \/ LoopTop(p)
             \/ Resolve(p) \/ EnsureRead(p) \/ EnsureWrite(p) \/ Work(p)
             \/ LastTask(p) \/ CheckAllDone(p) \/ AllDoneFinish(p)
             \/ IdleUntilEnd(p) \/ Disconnect(p)

Next == \/ Owner \/ Web \/ WebCrash \/ TimeUp \/ Timer
        \/ Crash \/ Recover \/ ObserverConnect \/ IdleRead \/ IdleWrite
        \/ \E p \in Players : Player(p)

Spec == Init /\ [][Next]_vars

\* The steps of a handler that wait for nobody outside the server.
HandlerStep(p) == \/ Upgrade(p) \/ LobbyWaitEnds(p) \/ LoopTop(p) \/ Resolve(p)
                  \/ EnsureRead(p) \/ EnsureWrite(p) \/ CheckAllDone(p)
                  \/ AllDoneFinish(p) \/ IdleUntilEnd(p)

(* Tasks that were spawned keep running, requests in flight are answered,  *)
(* and a crashed game server is restarted.  Nothing is promised of clients:*)
(* they need not connect, pass a task, or stay.                            *)
Fairness ==
  /\ WF_vars(Web)
  /\ WF_vars(TimerLobby \/ TimerLobbyWrite) /\ WF_vars(TimerTick)
  /\ WF_vars(TimerFinish) /\ WF_vars(Parked) /\ WF_vars(FinishNow)
  /\ WF_vars(Recover) /\ WF_vars(IdleWrite)
  /\ WF_vars(\E r \in patches : PatchWrite(r))
  /\ \A p \in Players : WF_vars(HandlerStep(p))

FairSpec == Spec /\ Fairness

-----------------------------------------------------------------------------
(* Safety                                                                  *)

(* Whatever the order of the writers, the columns of the row agree: a       *)
(* session that has run has its start time, one that ended has its end      *)
(* time, and a paused one the instant it was paused (recovery, idle sweep   *)
(* and countdowns all compute from these).                                  *)
StampsFollowStatus == Consistent(row)

\* The steps that write what they decided on a row read earlier.
StaleWrite ==
  \/ \E r \in patches \ patches' : r.seen.status \notin Terminal
  \/ web = "lobbyWrite" /\ web' = "ticking"
  \/ timers'["lobbyWrite"] < timers["lobbyWrite"]
  \/ \E p \in Players : pc[p] = "ensureWrite" /\ pc'[p] = "work"

(* An ended session is put back in play only by a write that had been       *)
(* decided on an older row: a PATCH, a lobby timer of either process, or    *)
(* ensure_session_running.  The running timers, the finish and the idle     *)
(* sweep never do it.                                                       *)
EndingUndoneOnlyByStaleWrite ==
  [][Ended(row) /\ row'.exists /\ ~Ended(row') => StaleWrite]_vars

(* However many last finishers, timers and recovery tasks race to finish    *)
(* the session, the judge-and-award chain starts once per ending.           *)
OneChainPerEnding ==
  chains + (IF row.exists /\ ~Ended(row) THEN 1 ELSE 0) <= 1 + revived

(* Within one life of the game server a session has one countdown; the      *)
(* startup recovery does not ask whether a player's connection was faster,  *)
(* so after a restart there may be two, and never more.                     *)
OneCountdown ==
  LET running == {s \in Stages : timers[s] > 0} IN
  /\ crashes = 0 => Cardinality(running) <= 1 /\ \A s \in Stages : timers[s] <= 1
  /\ Cardinality(running) <= 2 /\ \A s \in Stages : timers[s] <= 2

-----------------------------------------------------------------------------
(* What all of this implements                                             *)

Phase == IF ~row.exists THEN "gone"
         ELSE IF Ended(row) THEN "over"
         ELSE IF Is(row, "Lobby") THEN "lobby" ELSE "play"

\* A handler has read a session in play, and will put it to running.
WillEnsure(p) == \/ pc[p] = "resolve" /\ sched[p] = "none"
                 \/ pc[p] \in {"ensure", "ensureWrite"}

OpenPatches  == {r \in patches : r.seen.status \notin Terminal}
OpenEnsures  == {p \in Players : WillEnsure(p)}
Decisions == {<<"patch", r>> : r \in OpenPatches}
        \cup {<<"web", w>> : w \in {web} \cap {"lobbyWrite"}}
        \cup {<<"timer", i>> : i \in 1 .. timers["lobbyWrite"]}
        \cup {<<"handler", p>> : p \in OpenEnsures}

Promise == INSTANCE SessionPromise WITH phase <- Phase, decisions <- Decisions

(* Two processes, their countdowns, requests and handlers together keep the *)
(* promise of one session: an end is undone only by a write decided before  *)
(* it, and the judge chain starts in the step that ends play.               *)
KeepsPromise == Promise!Spec

-----------------------------------------------------------------------------
(* Liveness, under Fairness                                                *)

(* A main-server countdown that is alive ends an overdue session, whatever  *)
(* the game server does: "a wedged owner cannot strand a session".          *)
WebBackstop ==
  (/\ web \in {"ticking", "expired", "waiting", "final", "write"}
   /\ Is(row, "Running") /\ overdue)
     ~> (~Is(row, "Running") \/ ~overdue \/ webLost)

(* So does a game-server countdown, without the main server's help.         *)
GameServerEnds ==
  (timers["running"] > 0 /\ Is(row, "Running") /\ overdue)
     ~> (~Is(row, "Running") \/ ~overdue \/ up # "up")

(* The last finisher ends the session even if all finish at once: the       *)
(* scheduler row is written before the others' rows are read.               *)
LastFinisherEnds ==
  (\A p \in Players : sched[p] = "completed")
     ~> (~row.exists \/ Ended(row) \/ row.status = "Lobby" \/ revived > 0 \/ crashes > 0)

-----------------------------------------------------------------------------
(* What the comments say and the code does not do: each is violated        *)

(* "... the next iteration's top-of-loop status check prevents ordinal      *)
(* advance while paused (advance_to_next_task only runs inside the dispatch *)
(* body, which is skipped when Paused)."                                    *)
PausedSkipsDispatch ==
  [][\A p \in Players : sched[p] = "task" /\ sched'[p] = "completed" => seen[p] # "Paused"]_vars

(* "Spawn lobby countdown timer the first time a player agent connects to a *)
(* lobby-phase session."                                                    *)
FirstAgentStartsCountdown ==
  [][\A p \in Players :
       pc[p] = "upgrading" /\ pc'[p] = "lobbyWait" => \E s \in Stages : timers'[s] > 0]_vars

=============================================================================
