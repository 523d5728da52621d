----------------------- MODULE SessionLifecycleProofs -----------------------
(***************************************************************************)
(* Theorems about SessionLifecycle, for any number of players, requests    *)
(* and crashes: the types, and that the columns of the sessions row agree  *)
(* whatever the order in which the writers of both processes interleave;   *)
(* one countdown at a time; and that SessionPromise is implemented.        *)
(***************************************************************************)
EXTENDS SessionLifecycle, FiniteSetTheorems, TLAPS

(* What a write still in flight may rely on when it lands.  started_at and  *)
(* finished_at are never cleared, so what a PATCH saw set is still set; and *)
(* the main server's final write follows a read of a Running row.           *)
InFlightInv ==
  /\ \A r \in patches :
       /\ Consistent(r.seen)
       /\ ValidTransition(r.seen.status, r.to)
       /\ r.seen.started => row.started
       /\ r.seen.finished # NoStamp => row.finished # NoStamp
  /\ web = "write" => row.started

IInv == TypeOK /\ StampsFollowStatus /\ InFlightInv

-----------------------------------------------------------------------------
(* The writers of the row, one lemma each: the row stays typed, its columns *)
(* still agree, and no stamp is lost.                                       *)

KeepsStamps(old, new) ==
  /\ old.started => new.started
  /\ old.finished # NoStamp => new.finished # NoStamp

\* Lobby timers and ensure_session_running.
LEMMA StartWrite ==
  ASSUME NEW r \in Rows
  PROVE  /\ StartColumns(r) \in Rows
         /\ Consistent(StartColumns(r))
         /\ KeepsStamps(r, StartColumns(r))
         /\ StartColumns(r).started
  BY DEF StartColumns, Rows, Status, Terminal, Consistent, KeepsStamps

\* The conditional UPDATE of finish_session.
LEMMA FlipWrite ==
  ASSUME NEW r \in Rows, Consistent(r), Flippable(r)
  PROVE  /\ FlipColumns(r) \in Rows
         /\ Consistent(FlipColumns(r))
         /\ KeepsStamps(r, FlipColumns(r))
  BY DEF FlipColumns, Flippable, Rows, Status, Terminal, Consistent, KeepsStamps,
         NoStamp, Stampers

\* The conditional UPDATE of the idle sweep.
LEMMA IdleCancelWrite ==
  ASSUME NEW r \in Rows, Consistent(r), IdleCancellable(r)
  PROVE  /\ IdleColumns(r) \in Rows
         /\ Consistent(IdleColumns(r))
         /\ KeepsStamps(r, IdleColumns(r))
  BY DEF IdleColumns, IdleCancellable, Is, Rows, Status, Terminal, Consistent,
         KeepsStamps, NoStamp, Stampers

\* The main server's running timer, on a row that has been started.
LEMMA WebFinishWrite ==
  ASSUME NEW r \in Rows, r.started
  PROVE  /\ WebFinishColumns(r) \in Rows
         /\ Consistent(WebFinishColumns(r))
         /\ KeepsStamps(r, WebFinishColumns(r))
  BY DEF WebFinishColumns, Rows, Status, Terminal, Consistent, KeepsStamps,
         NoStamp, Stampers

\* Only a session that has been started can be asked to pause or to finish.
LEMMA PausedOrFinishedFrom ==
  ASSUME NEW c \in Status, NEW s \in {"Paused", "Finished"}, ValidTransition(c, s)
  PROVE  c \in {"Running", "Paused", "Finished"}
<1>1. CASE c = "Lobby"
  BY <1>1 DEF ValidTransition, Allowed
<1>2. CASE c = "Cancelled"
  BY <1>2 DEF ValidTransition, Allowed
<1> QED
  BY <1>1, <1>2 DEF Status

\* PATCH, on whatever the row has become since it was read.
LEMMA PatchColumnsWrite ==
  ASSUME NEW r \in Rows, NEW old \in Rows, NEW s \in Status,
         Consistent(r), Consistent(old), ValidTransition(old.status, s),
         KeepsStamps(old, r)
  PROVE  /\ PatchColumns(r, old, s) \in Rows
         /\ Consistent(PatchColumns(r, old, s))
         /\ KeepsStamps(r, PatchColumns(r, old, s))
<1> DEFINE new == PatchColumns(r, old, s)
<1>1. /\ new.exists = r.exists
      /\ new.status = s
      /\ new.started = (r.started \/ (s = "Running" /\ ~old.started))
      /\ new.finished = IF s \in Terminal /\ old.finished = NoStamp THEN "patch" ELSE r.finished
      /\ s = "Paused" => new.pausedAt = TRUE
      /\ new.pausedAt \in BOOLEAN
  BY DEF PatchColumns, Rows
<1>2. new \in Rows
  BY <1>1 DEF PatchColumns, Rows, Stampers
<1>a. old.started \in BOOLEAN /\ r.started \in BOOLEAN /\ old.status \in Status
  BY DEF Rows
<1> HIDE DEF new
<1>3. s \in {"Running", "Paused", "Finished"} => new.started
  <2>1. CASE s = "Running"
    BY <1>1, <1>a, <2>1 DEF KeepsStamps
  <2>2. CASE s \in {"Paused", "Finished"}
    <3>1. old.status \in {"Running", "Paused", "Finished"}
      BY <1>a, <2>2, PausedOrFinishedFrom
    <3>2. old.started
      BY <3>1 DEF Consistent
    <3> QED
      BY <1>1, <3>2 DEF KeepsStamps
  <2> QED
    BY <2>1, <2>2
<1>4. s \in Terminal => new.finished # NoStamp
  BY <1>1 DEF KeepsStamps, NoStamp
<1>5. KeepsStamps(r, new)
  BY <1>1 DEF KeepsStamps, NoStamp
<1>6. Consistent(new)
  BY <1>1, <1>3, <1>4 DEF Consistent
<1> QED
  BY <1>2, <1>5, <1>6 DEF new

-----------------------------------------------------------------------------
(* Type correctness.                                                       *)

\* A countdown task that is there may be counted in, moved or ended.
LEMMA TimersTyped ==
  ASSUME TypeOK, NEW s \in Stages, NEW t \in Stages
  PROVE  /\ Spawned(s) \in [Stages -> Nat]
         /\ timers[s] > 0 => Gone(s) \in [Stages -> Nat]
         /\ timers[s] > 0 /\ s # t => Moved(s, t) \in [Stages -> Nat]
<1>1. timers \in [Stages -> Nat] /\ timers[s] \in Nat /\ timers[t] \in Nat
  BY DEF TypeOK
<1>2. Spawned(s) \in [Stages -> Nat]
  BY <1>1 DEF Spawned
<1>3. timers[s] > 0 => Gone(s) \in [Stages -> Nat]
  BY <1>1 DEF Gone
<1>4. timers[s] > 0 /\ s # t => Moved(s, t) \in [Stages -> Nat]
  <2> SUFFICES ASSUME timers[s] > 0, s # t PROVE Moved(s, t) \in [Stages -> Nat]
    OBVIOUS
  <2>1. timers[s] - 1 \in Nat /\ timers[t] + 1 \in Nat
    BY <1>1
  <2>2. \A x \in Stages : Moved(s, t)[x] \in Nat
    BY <1>1, <2>1 DEF Moved
  <2>3. Moved(s, t) = [x \in Stages |-> Moved(s, t)[x]]
    BY <1>1 DEF Moved
  <2> QED
    BY <2>2, <2>3
<1> QED
  BY <1>2, <1>3, <1>4

\* finish_session leaves the row well typed, consistent, and its stamps set.
LEMMA FinishSessionKeeps ==
  ASSUME IInv, FinishSession
  PROVE  /\ row' \in Rows /\ Consistent(row') /\ KeepsStamps(row, row')
         /\ revived' \in Nat /\ chains' \in Nat
<1>1. CASE Flippable(row)
  BY <1>1, FlipWrite DEF IInv, TypeOK, StampsFollowStatus, FinishSession, Put
<1>2. CASE ~Flippable(row)
  BY <1>2 DEF IInv, TypeOK, StampsFollowStatus, FinishSession, KeepsStamps
<1> QED
  BY <1>1, <1>2

\* So does starting the session, whatever the row was.
LEMMA StartKeeps ==
  ASSUME IInv, Start
  PROVE  /\ row' \in Rows /\ Consistent(row') /\ KeepsStamps(row, row')
         /\ row'.started /\ revived' \in Nat /\ overdue' \in BOOLEAN
<1>1. row \in Rows /\ revived \in Nat
  BY DEF IInv, TypeOK
<1>2. row' = StartColumns(row) /\ overdue' = FALSE
  BY DEF Start, Put
<1>3. revived' \in Nat
  BY <1>1 DEF Start, Put
<1>4. /\ StartColumns(row) \in Rows /\ Consistent(StartColumns(row))
      /\ KeepsStamps(row, StartColumns(row)) /\ StartColumns(row).started
  BY <1>1, StartWrite
<1> QED
  BY <1>2, <1>3, <1>4

(* What every step but PatchRead guarantees; enough to keep the invariant.  *)
Keeps ==
  /\ TypeOK'
  /\ Consistent(row') /\ KeepsStamps(row, row')
  /\ patches' \subseteq patches
  /\ web' = "write" => row'.started

\* A step that keeps the row's facts and adds no request keeps the invariant.
LEMMA KeepsInv == ASSUME IInv, Keeps PROVE IInv'
<1>1. ASSUME NEW r \in patches'
      PROVE  /\ Consistent(r.seen)
             /\ ValidTransition(r.seen.status, r.to)
             /\ r.seen.started => row'.started
             /\ r.seen.finished # NoStamp => row'.finished # NoStamp
  BY <1>1 DEF IInv, InFlightInv, Keeps, KeepsStamps
<1> QED
  BY <1>1 DEF IInv, StampsFollowStatus, InFlightInv, Keeps

\* A step that does not touch the row, the requests or the main server.
LEMMA QuietKeeps ==
  ASSUME IInv, UNCHANGED <<row, patches, web>>, TypeOK'
  PROVE  Keeps
  BY DEF IInv, StampsFollowStatus, InFlightInv, Keeps, KeepsStamps

-----------------------------------------------------------------------------
(* One lemma per actor.                                                    *)

\* A PATCH pair or a DELETE keeps the invariant.
LEMMA OwnerStep == ASSUME IInv, Owner PROVE IInv'
<1> USE DEF gs, play, obs
<1>1. ASSUME NEW s \in Status, PatchRead(s) PROVE IInv'
  <2>1. TypeOK'
    BY <1>1 DEF IInv, TypeOK, PatchRead, Requests, Stages
  <2>2. row' = row /\ web' = web /\ patches' = patches \cup {[to |-> s, seen |-> row]}
        /\ ValidTransition(row.status, s)
    BY <1>1 DEF PatchRead
  <2>3. StampsFollowStatus' /\ InFlightInv'
    BY <2>2 DEF IInv, StampsFollowStatus, InFlightInv
  <2> QED
    BY <2>1, <2>3 DEF IInv
<1>2. ASSUME NEW r \in patches, PatchWrite(r) PROVE Keeps
  <2>1. /\ r \in Requests /\ Consistent(r.seen) /\ ValidTransition(r.seen.status, r.to)
        /\ KeepsStamps(r.seen, row)
    BY DEF IInv, TypeOK, InFlightInv, KeepsStamps
  <2>2. r.seen \in Rows /\ r.to \in Status
    BY <2>1 DEF Requests
  <2>3. CASE row.exists
    <3>1. /\ row' = PatchColumns(row, r.seen, r.to)
          /\ revived' \in Nat
      BY <1>2, <2>3 DEF PatchWrite, Put, IInv, TypeOK
    <3>2. row' \in Rows /\ Consistent(row') /\ KeepsStamps(row, row')
      BY <2>1, <2>2, <3>1, PatchColumnsWrite DEF IInv, TypeOK, StampsFollowStatus
    <3>3. TypeOK'
      BY <1>2, <3>1, <3>2 DEF IInv, TypeOK, PatchWrite
    <3> QED
      BY <1>2, <3>2, <3>3 DEF IInv, InFlightInv, Keeps, KeepsStamps, PatchWrite
  <2>4. CASE ~row.exists
    <3>1. row' = row /\ TypeOK'
      BY <1>2, <2>4 DEF IInv, TypeOK, PatchWrite
    <3> QED
      BY <1>2, <3>1 DEF IInv, StampsFollowStatus, InFlightInv, Keeps, KeepsStamps, PatchWrite
  <2> QED
    BY <2>3, <2>4
<1>3. ASSUME DeleteOne PROVE Keeps
  <2>1. /\ row' \in Rows /\ row'.status = row.status /\ row'.started = row.started
        /\ row'.finished = row.finished /\ row'.pausedAt = row.pausedAt
    BY <1>3 DEF DeleteOne, IInv, TypeOK, Rows
  <2>2. TypeOK'
    BY <1>3, <2>1 DEF DeleteOne, IInv, TypeOK
  <2> QED
    BY <1>3, <2>1, <2>2 DEF DeleteOne, IInv, StampsFollowStatus, InFlightInv,
                            Consistent, Keeps, KeepsStamps
<1> QED
  BY <1>1, <1>2, <1>3, KeepsInv DEF Owner

\* The main server's countdown only writes an end time on a started row.
LEMMA WebStep == ASSUME IInv, Web PROVE Keeps
<1> USE DEF gs, play, obs
\* The moves that write nothing; "write" is reached from a Running row only.
<1>1. ASSUME NEW l \in WebPCs, WebMoves(l), l = "write" => row.started PROVE Keeps
  <2>1. TypeOK'
    BY <1>1 DEF IInv, TypeOK, WebMoves, WebUnchanged
  <2> QED
    BY <1>1, <2>1 DEF IInv, StampsFollowStatus, Keeps, KeepsStamps, WebMoves, WebUnchanged
<1>2. CASE WebLobby
  BY <1>1, <1>2 DEF WebLobby, WebPCs
<1>3. CASE WebLobbyWrite
  <2>1. CASE row.exists
    <3>1. Start /\ web' = "ticking" /\ WebUnchanged
      BY <1>3, <2>1 DEF WebLobbyWrite
    <3>2. TypeOK'
      BY <3>1, StartKeeps DEF IInv, TypeOK, WebUnchanged, WebPCs
    <3> QED
      BY <3>1, <3>2, StartKeeps DEF Keeps, WebUnchanged
  <2>2. CASE ~row.exists
    BY <1>1, <1>3, <2>2 DEF WebLobbyWrite, WebMoves, WebPCs
  <2> QED
    BY <2>1, <2>2
<1>4. CASE WebTick
  BY <1>1, <1>4 DEF WebTick, WebPCs
<1>5. CASE WebConfirm
  BY <1>1, <1>5 DEF WebConfirm, WebPCs
<1>6. CASE WebWait
  BY <1>1, <1>6 DEF WebWait, WebPCs
<1>7. CASE WebFinal
  <2>1. Is(row, "Running") => row.started
    BY DEF IInv, StampsFollowStatus, Consistent, Is
  <2> QED
    BY <1>1, <1>7, <2>1 DEF WebFinal, WebPCs
<1>8. CASE WebFinish
  <2>1. row.started /\ web' = "off" /\ WebUnchanged /\ overdue' = overdue
    BY <1>8 DEF WebFinish, IInv, InFlightInv
  <2>2. row' \in Rows /\ Consistent(row') /\ KeepsStamps(row, row') /\ revived' \in Nat
    <3>1. CASE row.exists
      BY <1>8, <2>1, <3>1, WebFinishWrite DEF WebFinish, Put, IInv, TypeOK
    <3>2. CASE ~row.exists
      BY <1>8, <3>2 DEF WebFinish, IInv, TypeOK, StampsFollowStatus, KeepsStamps
    <3> QED
      BY <3>1, <3>2
  <2>3. TypeOK'
    BY <2>1, <2>2 DEF IInv, TypeOK, WebUnchanged, WebPCs
  <2> QED
    BY <2>1, <2>2, <2>3 DEF Keeps, WebUnchanged
<1> QED
  BY <1>2, <1>3, <1>4, <1>5, <1>6, <1>7, <1>8 DEF Web

\* The game server's countdown tasks, whatever their stage.
LEMMA TimerStep == ASSUME IInv, Timer PROVE Keeps
<1> USE DEF gs, play, obs
\* A countdown that writes nothing moves or ends, and the cached phase follows.
<1>1. ASSUME GsUnchanged, NoWrite, timers' \in [Stages -> Nat], entry' \in Status \cup {NoEntry}
      PROVE  Keeps
  BY <1>1, QuietKeeps DEF IInv, TypeOK, GsUnchanged, NoWrite
<1>2. ASSUME NEW ph \in Status PROVE Cached(ph) \in Status \cup {NoEntry}
  BY DEF Cached
<1>3. entry \in Status \cup {NoEntry} /\ "Running" \in Status /\ "Finished" \in Status
  BY DEF IInv, TypeOK, Status
<1>4. \A s \in Stages, t \in Stages :
        /\ timers[s] > 0 => Gone(s) \in [Stages -> Nat]
        /\ timers[s] > 0 /\ s # t => Moved(s, t) \in [Stages -> Nat]
  BY TimersTyped DEF IInv
<1>5. CASE TimerLobby
  BY <1>1, <1>2, <1>3, <1>4, <1>5 DEF TimerLobby, Stages
<1>6. CASE TimerLobbyWrite
  <2>1. CASE row.exists
    <3>1. Start /\ entry' \in Status \cup {NoEntry} /\ timers' \in [Stages -> Nat]
      BY <1>2, <1>3, <1>4, <1>6, <2>1 DEF TimerLobbyWrite, Stages
    <3>2. TypeOK'
      BY <1>6, <3>1, StartKeeps DEF IInv, TypeOK, TimerLobbyWrite, GsUnchanged
    <3> QED
      BY <1>6, <3>1, <3>2, StartKeeps DEF Keeps, TimerLobbyWrite, GsUnchanged
  <2>2. CASE ~row.exists
    BY <1>1, <1>3, <1>4, <1>6, <2>2 DEF TimerLobbyWrite, NoWrite, Stages
  <2> QED
    BY <2>1, <2>2
<1>7. CASE TimerTick
  BY <1>1, <1>3, <1>4, <1>7 DEF TimerTick, Stages
<1>8. CASE TimerFinish
  <2>1. FinishSession /\ GsUnchanged /\ overdue' = overdue
        /\ timers' \in [Stages -> Nat] /\ entry' \in Status \cup {NoEntry}
    BY <1>4, <1>8 DEF TimerFinish, Stages
  <2>2. TypeOK'
    BY <2>1, FinishSessionKeeps DEF IInv, TypeOK, GsUnchanged
  <2> QED
    BY <2>1, <2>2, FinishSessionKeeps DEF IInv, InFlightInv, Keeps, KeepsStamps, GsUnchanged
<1>9. CASE Parked
  BY <1>1, <1>3, <1>4, <1>9 DEF Parked, Stages
<1>10. CASE FinishNow
  <2>1. FinishSession /\ GsUnchanged /\ overdue' = overdue
        /\ timers' \in [Stages -> Nat] /\ entry' \in Status \cup {NoEntry}
    BY <1>2, <1>3, <1>4, <1>10 DEF FinishNow, Stages
  <2>2. TypeOK'
    BY <2>1, FinishSessionKeeps DEF IInv, TypeOK, GsUnchanged
  <2> QED
    BY <2>1, <2>2, FinishSessionKeeps DEF IInv, InFlightInv, Keeps, KeepsStamps, GsUnchanged
<1> QED
  BY <1>5, <1>6, <1>7, <1>8, <1>9, <1>10 DEF Timer

\* Crash, recovery, observers, the idle sweep and the clock.
GameServer == \/ WebCrash \/ TimeUp \/ Crash \/ Recover
              \/ ObserverConnect \/ IdleRead \/ IdleWrite

\* Crashes, recovery, observers and the idle sweep.
LEMMA GameServerStep == ASSUME IInv, GameServer PROVE Keeps
<1> USE DEF gs, play, obs
<1>1. CASE WebCrash
  BY <1>1 DEF WebCrash, IInv, TypeOK, StampsFollowStatus, Keeps, KeepsStamps, WebPCs
<1>2. CASE TimeUp
  BY <1>2, QuietKeeps DEF TimeUp, IInv, TypeOK
<1>3. CASE Crash
  <2>1. /\ timers' \in [Stages -> Nat] /\ pc' \in [Players -> Places]
        /\ seen' \in [Players -> Status]
    BY <1>3 DEF Crash, NoTimers, Places, Status
  <2>2. UNCHANGED <<row, patches, web>>
    BY <1>3 DEF Crash
  <2>3. /\ up' = "down" /\ resuming' = "none" /\ entry' = NoEntry /\ idle' = FALSE
        /\ crashes' = crashes + 1
        /\ UNCHANGED <<overdue, sched, requested, webLost, revived, chains>>
    BY <1>3 DEF Crash
  <2>4. /\ row' \in Rows /\ overdue' \in BOOLEAN /\ patches' \subseteq Requests
        /\ web' \in WebPCs /\ sched' \in [Players -> {"none", "task", "completed"}]
    BY <2>2, <2>3 DEF IInv, TypeOK
  <2>5. /\ requested' \in Nat /\ crashes' \in Nat /\ revived' \in Nat /\ chains' \in Nat
        /\ webLost' \in BOOLEAN
    BY <2>3 DEF IInv, TypeOK
  <2>6. TypeOK'
    BY <2>1, <2>3, <2>4, <2>5 DEF TypeOK
  <2> QED
    BY <2>2, <2>6, QuietKeeps
<1>4. CASE Restart
  BY <1>4, QuietKeeps DEF Restart, IInv, TypeOK
<1>5. CASE ResumeRead
  BY <1>5, QuietKeeps DEF ResumeRead, IInv, TypeOK
<1>6. CASE ResumeSpawn
  <2>1. timers' \in [Stages -> Nat]
    BY <1>6, TimersTyped DEF ResumeSpawn, IInv, TypeOK, Stages
  <2>2. entry' \in Status \cup {NoEntry}
    BY <1>6 DEF ResumeSpawn, IInv, TypeOK, Status
  <2> QED
    BY <1>6, <2>1, <2>2, QuietKeeps DEF ResumeSpawn, IInv, TypeOK
<1>7. CASE ObserverConnect
  <2>1. entry' \in Status
    BY <1>7 DEF ObserverConnect, IInv, TypeOK, Rows
  <2> QED
    BY <1>7, <2>1, QuietKeeps DEF ObserverConnect, IInv, TypeOK
<1>8. CASE IdleRead
  BY <1>8, QuietKeeps DEF IdleRead, IInv, TypeOK
<1>9. CASE IdleWrite
  <2>1. entry' \in Status \cup {NoEntry}
    BY <1>9 DEF IdleWrite, Cached, IInv, TypeOK, Status
  <2>2. row' \in Rows /\ Consistent(row') /\ KeepsStamps(row, row') /\ revived' \in Nat
    <3>1. CASE IdleCancellable(row)
      BY <1>9, <3>1, IdleCancelWrite DEF IdleWrite, Put, IInv, TypeOK, StampsFollowStatus
    <3>2. CASE ~IdleCancellable(row)
      BY <1>9, <3>2 DEF IdleWrite, IInv, TypeOK, StampsFollowStatus, KeepsStamps
    <3> QED
      BY <3>1, <3>2
  <2>3. TypeOK'
    BY <1>9, <2>1, <2>2 DEF IdleWrite, IInv, TypeOK
  <2> QED
    BY <1>9, <2>2, <2>3 DEF IdleWrite, IInv, InFlightInv, Keeps, KeepsStamps
<1> QED
  BY <1>1, <1>2, <1>3, <1>4, <1>5, <1>6, <1>7, <1>8, <1>9 DEF GameServer, Recover

\* A player's handler, at each of its places.
LEMMA PlayerStep == ASSUME IInv, NEW p \in Players, Player(p) PROVE Keeps
<1> USE DEF gs, play, obs
<1>1. /\ pc \in [Players -> Places] /\ seen \in [Players -> Status]
      /\ sched \in [Players -> {"none", "task", "completed"}]
  BY DEF IInv, TypeOK
<1>2. ASSUME NEW l \in Places, Goto(p, l) PROVE pc' \in [Players -> Places]
  BY <1>1, <1>2 DEF Goto
<1>3. ASSUME NEW l, Scoped(p, l) PROVE seen' \in [Players -> Status]
  BY <1>1, <1>3 DEF Scoped, Status
<1>4. ASSUME NEW l \in Places, Moves(p, l) PROVE Keeps
  BY <1>2, <1>3, <1>4, QuietKeeps DEF Moves, Handler, IInv, TypeOK
<1>5. CASE Connect(p)
  <2>1. pc' \in [Players -> Places]
    BY <1>2, <1>5 DEF Connect, Places
  <2>2. seen' \in [Players -> Status]
    BY <1>1, <1>5 DEF Connect, IInv, TypeOK, Rows
  <2> QED
    BY <1>5, <2>1, <2>2, QuietKeeps DEF Connect, Handler, IInv, TypeOK
<1>6. CASE Upgrade(p)
  <2>1. pc' \in [Players -> Places]
    BY <1>2, <1>6 DEF Upgrade, Places
  <2>2. seen' \in [Players -> Status] /\ entry' \in Status \cup {NoEntry}
    BY <1>1, <1>6 DEF Upgrade, IInv, TypeOK, Status
  <2>3. timers' \in [Stages -> Nat]
    BY <1>6, TimersTyped DEF Upgrade, IInv, TypeOK, Stages
  <2> QED
    BY <1>6, <2>1, <2>2, <2>3, QuietKeeps DEF Upgrade, Handler, IInv, TypeOK
<1>7. CASE LobbyWaitEnds(p)
  BY <1>4, <1>7 DEF LobbyWaitEnds, Places
<1>8. CASE LoopTop(p)
  <2>1. pc' \in [Players -> Places]
    BY <1>2, <1>8 DEF LoopTop, Places
  <2>2. seen' \in [Players -> Status]
    BY <1>1, <1>8 DEF LoopTop, IInv, TypeOK, Rows
  <2> QED
    BY <1>8, <2>1, <2>2, QuietKeeps DEF LoopTop, Handler, IInv, TypeOK
<1>9. CASE Resolve(p)
  <2>1. pc' \in [Players -> Places]
    BY <1>1, <1>2, <1>9 DEF Resolve, Places
  <2>2. seen' \in [Players -> Status]
    BY <1>3, <1>9 DEF Resolve
  <2>3. sched' \in [Players -> {"none", "task", "completed"}]
    BY <1>1, <1>9 DEF Resolve
  <2> QED
    BY <1>9, <2>1, <2>2, <2>3, QuietKeeps DEF Resolve, Handler, IInv, TypeOK
<1>10. CASE EnsureRead(p)
  BY <1>4, <1>10 DEF EnsureRead, Places
<1>11. CASE EnsureWrite(p)
  <2>1. pc' \in [Players -> Places]
    BY <1>2, <1>11 DEF EnsureWrite, Places
  <2>2. CASE row.exists
    <3>1. TypeOK'
      BY <1>11, <2>1, <2>2, StartKeeps DEF EnsureWrite, Handler, IInv, TypeOK
    <3> QED
      BY <1>11, <2>2, <3>1, StartKeeps DEF EnsureWrite, Handler, IInv, Keeps
  <2>3. CASE ~row.exists
    BY <1>11, <2>1, <2>3, QuietKeeps DEF EnsureWrite, Handler, IInv, TypeOK
  <2> QED
    BY <2>2, <2>3
<1>12. CASE Work(p)
  BY <1>4, <1>12 DEF Work, Places
<1>13. CASE LastTask(p)
  <2>1. pc' \in [Players -> Places]
    BY <1>2, <1>13 DEF LastTask, Places
  <2>2. sched' \in [Players -> {"none", "task", "completed"}]
    BY <1>1, <1>13 DEF LastTask
  <2>3. seen' \in [Players -> Status]
    BY <1>3, <1>13 DEF LastTask
  <2> QED
    BY <1>13, <2>1, <2>2, <2>3, QuietKeeps DEF LastTask, Handler, IInv, TypeOK
<1>14. CASE CheckAllDone(p)
  BY <1>4, <1>14 DEF CheckAllDone, Places
<1>15. CASE AllDoneFinish(p)
  <2>1. pc' \in [Players -> Places] /\ entry' \in Status \cup {NoEntry}
    BY <1>2, <1>15 DEF AllDoneFinish, Places, Cached, Status
  <2>2. TypeOK'
    BY <1>15, <2>1, FinishSessionKeeps DEF AllDoneFinish, Handler, IInv, TypeOK
  <2> QED
    BY <1>15, <2>2, FinishSessionKeeps
       DEF AllDoneFinish, Handler, IInv, InFlightInv, Keeps, KeepsStamps
<1>16. CASE IdleUntilEnd(p)
  BY <1>4, <1>16 DEF IdleUntilEnd, Places
<1>17. CASE Disconnect(p)
  BY <1>4, <1>17 DEF Disconnect, Places
<1> QED
  BY <1>5, <1>6, <1>7, <1>8, <1>9, <1>10, <1>11, <1>12, <1>13, <1>14, <1>15,
     <1>16, <1>17 DEF Player

-----------------------------------------------------------------------------
(* The invariant and its consequences.                                     *)

\* A new session satisfies the invariant.
LEMMA Initially == Init => IInv
<1> SUFFICES ASSUME Init PROVE IInv
  OBVIOUS
<1>1. NewRow \in Rows /\ Consistent(NewRow)
  BY DEF NewRow, Rows, Consistent, Status, Terminal, NoStamp
<1>2. /\ timers \in [Stages -> Nat] /\ pc \in [Players -> Places]
      /\ seen \in [Players -> Status]
      /\ sched \in [Players -> {"none", "task", "completed"}]
  BY DEF Init, NoTimers, Places, Status
<1>3. TypeOK
  BY <1>1, <1>2 DEF Init, TypeOK, WebPCs, NoEntry
<1> QED
  BY <1>1, <1>3 DEF Init, IInv, StampsFollowStatus, InFlightInv

\* Every step keeps the invariant.
LEMMA Inductive == IInv /\ [Next]_vars => IInv'
<1> SUFFICES ASSUME IInv, [Next]_vars PROVE IInv'
  OBVIOUS
<1>1. CASE Owner
  BY <1>1, OwnerStep
<1>2. CASE Web
  BY <1>2, WebStep, KeepsInv
<1>3. CASE Timer
  BY <1>3, TimerStep, KeepsInv
<1>4. CASE GameServer
  BY <1>4, GameServerStep, KeepsInv
<1>5. ASSUME NEW p \in Players, Player(p) PROVE IInv'
  BY <1>5, PlayerStep, KeepsInv
<1>6. CASE UNCHANGED vars
  <2>1. TypeOK'
    BY <1>6 DEF vars, gs, play, obs, IInv, TypeOK
  <2> QED
    BY <1>6, <2>1, QuietKeeps, KeepsInv DEF vars
<1> QED
  BY <1>1, <1>2, <1>3, <1>4, <1>5, <1>6 DEF Next, GameServer

(* Every variable keeps its type: in particular no countdown task is ended  *)
(* twice, so that the number of tasks at a stage never goes below zero.     *)
THEOREM TypesKept == Spec => []TypeOK
<1>1. IInv => TypeOK
  BY DEF IInv
<1> QED
  BY <1>1, Initially, Inductive, PTL DEF Spec

(* Whatever the order of the PATCH handlers, the countdowns of both         *)
(* processes, the recovery, the idle sweep and the players' handlers, the   *)
(* columns of the sessions row agree with its status.                       *)
THEOREM StampsAlwaysFollowStatus == Spec => []StampsFollowStatus
<1>1. IInv => StampsFollowStatus
  BY DEF IInv
<1> QED
  BY <1>1, Initially, Inductive, PTL DEF Spec

-----------------------------------------------------------------------------
(* The chain of judges and awards.  Every action writes the row in one of   *)
(* four ways, and only the conditional UPDATE starts a chain.               *)

RowStep ==
  \/ UNCHANGED <<row, revived, chains>>
  \/ Put(row') /\ row.exists /\ chains' = chains
  \/ FinishSession
  \/ DeleteOne

\* The only writes of the row are these; everything else leaves it alone.
LEMMA EveryStepIsARowStep == ASSUME IInv, [Next]_vars PROVE RowStep
<1> USE DEF gs, play, obs
<1>1. CASE Owner
  BY <1>1 DEF Owner, PatchRead, PatchWrite, RowStep, Put
<1>2. CASE Web
  BY <1>2 DEF Web, WebLobby, WebLobbyWrite, WebTick, WebConfirm, WebWait, WebFinal, WebFinish,
              WebMoves, WebUnchanged, Start, RowStep, Put
<1>3. CASE Timer
  BY <1>3 DEF Timer, TimerLobby, TimerLobbyWrite, TimerTick, TimerFinish, Parked, FinishNow,
              NoWrite, Start, RowStep, Put
<1>4. CASE GameServer
  BY <1>4 DEF GameServer, WebCrash, TimeUp, Crash, Recover, Restart, ResumeRead, ResumeSpawn,
              ObserverConnect, IdleRead, IdleWrite, IdleCancellable, Is, RowStep, Put
<1>5. ASSUME NEW p \in Players, Player(p) PROVE RowStep
  BY <1>5 DEF Player, Connect, Upgrade, LobbyWaitEnds, LoopTop, Resolve, EnsureRead, EnsureWrite,
              Work, LastTask, CheckAllDone, AllDoneFinish, IdleUntilEnd, Disconnect, Moves,
              Start, RowStep, Put
<1>6. CASE UNCHANGED vars
  BY <1>6 DEF vars, RowStep
<1> QED
  BY <1>1, <1>2, <1>3, <1>4, <1>5, <1>6 DEF Next, GameServer

(* The judge-and-award chain starts once per ending, however many finishers *)
(* race: the conditional UPDATE takes the session out of play, and nothing  *)
(* but a counted revival brings it back.                                    *)
THEOREM ChainStartsOncePerEnding == Spec => []OneChainPerEnding
<1>1. Init => OneChainPerEnding
  BY DEF Init, OneChainPerEnding, NewRow, Ended, Terminal
<1>2. IInv /\ OneChainPerEnding /\ [Next]_vars => OneChainPerEnding'
  <2> SUFFICES ASSUME IInv, OneChainPerEnding, [Next]_vars PROVE OneChainPerEnding'
    OBVIOUS
  <2>1. chains \in Nat /\ revived \in Nat
    BY DEF IInv, TypeOK
  <2>2. CASE UNCHANGED <<row, revived, chains>>
    BY <2>2 DEF OneChainPerEnding, Ended
  <2>3. CASE Put(row') /\ row.exists /\ chains' = chains
    BY <2>1, <2>3 DEF OneChainPerEnding, Put, Ended
  <2>4. CASE FinishSession /\ ~UNCHANGED <<row, revived, chains>>
    <3>1. Flippable(row) /\ row' = FlipColumns(row) /\ chains' = chains + 1
      BY <2>4 DEF FinishSession, Put
    <3>2. row.exists /\ ~Ended(row)
      BY <3>1 DEF Flippable, Ended, Terminal
    <3>3. row \in Rows /\ row'.status = "Finished" /\ row'.exists
      BY <3>1, <3>2 DEF FlipColumns, Rows, IInv, TypeOK
    <3>4. Ended(row') /\ revived' = revived
      <4>1. Ended(FlipColumns(row))
        BY <3>1, <3>3 DEF Ended, Terminal
      <4> QED
        BY <2>1, <2>4, <3>1, <3>2, <4>1 DEF FinishSession, Put
    <3> QED
      BY <2>1, <3>1, <3>2, <3>4 DEF OneChainPerEnding
  <2>5. CASE DeleteOne
    <3>1. row'.exists = FALSE /\ revived' = revived /\ chains' = chains
      BY <2>5 DEF DeleteOne, obs, IInv, TypeOK, Rows
    <3> QED
      BY <2>1, <3>1 DEF OneChainPerEnding
  <2> QED
    BY <2>2, <2>3, <2>4, <2>5, EveryStepIsARowStep DEF RowStep
<1> QED
  BY <1>1, <1>2, Initially, Inductive, PTL DEF Spec

-----------------------------------------------------------------------------
(* An ending is undone by a write decided on an older row, or not at all.   *)

LEMMA UndoneBy ==
  ASSUME IInv, [Next]_vars, Ended(row), row'.exists, ~Ended(row')
  PROVE  StaleWrite
<1> USE DEF gs, play, obs
<1>1. row' # row /\ ~Flippable(row) /\ ~IdleCancellable(row) /\ ~Is(row, "Running")
  BY DEF Ended, Flippable, IdleCancellable, Is, Terminal
<1>2. ~FinishSession
  BY <1>1 DEF FinishSession
<1>3. CASE Owner
  <2>1. ASSUME NEW r \in patches, PatchWrite(r) PROVE StaleWrite
    <3>1. r \notin patches' /\ row' = PatchColumns(row, r.seen, r.to)
      BY <1>1, <2>1 DEF PatchWrite, Put
    <3>2. r.to \in Status /\ r.seen \in Rows /\ ValidTransition(r.seen.status, r.to)
      BY DEF IInv, TypeOK, Requests, InFlightInv
    <3>3. row'.status = r.to
      BY <3>1 DEF PatchColumns, IInv, TypeOK, Rows
    <3>4. r.to \notin Terminal
      BY <3>3 DEF Ended
    <3>5. r.seen.status \notin Terminal
      <4>1. ASSUME r.seen.status = "Finished" PROVE r.to \in Terminal
        BY <3>2, <4>1 DEF ValidTransition, Allowed, Terminal
      <4>2. ASSUME r.seen.status = "Cancelled" PROVE r.to \in Terminal
        BY <3>2, <4>2 DEF ValidTransition, Allowed, Terminal
      <4> QED
        BY <3>4, <4>1, <4>2 DEF Terminal
    <3> QED
      BY <3>1, <3>5 DEF StaleWrite
  <2>2. ASSUME NEW s \in Status PROVE ~PatchRead(s)
    BY <1>1 DEF PatchRead
  <2>3. ~DeleteOne
    BY DEF DeleteOne, IInv, TypeOK, Rows
  <2> QED
    BY <1>3, <2>1, <2>2, <2>3 DEF Owner
<1>4. CASE Web
  <2>1. ~WebFinish
    <3>1. ASSUME row' = WebFinishColumns(row) PROVE row'.status = "Finished"
      BY <3>1 DEF WebFinishColumns, IInv, TypeOK, Rows
    <3> QED
      BY <1>1, <3>1 DEF WebFinish, Put, Ended, Terminal
  <2>2. WebLobbyWrite
    BY <1>1, <1>4, <2>1 DEF Web, WebLobby, WebTick, WebConfirm, WebWait, WebFinal, WebMoves
  <2> QED
    BY <1>1, <2>2 DEF WebLobbyWrite, StaleWrite
<1>5. CASE Timer
  <2>1. TimerLobbyWrite
    BY <1>1, <1>2, <1>5 DEF Timer, TimerLobby, TimerTick, TimerFinish, Parked, FinishNow, NoWrite
  <2>2. timers["lobbyWrite"] \in Nat /\ timers' = Moved("lobbyWrite", "running")
    BY <1>1, <2>1 DEF TimerLobbyWrite, IInv, TypeOK, Stages
  <2>3. timers'["lobbyWrite"] = timers["lobbyWrite"] - 1
    BY <2>2 DEF Moved, IInv, TypeOK, Stages
  <2> QED
    BY <2>2, <2>3 DEF StaleWrite
<1>6. ~GameServer
  BY <1>1 DEF GameServer, WebCrash, TimeUp, Crash, Recover, Restart, ResumeRead, ResumeSpawn,
              ObserverConnect, IdleRead, IdleWrite
<1>7. ASSUME NEW p \in Players, Player(p) PROVE StaleWrite
  <2>1. EnsureWrite(p)
    BY <1>1, <1>2, <1>7 DEF Player, Connect, Upgrade, LobbyWaitEnds, LoopTop, Resolve, EnsureRead,
         Work, LastTask, CheckAllDone, AllDoneFinish, IdleUntilEnd, Disconnect, Moves
  <2>2. pc \in [Players -> Places]
    BY DEF IInv, TypeOK
  <2> QED
    BY <2>1, <2>2 DEF EnsureWrite, Goto, StaleWrite
<1> QED
  BY <1>1, <1>3, <1>4, <1>5, <1>6, <1>7 DEF Next, GameServer, vars

(* The running timers, finish_session, the idle sweep and the recovery      *)
(* never take a session back out of an ending; only a PATCH whose snapshot  *)
(* was not terminal, a lobby timer, or ensure_session_running can.          *)
THEOREM EndingsAreUndoneOnlyByStaleWrites == Spec => EndingUndoneOnlyByStaleWrite
<1>1. IInv /\ [Next]_vars => [Ended(row) /\ row'.exists /\ ~Ended(row') => StaleWrite]_vars
  BY UndoneBy
<1> QED
  BY <1>1, Initially, Inductive, PTL DEF Spec, EndingUndoneOnlyByStaleWrite

-----------------------------------------------------------------------------
(* The countdowns.  A connection spawns one only where there is no entry,   *)
(* and leaves an entry; the entry goes with the countdown that ends.  The   *)
(* recovery owes one spawn from the crash until it has looked and spawned,  *)
(* and asks nobody: that one comes on top.                                  *)

Total == timers["lobby"] + timers["lobbyWrite"] + timers["running"]
       + timers["expired"] + timers["parked"] + timers["finishNow"]
Owed  == (IF up # "up" THEN 1 ELSE 0) + (IF resuming # "none" THEN 1 ELSE 0)
OnTop == IF crashes = 0 THEN 0 ELSE 1

CountInv ==
  /\ Total + Owed <= 1 + OnTop
  /\ entry = NoEntry => Total + Owed <= OnTop

\* What the three updates of `timers` do to the sum.
LEMMA TotalCounts ==
  ASSUME TypeOK
  PROVE  /\ Total \in Nat /\ Owed \in Nat /\ OnTop \in {0, 1}
         /\ \A s \in Stages :
              /\ timers' = Spawned(s) => Total' = Total + 1
              /\ timers' = Gone(s) => Total' = Total - 1
              /\ \A t \in Stages : s # t /\ timers' = Moved(s, t) => Total' = Total
<1>1. timers \in [Stages -> Nat] /\ \A s \in Stages : timers[s] \in Nat
  BY DEF TypeOK
<1>2. Total \in Nat
  BY <1>1 DEF Total, Stages
<1>3. ASSUME NEW s \in Stages, timers' = Spawned(s) PROVE Total' = Total + 1
  BY <1>1, <1>3 DEF Total, Stages, Spawned
<1>4. ASSUME NEW s \in Stages, timers' = Gone(s) PROVE Total' = Total - 1
  BY <1>1, <1>4 DEF Total, Stages, Gone
<1>5. ASSUME NEW s \in Stages, NEW t \in Stages, s # t, timers' = Moved(s, t)
      PROVE  Total' = Total
  BY <1>1, <1>5 DEF Total, Stages, Moved
<1> QED
  BY <1>2, <1>3, <1>4, <1>5 DEF Owed, OnTop

\* A countdown's own step.
LEMMA TimerCount == ASSUME TypeOK, TypeOK', CountInv, Timer PROVE CountInv'
<1>1. Owed' = Owed /\ OnTop' = OnTop
  BY DEF Timer, TimerLobby, TimerLobbyWrite, TimerTick, TimerFinish, Parked, FinishNow,
         GsUnchanged, Owed, OnTop
<1>2. \A ph \in Status : ph # NoEntry /\ (Cached(ph) = NoEntry <=> entry = NoEntry)
  BY DEF Cached, Status, NoEntry
<1>3. TimerFinish => Total' = Total - 1
  BY TotalCounts DEF TimerFinish, Stages
<1>4. ~TimerFinish => Total' <= Total /\ (entry' = NoEntry <=> entry = NoEntry)
  <2>1. "Running" \in Status /\ "Finished" \in Status
    BY DEF Status
  <2>2. /\ Total \in Nat
        /\ \A s \in Stages : timers' = Gone(s) => Total' <= Total
        /\ \A s, t \in Stages : s # t /\ timers' = Moved(s, t) => Total' <= Total
    BY TotalCounts
  <2>3. TimerLobby \/ TimerLobbyWrite => Total' <= Total /\ (entry' = NoEntry <=> entry = NoEntry)
    BY <1>2, <2>1, <2>2 DEF TimerLobby, TimerLobbyWrite, Stages
  <2>4. TimerTick => Total' <= Total /\ (entry' = NoEntry <=> entry = NoEntry)
    BY <2>2 DEF TimerTick, Stages
  <2>5. Parked => Total' <= Total /\ (entry' = NoEntry <=> entry = NoEntry)
    BY <2>2 DEF Parked, Stages
  <2>6. FinishNow => Total' <= Total /\ (entry' = NoEntry <=> entry = NoEntry)
    BY <1>2, <2>1, <2>2 DEF FinishNow, Stages
  <2> QED
    BY <2>3, <2>4, <2>5, <2>6 DEF Timer
<1>5. Total' \in Nat
  <2>1. \A s \in Stages : timers'[s] \in Nat
    BY DEF TypeOK
  <2> QED
    BY <2>1 DEF Total, Stages
<1> QED
  BY <1>1, <1>3, <1>4, <1>5, TotalCounts DEF CountInv

\* Crash, restart, recovery and observers.
LEMMA GameServerCount ==
  ASSUME TypeOK, CountInv, GameServer PROVE CountInv'
<1>1. crashes \in Nat /\ entry \in Status \cup {NoEntry} /\ NoEntry \notin Status
  BY DEF TypeOK, Status, NoEntry
<1>2. CASE Crash
  <2>1. Total' = 0 /\ Owed' = 1 /\ OnTop' = 1
    BY <1>1, <1>2 DEF Crash, NoTimers, Stages, Total, Owed, OnTop
  <2> QED
    BY <2>1 DEF CountInv
<1>3. CASE ResumeSpawn
  <2>1. Total' = Total + 1 /\ OnTop' = OnTop
    BY <1>3, TotalCounts DEF ResumeSpawn, obs, TypeOK, Stages, OnTop
  <2>2. Owed' = Owed - 1
    BY <1>3 DEF ResumeSpawn, Owed
  <2>3. entry' = NoEntry => entry = NoEntry
    BY <1>3 DEF ResumeSpawn
  <2> QED
    BY <2>1, <2>2, <2>3, TotalCounts DEF CountInv
<1>4. CASE ResumeRead
  <2>1. Owed' <= Owed
    BY <1>4 DEF ResumeRead, Owed
  <2>2. Total' = Total /\ OnTop' = OnTop /\ entry' = entry /\ Owed' \in Nat
    BY <1>4 DEF ResumeRead, obs, Total, OnTop, Owed
  <2> QED
    BY <2>1, <2>2, TotalCounts DEF CountInv
<1>5. CASE Restart
  BY <1>5 DEF Restart, obs, CountInv, Total, OnTop, Owed
<1>6. CASE ObserverConnect
  <2>1. Total' = Total /\ Owed' = Owed /\ OnTop' = OnTop
    BY <1>6 DEF ObserverConnect, obs, Total, OnTop, Owed
  <2>2. entry' # NoEntry
    BY <1>1, <1>6 DEF ObserverConnect, TypeOK, Rows
  <2> QED
    BY <1>6, <2>1, <2>2 DEF CountInv
<1>7. CASE WebCrash \/ TimeUp \/ IdleRead \/ IdleWrite
  <2>1. Total' = Total /\ Owed' = Owed /\ OnTop' = OnTop
    BY <1>7 DEF WebCrash, TimeUp, IdleRead, IdleWrite, gs, obs, Total, OnTop, Owed
  <2>2. entry' = NoEntry => entry = NoEntry
    BY <1>7 DEF WebCrash, TimeUp, IdleRead, IdleWrite, gs, Cached, NoEntry
  <2> QED
    BY <2>1, <2>2 DEF CountInv
<1> QED
  BY <1>2, <1>3, <1>4, <1>5, <1>6, <1>7 DEF GameServer, Recover

\* A handler spawns only in Upgrade, without an entry, and leaves one.
LEMMA PlayerCount ==
  ASSUME TypeOK, CountInv, NEW p \in Players, Player(p) PROVE CountInv'
<1>1. UNCHANGED <<up, resuming, crashes>>
  BY DEF Player, Connect, Upgrade, LobbyWaitEnds, LoopTop, Resolve, EnsureRead, EnsureWrite,
         Work, LastTask, CheckAllDone, AllDoneFinish, IdleUntilEnd, Disconnect, Moves, Handler
<1>2. Owed' = Owed /\ OnTop' = OnTop
  BY <1>1 DEF Owed, OnTop
<1>3. CASE Upgrade(p) /\ SpawnsTimer(p)
  <2>1. entry = NoEntry /\ entry' = seen[p]
    BY <1>3 DEF Upgrade, SpawnsTimer
  <2>2. entry' # NoEntry
    BY <2>1 DEF TypeOK, Status, NoEntry
  <2>3. Total' = Total + 1
    BY <1>3, TotalCounts DEF Upgrade, Stages
  <2> QED
    BY <1>2, <2>1, <2>2, <2>3, TotalCounts DEF CountInv
<1>4. CASE ~(Upgrade(p) /\ SpawnsTimer(p))
  <2>1. timers' = timers
    BY <1>4 DEF Player, Connect, Upgrade, LobbyWaitEnds, LoopTop, Resolve, EnsureRead,
                EnsureWrite, Work, LastTask, CheckAllDone, AllDoneFinish, IdleUntilEnd,
                Disconnect, Moves
  <2>2. entry' = NoEntry => entry = NoEntry
    BY <1>4 DEF Player, Connect, Upgrade, LobbyWaitEnds, LoopTop, Resolve, EnsureRead,
                EnsureWrite, Work, LastTask, CheckAllDone, AllDoneFinish, IdleUntilEnd,
                Disconnect, Moves, Cached, SpawnsTimer, NoEntry
  <2>3. Total' = Total
    BY <2>1 DEF Total
  <2> QED
    BY <1>2, <2>2, <2>3 DEF CountInv
<1> QED
  BY <1>3, <1>4

\* A set in which there are not three different members has at most two.
LEMMA AtMostTwo ==
  ASSUME NEW S, NEW a, NEW b, S \subseteq {a, b}
  PROVE  /\ Cardinality(S) \in Nat /\ Cardinality(S) <= 2
         /\ a = b => Cardinality(S) <= 1
<1>1. IsFiniteSet({a}) /\ Cardinality({a}) = 1
  BY FS_Singleton
<1>2. /\ IsFiniteSet({a} \cup {b})
      /\ Cardinality({a} \cup {b}) = IF b \in {a} THEN 1 ELSE 1 + 1
  BY <1>1, FS_AddElement
<1>3. {a} \cup {b} = {a, b}
  OBVIOUS
<1>4. IsFiniteSet(S) /\ Cardinality(S) <= Cardinality({a, b})
  BY <1>2, <1>3, FS_Subset
<1>5. Cardinality({a}) = 1 /\ Cardinality({a, b}) = IF b = a THEN 1 ELSE 2
  BY <1>1, <1>2, <1>3
<1>6. Cardinality(S) \in Nat
  BY <1>4, FS_CardinalityType
<1> QED
  BY <1>4, <1>5, <1>6

\* The sum bounds the tasks at a stage and the stages that have one.
LEMMA FewTimers ==
  ASSUME TypeOK, NEW n \in {1, 2}, Total <= n
  PROVE  LET running == {s \in Stages : timers[s] > 0} IN
         Cardinality(running) <= n /\ \A s \in Stages : timers[s] <= n
<1> DEFINE running == {s \in Stages : timers[s] > 0}
<1>1. \A s \in Stages : timers[s] \in Nat
  BY DEF TypeOK
<1>2. \A s \in Stages : timers[s] <= n
  BY <1>1 DEF Total, Stages
<1>3. \A s, t \in running : s # t => n = 2
  BY <1>1 DEF Total, Stages
<1>4. \A s, t, u \in running : s = t \/ s = u \/ t = u
  BY <1>1 DEF Total, Stages
<1>5. CASE running = {}
  BY <1>2, <1>5, FS_EmptySet
<1>6. CASE running # {}
  <2>1. PICK s \in running : TRUE
    BY <1>6
  <2>2. CASE \A t \in running : t = s
    <3>1. running \subseteq {s, s}
      BY <2>2
    <3> QED
      BY <1>2, <3>1, AtMostTwo
  <2>3. CASE \E t \in running : t # s
    <3>1. PICK t \in running : t # s
      BY <2>3
    <3>2. running \subseteq {s, t}
      BY <1>4, <3>1
    <3> QED
      BY <1>2, <1>3, <3>1, <3>2, AtMostTwo
  <2> QED
    BY <2>2, <2>3
<1> QED
  BY <1>5, <1>6

(* A session has one countdown in the game server, and after restarts of    *)
(* that server at most two, however often countdowns end, entries go and    *)
(* players come back: the recovery spawns without asking whether a player's *)
(* connection was faster, and no spawn of a connection follows another.     *)
THEOREM AtMostOneCountdown == Spec => []OneCountdown
<1>1. Init => CountInv
  BY DEF Init, CountInv, Total, Owed, OnTop, NoTimers, Stages
<1>2. IInv /\ IInv' /\ CountInv /\ [Next]_vars => CountInv'
  <2> SUFFICES ASSUME IInv, IInv', CountInv, [Next]_vars PROVE CountInv'
    OBVIOUS
  <2>1. TypeOK /\ TypeOK'
    BY DEF IInv
  <2>2. CASE Owner \/ Web \/ UNCHANGED vars
    BY <2>2 DEF Owner, PatchRead, PatchWrite, DeleteOne, Web, WebLobby, WebLobbyWrite, WebTick,
                WebConfirm, WebWait, WebFinal, WebFinish, WebMoves, WebUnchanged, vars, gs, obs,
                CountInv, Total, Owed, OnTop
  <2>3. CASE Timer
    BY <2>1, <2>3, TimerCount
  <2>4. CASE GameServer
    BY <2>1, <2>4, GameServerCount
  <2>5. ASSUME NEW p \in Players, Player(p) PROVE CountInv'
    BY <2>1, <2>5, PlayerCount
  <2> QED
    BY <2>2, <2>3, <2>4, <2>5 DEF Next, GameServer
<1>3. IInv /\ CountInv => OneCountdown
  <2> SUFFICES ASSUME IInv, CountInv PROVE OneCountdown
    OBVIOUS
  <2>1. TypeOK
    BY DEF IInv
  <2>2. Total \in Nat /\ Total <= 2 /\ (crashes = 0 => Total <= 1)
    BY <2>1, TotalCounts DEF CountInv, OnTop
  <2> QED
    BY <2>1, <2>2, FewTimers DEF OneCountdown
<1> QED
  BY <1>1, <1>2, <1>3, Initially, Inductive, PTL DEF Spec

-----------------------------------------------------------------------------
(* SessionLifecycle implements SessionPromise: every step of the two        *)
(* processes is a step of the promise or leaves it where it was.            *)


(* What the phase is, read off the row.                                    *)
LEMMA PhaseOf ==
  /\ ~row.exists => Phase = "gone"
  /\ Ended(row) => Phase = "over"
  /\ Is(row, "Lobby") => Phase = "lobby"
  /\ row.exists => Phase \in {"lobby", "play", "over"}
  /\ row.exists /\ ~Ended(row) => Phase \in {"lobby", "play"}
  /\ row.exists /\ row.status \in {"Running", "Paused"} => Phase = "play"
BY DEF Phase, Ended, Is, Terminal

LEMMA PhaseNext ==
  /\ Ended(row') => Phase' = "over"
  /\ row'.exists => Phase' \in {"lobby", "play", "over"}
  /\ ~row'.exists => Phase' = "gone"
  /\ row' = row => Phase' = Phase
BY DEF Phase, Ended, Is, Terminal

(* A step that opens no decision, and one that gives none up.               *)
Fewer == /\ OpenPatches' \subseteq OpenPatches
         /\ web' = "lobbyWrite" => web = "lobbyWrite"
         /\ timers'["lobbyWrite"] <= timers["lobbyWrite"]
         /\ OpenEnsures' \subseteq OpenEnsures
More  == /\ OpenPatches \subseteq OpenPatches'
         /\ web = "lobbyWrite" => web' = "lobbyWrite"
         /\ timers["lobbyWrite"] <= timers'["lobbyWrite"]
         /\ OpenEnsures \subseteq OpenEnsures'

LEMMA FewerDecisions ==
  ASSUME TypeOK, TypeOK', Fewer PROVE Decisions' \subseteq Decisions
<1>1. timers["lobbyWrite"] \in Nat /\ timers'["lobbyWrite"] \in Nat
  BY DEF TypeOK, Stages
<1> QED  BY <1>1 DEF Fewer, Decisions

LEMMA MoreDecisions ==
  ASSUME TypeOK, TypeOK', More PROVE Decisions \subseteq Decisions'
<1>1. timers["lobbyWrite"] \in Nat /\ timers'["lobbyWrite"] \in Nat
  BY DEF TypeOK, Stages
<1> QED  BY <1>1 DEF More, Decisions

\* The three ways to spend a decision, besides a handler's.
LEMMA SpentPatch ==
  ASSUME NEW r \in OpenPatches, r \notin patches' PROVE Decisions' # Decisions
<1>1. <<"patch", r>> \in Decisions  BY DEF Decisions
<1>2. <<"patch", r>> \notin Decisions'  BY DEF Decisions, OpenPatches
<1> QED  BY <1>1, <1>2

LEMMA SpentWeb ==
  ASSUME web = "lobbyWrite", web' # "lobbyWrite" PROVE Decisions' # Decisions
<1>1. <<"web", "lobbyWrite">> \in Decisions  BY DEF Decisions
<1>2. <<"web", "lobbyWrite">> \notin Decisions'  BY DEF Decisions
<1> QED  BY <1>1, <1>2

LEMMA SpentTimer ==
  ASSUME timers["lobbyWrite"] \in Nat, timers["lobbyWrite"] > 0,
         timers'["lobbyWrite"] = timers["lobbyWrite"] - 1
  PROVE  Decisions' # Decisions
<1> DEFINE n == timers["lobbyWrite"]
<1>1. <<"timer", n>> \in Decisions  BY DEF Decisions
<1>2. n \notin 1 .. timers'["lobbyWrite"]  OBVIOUS
<1>3. <<"timer", n>> \notin Decisions'  BY <1>2 DEF Decisions
<1> QED  BY <1>1, <1>3

LEMMA SpentEnsure ==
  ASSUME NEW p \in OpenEnsures, p \notin OpenEnsures' PROVE Decisions' # Decisions
<1>1. <<"handler", p>> \in Decisions  BY DEF Decisions
<1>2. <<"handler", p>> \notin Decisions'  BY DEF Decisions
<1> QED  BY <1>1, <1>2

-----------------------------------------------------------------------------
(* The kinds of steps.                                                     *)

Abstract == Promise!Next \/ UNCHANGED <<Phase, Decisions, chains>>

\* Nothing is written, and at most decisions are forgotten.
LEMMA QuietStep ==
  ASSUME TypeOK, TypeOK', UNCHANGED <<row, chains>>, Fewer PROVE Abstract
<1>1. Decisions' \subseteq Decisions  BY FewerDecisions
<1>2. Phase' = Phase  BY PhaseNext
<1> QED  BY <1>1, <1>2 DEF Abstract, Promise!Next, Promise!Forget

\* A decision is taken while the session is not over.
LEMMA DecidingStep ==
  ASSUME TypeOK, TypeOK', UNCHANGED <<row, chains>>, More, row.exists, ~Ended(row)
  PROVE  Abstract
<1>1. Decisions \subseteq Decisions'  BY MoreDecisions
<1>2. Phase' = Phase /\ Phase \in {"lobby", "play"}  BY PhaseOf, PhaseNext
<1> QED  BY <1>1, <1>2 DEF Abstract, Promise!Next, Promise!Decide

\* A decision is carried out on a row that is still there.
LEMMA SpendingStep ==
  ASSUME TypeOK, TypeOK', row.exists, row'.exists, chains' = chains,
         Fewer, Decisions' # Decisions
  PROVE  Abstract
<1>1. Decisions' \subseteq Decisions  BY FewerDecisions
<1>2. Phase # "gone" /\ Phase' \in {"lobby", "play", "over"}  BY PhaseOf, PhaseNext
<1> QED  BY <1>1, <1>2 DEF Abstract, Promise!Next, Promise!CarryOut

\* The session ends without judges.
LEMMA EndingStep ==
  ASSUME TypeOK, TypeOK', row.exists, Ended(row'), chains' = chains, Fewer, More
  PROVE  Abstract
<1>1. Decisions' = Decisions  BY FewerDecisions, MoreDecisions
<1>2. Phase' = "over" /\ Phase \in {"lobby", "play", "over"}  BY PhaseOf, PhaseNext
<1> QED  BY <1>1, <1>2 DEF Abstract, Promise!Next, Promise!EndUnjudged

\* finish_session: with judges, or too late.
LEMMA FinishingStep ==
  ASSUME TypeOK, TypeOK', FinishSession, Fewer, More PROVE Abstract
<1>1. CASE Flippable(row)
  <2>1. row' = FlipColumns(row) /\ chains' = chains + 1
    BY <1>1 DEF FinishSession, Put
  <2>2. row'.exists /\ row'.status = "Finished"
    BY <1>1, <2>1 DEF FlipColumns, Flippable, TypeOK, Rows
  <2>3. Phase = "play"  BY <1>1, PhaseOf DEF Flippable
  <2>4. Phase' = "over"  BY <2>2, PhaseNext DEF Ended, Terminal
  <2>5. Decisions' = Decisions  BY FewerDecisions, MoreDecisions
  <2> QED  BY <2>1, <2>3, <2>4, <2>5 DEF Abstract, Promise!Next, Promise!Finish
<1>2. CASE ~Flippable(row)
  BY <1>2, QuietStep DEF FinishSession
<1> QED  BY <1>1, <1>2

-----------------------------------------------------------------------------
(* The steps of each actor.                                                *)

\* What each change of the countdowns does to the ones about to start it.
LEMMA AboutToStart ==
  ASSUME TypeOK, NEW s \in Stages, NEW t \in Stages, s # t
  PROVE  /\ s # "lobbyWrite" => Spawned(s)["lobbyWrite"] = timers["lobbyWrite"]
         /\ s # "lobbyWrite" => Gone(s)["lobbyWrite"] = timers["lobbyWrite"]
         /\ s # "lobbyWrite" /\ t # "lobbyWrite" => Moved(s, t)["lobbyWrite"] = timers["lobbyWrite"]
         /\ s # "lobbyWrite" /\ t = "lobbyWrite" => Moved(s, t)["lobbyWrite"] = timers["lobbyWrite"] + 1
         /\ s = "lobbyWrite" => Moved(s, t)["lobbyWrite"] = timers["lobbyWrite"] - 1
         /\ s = "lobbyWrite" => Gone(s)["lobbyWrite"] = timers["lobbyWrite"] - 1
<1>1. timers \in [Stages -> Nat] /\ "lobbyWrite" \in Stages
  BY DEF TypeOK, Stages
<1> QED
  BY <1>1 DEF Spawned, Gone, Moved

\* The owner: a request decides, lands, or ends the session itself.
LEMMA OwnerKeeps == ASSUME IInv, IInv', Owner PROVE Abstract
<1> USE DEF gs, play, obs
<1>1. TypeOK /\ TypeOK' /\ timers["lobbyWrite"] \in Nat
  BY DEF IInv, TypeOK, Stages
<1>2. ASSUME UNCHANGED <<web, timers, pc, sched>>
      PROVE  /\ OpenPatches' \subseteq OpenPatches => Fewer
             /\ OpenPatches \subseteq OpenPatches' => More
  BY <1>1, <1>2 DEF Fewer, More, OpenEnsures, WillEnsure
<1>3. ASSUME NEW s \in Status, PatchRead(s) PROVE Abstract
  <2>1. /\ patches' = patches \cup {[to |-> s, seen |-> row]}
        /\ UNCHANGED <<row, chains, web, timers, pc, sched>> /\ row.exists
    BY <1>3 DEF PatchRead
  <2>2. CASE Ended(row)
    <3>1. OpenPatches' = OpenPatches
      BY <2>1, <2>2 DEF OpenPatches, Ended
    <3> QED
      BY <1>1, <1>2, <2>1, <3>1, QuietStep
  <2>3. CASE ~Ended(row)
    <3>1. OpenPatches \subseteq OpenPatches'
      BY <2>1 DEF OpenPatches
    <3> QED
      BY <1>1, <1>2, <2>1, <2>3, <3>1, DecidingStep
  <2> QED
    BY <2>2, <2>3
<1>4. ASSUME NEW r \in patches, PatchWrite(r) PROVE Abstract
  <2>1. patches' = patches \ {r} /\ UNCHANGED <<chains, web, timers, pc, sched>>
    BY <1>4 DEF PatchWrite
  <2>2. OpenPatches' \subseteq OpenPatches
    BY <2>1 DEF OpenPatches
  <2>3. Fewer
    BY <1>2, <2>1, <2>2
  <2>4. CASE ~row.exists
    BY <1>1, <1>4, <2>1, <2>3, <2>4, QuietStep DEF PatchWrite
  <2>5. CASE row.exists
    <3>1. row' = PatchColumns(row, r.seen, r.to)
      BY <1>4, <2>5 DEF PatchWrite, Put
    <3>2. row'.exists = row.exists /\ row'.status = r.to
      BY <3>1 DEF PatchColumns, IInv, TypeOK, Rows
    <3>3. CASE r.seen.status \notin Terminal
      <4>1. r \in OpenPatches /\ r \notin patches'
        BY <2>1, <3>3 DEF OpenPatches
      <4> QED
        BY <1>1, <2>1, <2>3, <2>5, <3>2, <4>1, SpentPatch, SpendingStep
    <3>4. CASE r.seen.status \in Terminal
      <4>1. OpenPatches \subseteq OpenPatches'
        BY <2>1, <3>4 DEF OpenPatches
      <4>2. ValidTransition(r.seen.status, r.to)
        BY DEF IInv, InFlightInv
      <4>3. r.to \in Terminal
        <5>1. CASE r.seen.status = "Finished"
          BY <4>2, <5>1 DEF ValidTransition, Allowed, Terminal
        <5>2. CASE r.seen.status = "Cancelled"
          BY <4>2, <5>2 DEF ValidTransition, Allowed, Terminal
        <5> QED
          BY <3>4, <5>1, <5>2 DEF Terminal
      <4>4. Ended(row')
        BY <2>5, <3>2, <4>3 DEF Ended
      <4>5. More
        BY <1>2, <2>1, <4>1
      <4> QED
        BY <1>1, <2>1, <2>3, <2>5, <4>4, <4>5, EndingStep
    <3> QED
      BY <3>3, <3>4
  <2> QED
    BY <2>4, <2>5
<1>5. ASSUME DeleteOne PROVE Abstract
  <2>1. row.exists /\ ~row'.exists /\ UNCHANGED <<patches, web, timers, pc, sched, chains>>
    BY <1>5 DEF DeleteOne, IInv, TypeOK, Rows
  <2>2. Decisions' = Decisions
    BY <2>1 DEF Decisions, OpenPatches, OpenEnsures, WillEnsure
  <2>3. Phase # "gone" /\ Phase' = "gone"
    BY <2>1, PhaseOf, PhaseNext
  <2> QED
    BY <2>1, <2>2, <2>3 DEF Abstract, Promise!Next, Promise!Delete
<1> QED
  BY <1>3, <1>4, <1>5 DEF Owner

\* The main server's countdown: it decides once, and may end the session.
LEMMA WebKeeps == ASSUME IInv, IInv', Web PROVE Abstract
<1> USE DEF gs, play, obs
<1>1. TypeOK /\ TypeOK' /\ timers["lobbyWrite"] \in Nat
  BY DEF IInv, TypeOK, Stages
<1>2. ASSUME UNCHANGED <<patches, timers, pc, sched>>
      PROVE  /\ (web' = "lobbyWrite" => web = "lobbyWrite") => Fewer
             /\ (web = "lobbyWrite" => web' = "lobbyWrite") => More
  BY <1>1, <1>2 DEF Fewer, More, OpenPatches, OpenEnsures, WillEnsure
<1>3. UNCHANGED <<patches, timers, pc, sched, chains>>
  BY DEF Web, WebLobby, WebLobbyWrite, WebTick, WebConfirm, WebWait, WebFinal, WebFinish,
         WebMoves, WebUnchanged
<1>4. ASSUME NEW l, WebMoves(l), l # "lobbyWrite" PROVE Abstract
  BY <1>1, <1>2, <1>3, <1>4, QuietStep DEF WebMoves
<1>5. CASE WebLobby
  <2>1. CASE Is(row, "Lobby")
    <3>1. row' = row /\ web = "lobby" /\ row.exists /\ ~Ended(row)
      BY <1>5, <2>1 DEF WebLobby, WebMoves, Is, Ended, Terminal
    <3> QED
      BY <1>1, <1>2, <1>3, <3>1, DecidingStep
  <2>2. CASE ~Is(row, "Lobby")
    BY <1>4, <1>5, <2>2 DEF WebLobby
  <2> QED
    BY <2>1, <2>2
<1>6. CASE WebLobbyWrite
  <2>1. CASE row.exists
    <3>1. web = "lobbyWrite" /\ web' = "ticking" /\ row' = StartColumns(row)
      BY <1>6, <2>1 DEF WebLobbyWrite, Start, Put
    <3>2. row'.exists
      BY <2>1, <3>1 DEF StartColumns, IInv, TypeOK, Rows
    <3> QED
      BY <1>1, <1>2, <1>3, <2>1, <3>1, <3>2, SpentWeb, SpendingStep
  <2>2. CASE ~row.exists
    BY <1>4, <1>6, <2>2 DEF WebLobbyWrite, WebMoves
  <2> QED
    BY <2>1, <2>2
<1>7. CASE WebTick
  BY <1>4, <1>7 DEF WebTick
<1>8. CASE WebConfirm
  BY <1>4, <1>8 DEF WebConfirm
<1>9. CASE WebWait
  BY <1>4, <1>9 DEF WebWait
<1>10. CASE WebFinal
  BY <1>4, <1>10 DEF WebFinal
<1>11. CASE WebFinish
  <2>1. web = "write" /\ web' = "off"
    BY <1>11 DEF WebFinish
  <2>2. Fewer /\ More
    BY <1>2, <1>3, <2>1
  <2>3. CASE row.exists
    <3>1. row' = WebFinishColumns(row)
      BY <1>11, <2>3 DEF WebFinish, Put
    <3>2. Ended(row')
      BY <2>3, <3>1 DEF WebFinishColumns, Ended, Terminal, IInv, TypeOK, Rows
    <3> QED
      BY <1>1, <1>3, <2>2, <2>3, <3>2, EndingStep
  <2>4. CASE ~row.exists
    BY <1>1, <1>3, <1>11, <2>2, <2>4, QuietStep DEF WebFinish
  <2> QED
    BY <2>3, <2>4
<1> QED
  BY <1>5, <1>6, <1>7, <1>8, <1>9, <1>10, <1>11 DEF Web

\* The game server's countdowns: they decide once, and finish with judges.
LEMMA TimerKeeps == ASSUME IInv, IInv', Timer PROVE Abstract
<1> USE DEF gs, play, obs
<1>1. /\ TypeOK /\ TypeOK'
      /\ timers["lobbyWrite"] \in Nat /\ timers'["lobbyWrite"] \in Nat
  BY DEF IInv, TypeOK, Stages
<1>2. UNCHANGED <<patches, web, pc, sched>>
  BY DEF Timer, TimerLobby, TimerLobbyWrite, TimerTick, TimerFinish, Parked, FinishNow, GsUnchanged
<1>3. /\ timers'["lobbyWrite"] <= timers["lobbyWrite"] => Fewer
      /\ timers["lobbyWrite"] <= timers'["lobbyWrite"] => More
  BY <1>2 DEF Fewer, More, OpenPatches, OpenEnsures, WillEnsure
<1>4. \A s \in Stages \ {"lobbyWrite"} : Gone(s)["lobbyWrite"] = timers["lobbyWrite"]
  BY <1>1, AboutToStart DEF Stages
<1>5. \A s \in Stages \ {"lobbyWrite"}, t \in Stages \ {"lobbyWrite"} :
        s # t => Moved(s, t)["lobbyWrite"] = timers["lobbyWrite"]
  BY <1>1, AboutToStart
<1>6. ASSUME NoWrite, timers'["lobbyWrite"] = timers["lobbyWrite"] PROVE Abstract
  BY <1>1, <1>3, <1>6, QuietStep DEF NoWrite
<1>7. ASSUME FinishSession, timers'["lobbyWrite"] = timers["lobbyWrite"] PROVE Abstract
  BY <1>1, <1>3, <1>7, FinishingStep
<1>8. CASE TimerLobby
  <2>1. CASE Is(row, "Lobby")
    <3>1. timers' = Moved("lobby", "lobbyWrite") /\ NoWrite
      BY <1>8, <2>1 DEF TimerLobby, Is
    <3>2. timers'["lobbyWrite"] = timers["lobbyWrite"] + 1
      BY <1>1, <3>1, AboutToStart DEF Stages
    <3>3. row.exists /\ ~Ended(row)
      BY <2>1 DEF Is, Ended, Terminal
    <3> QED
      BY <1>1, <1>3, <3>1, <3>2, <3>3, DecidingStep DEF NoWrite
  <2>2. CASE ~Is(row, "Lobby")
    <3>1. NoWrite /\ (timers' = Moved("lobby", "running") \/ timers' = Gone("lobby"))
      BY <1>8, <2>2 DEF TimerLobby
    <3> QED
      BY <1>4, <1>5, <1>6, <3>1 DEF Stages
  <2> QED
    BY <2>1, <2>2
<1>9. CASE TimerLobbyWrite
  <2>1. /\ timers["lobbyWrite"] > 0 /\ UNCHANGED chains
        /\ timers' = Moved("lobbyWrite", "running") \/ timers' = Gone("lobbyWrite")
    BY <1>9 DEF TimerLobbyWrite
  <2>2. timers'["lobbyWrite"] = timers["lobbyWrite"] - 1
    BY <1>1, <2>1, AboutToStart DEF Stages
  <2>3. Fewer
    BY <1>1, <1>3, <2>2
  <2>4. CASE row.exists
    <3>1. row' = StartColumns(row)
      BY <1>9, <2>4 DEF TimerLobbyWrite, Start, Put
    <3>2. row'.exists
      BY <2>4, <3>1 DEF StartColumns, IInv, TypeOK, Rows
    <3> QED
      BY <1>1, <2>1, <2>2, <2>3, <2>4, <3>2, SpentTimer, SpendingStep
  <2>5. CASE ~row.exists
    BY <1>1, <1>9, <2>1, <2>3, <2>5, QuietStep DEF TimerLobbyWrite
  <2> QED
    BY <2>4, <2>5
<1>10. CASE TimerTick
  BY <1>4, <1>5, <1>6, <1>10 DEF TimerTick, Stages
<1>11. CASE TimerFinish
  BY <1>4, <1>7, <1>11 DEF TimerFinish, Stages
<1>12. CASE Parked
  BY <1>4, <1>5, <1>6, <1>12 DEF Parked, Stages
<1>13. CASE FinishNow
  BY <1>4, <1>7, <1>13 DEF FinishNow, Stages
<1> QED
  BY <1>8, <1>9, <1>10, <1>11, <1>12, <1>13 DEF Timer

\* Crashes forget decisions; the idle sweep ends the session without judges.
LEMMA GameServerKeeps == ASSUME IInv, IInv', GameServer PROVE Abstract
<1> USE DEF gs, play, obs
<1>1. /\ TypeOK /\ TypeOK'
      /\ timers["lobbyWrite"] \in Nat /\ timers'["lobbyWrite"] \in Nat
  BY DEF IInv, TypeOK, Stages
<1>2. ASSUME UNCHANGED <<patches, web, timers, pc, sched>> PROVE Fewer /\ More
  BY <1>1, <1>2 DEF Fewer, More, OpenPatches, OpenEnsures, WillEnsure
<1>3. CASE WebCrash
  <2>1. Fewer
    BY <1>1, <1>3 DEF WebCrash, Fewer, OpenPatches, OpenEnsures, WillEnsure
  <2> QED
    BY <1>1, <1>3, <2>1, QuietStep DEF WebCrash
<1>4. CASE Crash
  <2>1. UNCHANGED <<row, chains, patches, web>>
    BY <1>4 DEF Crash
  <2>2. timers'["lobbyWrite"] = 0
    BY <1>4 DEF Crash, NoTimers, Stages
  <2>3. OpenEnsures' = {}
    BY <1>4 DEF Crash, OpenEnsures, WillEnsure
  <2>4. Fewer
    BY <1>1, <2>1, <2>2, <2>3 DEF Fewer, OpenPatches
  <2> QED
    BY <1>1, <2>1, <2>4, QuietStep
<1>5. CASE TimeUp \/ Restart \/ ResumeRead \/ ObserverConnect \/ IdleRead
  <2>1. UNCHANGED <<row, chains, patches, web, timers, pc, sched>>
    BY <1>5 DEF TimeUp, Restart, ResumeRead, ObserverConnect, IdleRead
  <2> QED
    BY <1>1, <1>2, <2>1, QuietStep
<1>6. CASE ResumeSpawn
  <2>1. /\ UNCHANGED <<row, chains, patches, web, pc, sched>>
        /\ timers' = Spawned(resuming) /\ resuming \in {"running", "parked", "finishNow"}
    BY <1>1, <1>6 DEF ResumeSpawn, TypeOK
  <2>2. timers'["lobbyWrite"] = timers["lobbyWrite"]
    <3>1. resuming \in Stages /\ resuming # "lobbyWrite" /\ "lobby" \in Stages /\ resuming # "lobby"
      BY <2>1 DEF Stages
    <3> QED
      BY <1>1, <2>1, <3>1, AboutToStart
  <2>3. Fewer
    BY <1>1, <2>1, <2>2 DEF Fewer, OpenPatches, OpenEnsures, WillEnsure
  <2> QED
    BY <1>1, <2>1, <2>3, QuietStep
<1>7. CASE IdleWrite
  <2>1. UNCHANGED <<patches, web, timers, pc, sched, chains>>
    BY <1>7 DEF IdleWrite
  <2>2. CASE IdleCancellable(row)
    <3>1. row' = IdleColumns(row) /\ row.exists
      BY <1>7, <2>2 DEF IdleWrite, Put, IdleCancellable, Is
    <3>2. Ended(row')
      BY <3>1 DEF IdleColumns, Ended, Terminal, IInv, TypeOK, Rows
    <3> QED
      BY <1>1, <1>2, <2>1, <3>1, <3>2, EndingStep
  <2>3. CASE ~IdleCancellable(row)
    BY <1>1, <1>2, <1>7, <2>1, <2>3, QuietStep DEF IdleWrite
  <2> QED
    BY <2>2, <2>3
<1> QED
  BY <1>3, <1>4, <1>5, <1>6, <1>7 DEF GameServer, Recover

\* One handler moves; the others' decisions stand.
LEMMA OthersStand ==
  ASSUME TypeOK, NEW p \in Players,
         UNCHANGED <<patches, web>>, timers'["lobbyWrite"] = timers["lobbyWrite"],
         \A q \in Players \ {p} : pc'[q] = pc[q] /\ sched'[q] = sched[q]
  PROVE  /\ (p \in OpenEnsures' => p \in OpenEnsures) => Fewer
         /\ (p \in OpenEnsures => p \in OpenEnsures') => More
<1>1. timers["lobbyWrite"] \in Nat
  BY DEF TypeOK, Stages
<1>2. \A q \in Players \ {p} : q \in OpenEnsures' <=> q \in OpenEnsures
  BY DEF OpenEnsures, WillEnsure
<1>3. OpenEnsures \subseteq Players /\ OpenEnsures' \subseteq Players
  BY DEF OpenEnsures
<1> QED
  BY <1>1, <1>2, <1>3 DEF Fewer, More, OpenPatches

\* The handlers: one decides when it reads a session in play.
LEMMA PlayerKeeps == ASSUME IInv, IInv', NEW p \in Players, Player(p) PROVE Abstract
<1> USE DEF gs, play, obs
<1>1. /\ TypeOK /\ TypeOK' /\ pc \in [Players -> Places]
      /\ sched \in [Players -> {"none", "task", "completed"}]
  BY DEF IInv, TypeOK
<1>2. UNCHANGED <<patches, web>>
  BY DEF Player, Connect, Upgrade, LobbyWaitEnds, LoopTop, Resolve, EnsureRead, EnsureWrite,
         Work, LastTask, CheckAllDone, AllDoneFinish, IdleUntilEnd, Disconnect, Moves, Handler
<1>3. timers'["lobbyWrite"] = timers["lobbyWrite"]
  <2>1. CASE Upgrade(p)
    BY <1>1, <2>1, AboutToStart DEF Upgrade, Stages
  <2>2. CASE ~Upgrade(p)
    BY <2>2 DEF Player, Connect, LobbyWaitEnds, LoopTop, Resolve, EnsureRead, EnsureWrite,
         Work, LastTask, CheckAllDone, AllDoneFinish, IdleUntilEnd, Disconnect, Moves
  <2> QED
    BY <2>1, <2>2
<1>4. \A q \in Players \ {p} : pc'[q] = pc[q] /\ sched'[q] = sched[q]
  BY <1>1 DEF Player, Connect, Upgrade, LobbyWaitEnds, LoopTop, Resolve, EnsureRead, EnsureWrite,
         Work, LastTask, CheckAllDone, AllDoneFinish, IdleUntilEnd, Disconnect, Moves, Goto
<1>5. /\ (p \in OpenEnsures' => p \in OpenEnsures) => Fewer
      /\ (p \in OpenEnsures => p \in OpenEnsures') => More
  BY <1>1, <1>2, <1>3, <1>4, OthersStand
\* A handler that goes where nothing is decided.
<1>6. ASSUME NEW l, Goto(p, l), l \notin {"resolve", "ensure", "ensureWrite"} PROVE Fewer
  <2>1. pc'[p] = l
    BY <1>1, <1>6 DEF Goto
  <2> QED
    BY <1>5, <1>6, <2>1 DEF OpenEnsures, WillEnsure
<1>7. ASSUME NEW l, Goto(p, l), l \notin {"resolve", "ensure", "ensureWrite"},
             UNCHANGED <<row, chains>>
      PROVE  Abstract
  BY <1>1, <1>6, <1>7, QuietStep
<1>8. CASE LoopTop(p)
  <2>1. CASE ~row.exists \/ Ended(row)
    BY <1>7, <1>8, <2>1 DEF LoopTop
  <2>2. CASE row.exists /\ ~Ended(row)
    <3>1. pc[p] = "loop" /\ UNCHANGED <<row, chains>>
      BY <1>8 DEF LoopTop
    <3>2. More
      BY <1>5, <3>1 DEF OpenEnsures, WillEnsure
    <3> QED
      BY <1>1, <2>2, <3>1, <3>2, DecidingStep
  <2> QED
    BY <2>1, <2>2
<1>9. CASE Resolve(p)
  <2>1. pc[p] = "resolve" /\ UNCHANGED <<row, chains>>
    BY <1>9 DEF Resolve
  <2>2. sched[p] # "none" => pc'[p] \in {"done", "work"}
    BY <1>1, <1>9 DEF Resolve, Goto
  <2>3. Fewer
    BY <1>1, <1>5, <2>1, <2>2 DEF OpenEnsures, WillEnsure
  <2> QED
    BY <1>1, <2>1, <2>3, QuietStep
<1>10. CASE EnsureRead(p)
  <2>1. pc[p] = "ensure" /\ UNCHANGED <<row, chains>>
    BY <1>10 DEF EnsureRead, Moves
  <2>2. Fewer
    BY <1>5, <2>1 DEF OpenEnsures, WillEnsure
  <2> QED
    BY <1>1, <2>1, <2>2, QuietStep
<1>11. CASE EnsureWrite(p)
  <2>1. Fewer /\ p \in OpenEnsures
    BY <1>6, <1>11 DEF EnsureWrite, OpenEnsures, WillEnsure
  <2>2. p \notin OpenEnsures' /\ chains' = chains
    BY <1>1, <1>11 DEF EnsureWrite, Goto, OpenEnsures, WillEnsure
  <2>3. CASE row.exists
    <3>1. row' = StartColumns(row)
      BY <1>11, <2>3 DEF EnsureWrite, Start, Put
    <3>2. row'.exists
      BY <2>3, <3>1 DEF StartColumns, IInv, TypeOK, Rows
    <3> QED
      BY <1>1, <2>1, <2>2, <2>3, <3>2, SpentEnsure, SpendingStep
  <2>4. CASE ~row.exists
    BY <1>1, <1>11, <2>1, <2>2, <2>4, QuietStep DEF EnsureWrite
  <2> QED
    BY <2>3, <2>4
<1>12. CASE AllDoneFinish(p)
  <2>1. pc[p] = "flip" /\ Goto(p, "done") /\ FinishSession
    BY <1>12 DEF AllDoneFinish
  <2>2. Fewer
    BY <1>6, <2>1
  <2>3. More
    BY <1>5, <2>1 DEF OpenEnsures, WillEnsure
  <2> QED
    BY <1>1, <2>1, <2>2, <2>3, FinishingStep
<1>13. CASE Upgrade(p)
  <2>1. CASE entry' = "Lobby"
    BY <1>7, <1>13, <2>1 DEF Upgrade
  <2>2. CASE entry' # "Lobby"
    BY <1>7, <1>13, <2>2 DEF Upgrade
  <2> QED
    BY <2>1, <2>2
<1>14. CASE CheckAllDone(p)
  <2>1. CASE row.exists /\ EveryoneDone(p)
    BY <1>7, <1>14, <2>1 DEF CheckAllDone, Moves
  <2>2. CASE ~(row.exists /\ EveryoneDone(p))
    BY <1>7, <1>14, <2>2 DEF CheckAllDone, Moves
  <2> QED
    BY <2>1, <2>2
<1>15. CASE Connect(p) \/ LobbyWaitEnds(p) \/ Work(p) \/ LastTask(p)
            \/ IdleUntilEnd(p) \/ Disconnect(p)
  BY <1>7, <1>15 DEF Connect, LobbyWaitEnds, Work, LastTask, IdleUntilEnd, Disconnect, Moves
<1> QED
  BY <1>8, <1>9, <1>10, <1>11, <1>12, <1>13, <1>14, <1>15 DEF Player

-----------------------------------------------------------------------------
\* Every step of the system is a step of the promise, or changes nothing of it.
LEMMA EveryStepAbstracts == ASSUME IInv, IInv', [Next]_vars PROVE Abstract
<1>1. CASE Owner
  BY <1>1, OwnerKeeps
<1>2. CASE Web
  BY <1>2, WebKeeps
<1>3. CASE Timer
  BY <1>3, TimerKeeps
<1>4. CASE GameServer
  BY <1>4, GameServerKeeps
<1>5. ASSUME NEW p \in Players, Player(p) PROVE Abstract
  BY <1>5, PlayerKeeps
<1>6. CASE UNCHANGED vars
  <2>1. TypeOK /\ TypeOK' /\ timers["lobbyWrite"] \in Nat /\ UNCHANGED <<row, chains>>
    BY <1>6 DEF IInv, TypeOK, Stages, vars, obs
  <2>2. Fewer
    BY <1>6, <2>1 DEF vars, gs, play, Fewer, OpenPatches, OpenEnsures, WillEnsure
  <2> QED
    BY <2>1, <2>2, QuietStep
<1> QED
  BY <1>1, <1>2, <1>3, <1>4, <1>5, <1>6 DEF Next, GameServer

(* Both processes together keep the promise of one session: an end is       *)
(* undone only by a write decided before it, and the judge chain starts in  *)
(* the step that takes the session from play to its end.                    *)
THEOREM ImplementsPromise == Spec => KeepsPromise
<1>1. Init => Promise!Init
  <2> SUFFICES ASSUME Init PROVE Promise!Init
    OBVIOUS
  <2>1. Phase = "lobby" /\ chains = 0
    BY DEF Init, NewRow, Phase, Ended, Is, Terminal
  <2>2. OpenPatches = {} /\ OpenEnsures = {} /\ {web} \cap {"lobbyWrite"} = {}
    BY DEF Init, OpenPatches, OpenEnsures, WillEnsure
  <2>3. 1 .. timers["lobbyWrite"] = {}
    BY DEF Init, NoTimers, Stages
  <2> QED
    BY <2>1, <2>2, <2>3 DEF Promise!Init, Decisions
<1>2. IInv /\ IInv' /\ [Next]_vars => [Promise!Next]_(Promise!vars)
  BY EveryStepAbstracts DEF Abstract, Promise!vars
<1> QED
  BY <1>1, <1>2, Initially, Inductive, PTL DEF Spec, KeepsPromise, Promise!Spec
=============================================================================
