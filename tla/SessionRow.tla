----------------------------- MODULE SessionRow -----------------------------
(***************************************************************************)
(* The `sessions` row both server processes share through the database:    *)
(* the columns the lifecycle reads and writes, the transition rule the     *)
(* REST handler validates against (FR-009), and the column-wise writes of  *)
(* each kind of writer.                                                    *)
(*                                                                         *)
(* Timestamps are kept at the precision the lifecycle needs: started_at    *)
(* and paused_at are NULL or set, and finished_at is NULL or the writer    *)
(* that stamped it last.  The arithmetic on the actual times is the        *)
(* subject of module PauseClock.                                           *)
(***************************************************************************)
EXTENDS Naturals

Status   == {"Lobby", "Running", "Paused", "Finished", "Cancelled"}
Terminal == {"Finished", "Cancelled"}

\* NULL, or the writer of finished_at.
NoStamp  == "none"
Stampers == {"web", "gs", "patch", "idle"}

\* `exists` turns FALSE when the owner deletes the session.
Rows == [exists   : BOOLEAN,
         status   : Status,
         started  : BOOLEAN,
         finished : Stampers \cup {NoStamp},
         pausedAt : BOOLEAN]

NewRow == [exists |-> TRUE, status |-> "Lobby", started |-> FALSE,
           finished |-> NoStamp, pausedAt |-> FALSE]

\* The columns agree: what the countdowns, the recovery and the idle sweep
\* compute from is there whenever the status says they will look.
Consistent(row) ==
  /\ row.status \in {"Running", "Paused", "Finished"} => row.started
  /\ row.status \in Terminal => row.finished # NoStamp
  /\ row.status = "Paused" => row.pausedAt

Is(row, s)    == row.exists /\ row.status = s
Ended(row)    == row.exists /\ row.status \in Terminal

-----------------------------------------------------------------------------

\* The lifecycle of FR-009, with the same-status request allowed.
Allowed == [Lobby     |-> {"Running", "Cancelled"},
            Running   |-> {"Finished", "Cancelled", "Paused"},
            Paused    |-> {"Running", "Cancelled"},
            Finished  |-> {},
            Cancelled |-> {}]

ValidTransition(current, requested) ==
  current = requested \/ requested \in Allowed[current]

\* Mutant: starting early forgets started_at.
PatchColumnsNoStart(row, seen, s) ==
  [row EXCEPT
    !.status   = s,
    !.finished = IF s \in Terminal /\ seen.finished = NoStamp THEN "patch" ELSE @,
    !.pausedAt = s = "Paused"]

(* PATCH writes the columns it decided from the row it READ (`seen`) into   *)
(* whatever the row is by now: an UPDATE by primary key, no status filter.  *)
PatchColumns(row, seen, s) ==
  [row EXCEPT
    !.status   = s,
    !.started  = @ \/ (s = "Running" /\ ~seen.started),
    !.finished = IF s \in Terminal /\ seen.finished = NoStamp THEN "patch" ELSE @,
    !.pausedAt = CASE s = "Paused" -> TRUE
                   [] s = "Running" /\ seen.status = "Paused" -> FALSE
                   [] s = "Cancelled" /\ seen.pausedAt -> FALSE
                   [] OTHER -> @]

\* Both lobby timers and ensure_session_running: status and started_at only.
StartColumns(row) == [row EXCEPT !.status = "Running", !.started = TRUE]

\* The main server's running timer: UPDATE by primary key.
WebFinishColumns(row) == [row EXCEPT !.status = "Finished", !.finished = "web"]

\* Mutant: an UPDATE without its status filter.
FlippableAlways(row) == row.exists

(* finish_session and the idle sweep are conditional UPDATEs: the WHERE     *)
(* clause names the statuses they may leave.                                *)
Flippable(row) == row.exists /\ row.status \in {"Running", "Paused"}
FlipColumns(row) == [row EXCEPT !.status = "Finished", !.finished = "gs"]

IdleCancellable(row) == Is(row, "Running")
IdleColumns(row) == [row EXCEPT !.status = "Cancelled", !.finished = "idle"]

=============================================================================
