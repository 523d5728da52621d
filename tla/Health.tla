-------------------------------- MODULE Health --------------------------------
(***************************************************************************)
(* The code-health checkpoints of one player on one task, from the agent's *)
(* reports and the close of the task to the health bonus.  A checkpoint is *)
(* a row per commit; the server verifies it by scoring the commit itself,  *)
(* in a background worker that first waits for the agent's push.           *)
(*                                                                         *)
(*   report r   the agent reports a probe's commit, maybe twice            *)
(*   closer c   a handler closes the task (two may: see TaskScheduler),    *)
(*              waits for the task's final commit and pays the bonus       *)
(*   resume k   after a restart, a checkpoint that was left pending        *)
(*                                                                         *)
(* Workers live in the process, rows in the database.  Scores are left     *)
(* out: a checkpoint that verified is `ok'.  Nor is modelled what a bonus  *)
(* on existing code is measured from (the baseline checkpoint).            *)
(***************************************************************************)
EXTENDS Integers, FiniteSets

CONSTANTS Commits,     \* of probes
          Final,       \* the task's final commit
          Missing,     \* the key of a final checkpoint without a commit
          Reports,     \* reports of the agent
          CommitOf,    \* report -> the commit it names
          Closers,     \* closes of the task
          MaxCrashes   \* bound

Keys == Commits \cup {Final, Missing}
Resumes == {<<"resume", k>> : k \in Keys}
Workers == Reports \cup Closers \cup Resumes

ASSUME KeysAssumption ==
  /\ Final # Missing /\ Commits \cap {Final, Missing} = {}
  /\ IsFiniteSet(Commits) /\ "none" \notin Keys
  /\ CommitOf \in [Reports -> Commits]
ASSUME WorkersAssumption ==
  /\ Reports \cap Closers = {} /\ (Reports \cup Closers) \cap Resumes = {}
  /\ MaxCrashes \in Nat

VARIABLES
  status,   \* checkpoint -> server_status, "none" without a row
  late,     \* checkpoints of probes reported after the task had closed
  born,     \* checkpoints in order of creation
  repo,     \* commit -> absent, served, or off the served line
  pc,       \* worker -> where it is
  key,      \* worker -> the checkpoint it works on
  basis,    \* closer -> the checkpoint it is about to pay on, or "none"
  paid,     \* the bonus rows: how many
  paidOn,   \* the checkpoint the bonus was paid on, or "none"
  closed,   \* the player's scheduler has left the task
  up,       \* the process runs
  crashes   \* observability

rows    == <<status, late, born>>
workers == <<pc, key, basis>>
bonus   == <<paid, paidOn>>
vars    == <<rows, repo, workers, bonus, closed, up, crashes>>

Stages == {"off", "find", "insert", "verify", "wait", "scan", "final", "award", "pay", "done"}
Terminal == {"ok", "timeout", "failed", "commit_missing", "unverified"}

TypeOK ==
  /\ status \in [Keys -> {"none", "pending"} \cup Terminal]
  /\ late \subseteq Commits
  /\ born \in [Keys -> Nat]
  /\ repo \in [Commits \cup {Final} -> {"absent", "served", "off"}]
  /\ pc \in [Workers -> Stages]
  /\ key \in [Workers -> Keys]
  /\ basis \in [Closers -> Keys \cup {"none"}]
  /\ paid \in Nat /\ paidOn \in Keys \cup {"none"}
  /\ closed \in BOOLEAN /\ up \in BOOLEAN /\ crashes \in 0 .. MaxCrashes

Init ==
  /\ status = [k \in Keys |-> "none"] /\ late = {} /\ born = [k \in Keys |-> 0]
  /\ repo = [k \in Commits \cup {Final} |-> "absent"]
  /\ pc = [w \in Workers |-> "off"]
  /\ key = [w \in Workers |-> IF w \in Reports THEN CommitOf[w] ELSE Final]
  /\ basis = [c \in Closers |-> "none"]
  /\ paid = 0 /\ paidOn = "none"
  /\ closed = FALSE /\ up = TRUE /\ crashes = 0

-----------------------------------------------------------------------------
Rows       == {k \in Keys : status[k] # "none"}
Go(w, to)  == pc' = [pc EXCEPT ![w] = to]
At(w, at)  == up /\ pc[w] = at

Create(k, s) ==
  /\ status' = [status EXCEPT ![k] = s]
  /\ born' = [born EXCEPT ![k] = Cardinality(Rows) + 1]

\* Where a worker goes once its checkpoint is verified, or needs no verifying.
Verified(w) == Go(w, IF w \in Closers THEN "award" ELSE "done")

-----------------------------------------------------------------------------
(* on_report                                                               *)

Report(r) ==
  /\ At(r, "off")
  /\ Go(r, "find")
  /\ UNCHANGED <<rows, repo, key, basis, bonus, closed, up, crashes>>

\* An earlier report of the commit: its row is brought up to date.
ReportFinds(r) ==
  /\ r \in Reports /\ At(r, "find")
  /\ Go(r, IF key[r] \in Rows THEN "verify" ELSE "insert")
  /\ UNCHANGED <<rows, repo, key, basis, bonus, closed, up, crashes>>

\* A second insert of the commit fails, and its report ends there.  A push
\* the server will never fast-forward to leaves nothing to verify.
ReportInserts(r, rewritten) ==
  /\ r \in Reports /\ At(r, "insert")
  /\ IF key[r] \in Rows
       THEN UNCHANGED rows /\ Go(r, "done")
       ELSE /\ Create(key[r], IF rewritten THEN "unverified" ELSE "pending")
            /\ late' = IF closed THEN late \cup {key[r]} ELSE late
            /\ Go(r, IF rewritten THEN "done" ELSE "verify")
  /\ UNCHANGED <<repo, key, basis, bonus, closed, up, crashes>>

-----------------------------------------------------------------------------
(* verify, for whichever worker                                            *)

VerifyStarts(w) ==
  /\ At(w, "verify")
  /\ IF status[key[w]] = "pending" THEN Go(w, "wait") ELSE Verified(w)
  /\ UNCHANGED <<rows, repo, key, basis, bonus, closed, up, crashes>>

\* The row is written whatever it says by now.
Settle(w, s) ==
  /\ status' = [status EXCEPT ![key[w]] = s]
  /\ Verified(w)
  /\ UNCHANGED <<late, born, repo, key, basis, bonus, closed, up, crashes>>

Arrived(w) == repo[key[w]] # "absent"

GivesUp(w) ==
  /\ At(w, "wait") /\ ~Arrived(w)
  /\ Settle(w, "commit_missing")

OffTheLine(w) ==
  /\ At(w, "wait") /\ repo[key[w]] = "off"
  /\ Settle(w, "unverified")

Exports(w) ==
  /\ At(w, "wait") /\ repo[key[w]] = "served"
  /\ Go(w, "scan")
  /\ UNCHANGED <<rows, repo, key, basis, bonus, closed, up, crashes>>

Scans(w, s) ==
  /\ At(w, "scan") /\ s \in {"ok", "timeout", "failed"}
  /\ Settle(w, s)

-----------------------------------------------------------------------------
(* on_task_closed and award_health_bonus                                   *)

\* The scheduler row moves on, and the handler that moved it starts a closer.
Close(c) ==
  /\ At(c, "off")
  /\ closed' = TRUE
  /\ Go(c, "final")
  /\ UNCHANGED <<rows, repo, key, basis, bonus, up, crashes>>

\* Mutant: the wait for the final commit has no end.
FinalAwaited(c) ==
  /\ At(c, "final") /\ repo[Final] # "absent"
  /\ key' = [key EXCEPT ![c] = Final]
  /\ Go(c, "find")
  /\ UNCHANGED <<rows, repo, basis, bonus, closed, up, crashes>>

\* The final commit is there, or the wait for it is over.
FinalResolved(c) ==
  /\ At(c, "final")
  /\ key' = [key EXCEPT ![c] = IF repo[Final] = "absent" THEN Missing ELSE Final]
  /\ Go(c, "find")
  /\ UNCHANGED <<rows, repo, basis, bonus, closed, up, crashes>>

CloserFinds(c) ==
  /\ c \in Closers /\ At(c, "find")
  /\ Go(c, IF key[c] \notin Rows THEN "insert" ELSE IF key[c] = Final THEN "verify" ELSE "award")
  /\ UNCHANGED <<rows, repo, key, basis, bonus, closed, up, crashes>>

\* Mutant: the bonus does not wait for the verification.
CloserInsertsAndPays(c) ==
  /\ c \in Closers /\ At(c, "insert")
  /\ IF key[c] \in Rows
       THEN UNCHANGED rows /\ Go(c, "done")
       ELSE /\ Create(key[c], IF key[c] = Final THEN "pending" ELSE "commit_missing")
            /\ UNCHANGED late
            /\ Go(c, "award")
  /\ UNCHANGED <<repo, key, basis, bonus, closed, up, crashes>>

CloserInserts(c) ==
  /\ c \in Closers /\ At(c, "insert")
  /\ IF key[c] \in Rows
       THEN UNCHANGED rows /\ Go(c, "done")
       ELSE /\ Create(key[c], IF key[c] = Final THEN "pending" ELSE "commit_missing")
            /\ UNCHANGED late
            /\ Go(c, IF key[c] = Final THEN "verify" ELSE "award")
  /\ UNCHANGED <<repo, key, basis, bonus, closed, up, crashes>>

\* The final checkpoint if it verified, else the last verified one of a probe.
Eligible == {k \in Commits \ late : status[k] = "ok"}
Best == IF status[Final] = "ok" THEN Final
        ELSE IF Eligible = {} THEN "none"
        ELSE CHOOSE k \in Eligible : \A l \in Eligible : born[l] <= born[k]

Award(c) ==
  /\ At(c, "award")
  /\ IF paid > 0 THEN Go(c, "done") /\ UNCHANGED basis
                 ELSE Go(c, "pay") /\ basis' = [basis EXCEPT ![c] = Best]
  /\ UNCHANGED <<rows, repo, key, bonus, closed, up, crashes>>

\* Mutant: without the unique index.
PayAgain(c) ==
  /\ At(c, "pay")
  /\ paid' = paid + 1 /\ paidOn' = basis[c]
  /\ Go(c, "done")
  /\ UNCHANGED <<rows, repo, key, basis, closed, up, crashes>>

\* The unique index turns a race into "already awarded".
Pay(c) ==
  /\ At(c, "pay")
  /\ IF paid > 0 THEN UNCHANGED bonus ELSE paid' = 1 /\ paidOn' = basis[c]
  /\ Go(c, "done")
  /\ UNCHANGED <<rows, repo, key, basis, closed, up, crashes>>

-----------------------------------------------------------------------------
(* The agent's repository; crash and restart                               *)

\* The agent's push arrives; its history may be rewritten later.  The final
\* commit is made when the agent sees the scheduler move on.
Push(k) ==
  /\ k \in Commits \/ (k = Final /\ closed)
  /\ \/ repo[k] = "absent" /\ repo' = [repo EXCEPT ![k] = "served"]
     \/ repo[k] = "served" /\ repo' = [repo EXCEPT ![k] = "off"]
  /\ UNCHANGED <<rows, workers, bonus, closed, up, crashes>>

\* Workers that have begun die with the process.
Crash ==
  /\ up /\ crashes < MaxCrashes
  /\ up' = FALSE /\ crashes' = crashes + 1
  /\ pc' = [w \in Workers |-> IF w \in Resumes \/ pc[w] = "off" THEN "off" ELSE "done"]
  /\ UNCHANGED <<rows, repo, key, basis, bonus, closed>>

Pending == {k \in Keys : status[k] = "pending"}

\* Mutant: only the checkpoints of probes are resumed.
RestartForProbes ==
  /\ ~up /\ up' = TRUE
  /\ pc' = [w \in Workers |-> IF w \in {<<"resume", k>> : k \in Pending \ {Final}}
                                THEN "verify" ELSE pc[w]]
  /\ key' = [w \in Workers |-> IF w \in Resumes THEN w[2] ELSE key[w]]
  /\ UNCHANGED <<rows, repo, basis, bonus, closed, crashes>>

\* resume_pending
Restart ==
  /\ ~up /\ up' = TRUE
  /\ pc' = [w \in Workers |-> IF w \in {<<"resume", k>> : k \in Pending} THEN "verify" ELSE pc[w]]
  /\ key' = [w \in Workers |-> IF w \in Resumes THEN w[2] ELSE key[w]]
  /\ UNCHANGED <<rows, repo, basis, bonus, closed, crashes>>

-----------------------------------------------------------------------------
Verify(w) ==
  \/ VerifyStarts(w) \/ GivesUp(w) \/ OffTheLine(w) \/ Exports(w)
  \/ \E s \in Terminal : Scans(w, s)

Inserts(r) == \E rewritten \in BOOLEAN : ReportInserts(r, rewritten)
Reporting(r) == ReportFinds(r) \/ Inserts(r) \/ Verify(r)

Closing(c) ==
  \/ FinalResolved(c) \/ CloserFinds(c) \/ CloserInserts(c) \/ Verify(c)
  \/ Award(c) \/ Pay(c)

Next ==
  \/ \E r \in Reports : Report(r) \/ Reporting(r)
  \/ \E c \in Closers : Close(c) \/ Closing(c)
  \/ \E w \in Resumes : Verify(w)
  \/ \E k \in Commits \cup {Final} : Push(k)
  \/ Crash \/ Restart

Spec == Init /\ [][Next]_vars

\* Spawned work is scheduled; the process is started again.
Fairness ==
  /\ \A r \in Reports : WF_vars(Reporting(r))
  /\ \A c \in Closers : WF_vars(Closing(c))
  /\ \A w \in Resumes : WF_vars(Verify(w))
  /\ WF_vars(Restart)

FairSpec == Spec /\ Fairness

-----------------------------------------------------------------------------
(* Properties                                                              *)

\* "Pay the task's health bonus once ...: the task-final checkpoint when it
\* verified, else the last verified probe checkpoint of the task (never a late
\* one)" (award_health_bonus).  One bonus however many closers race; and, when
\* the task was closed once, on the final tree if that verified, although it
\* was verified in the background and the bonus was read before it was paid.
Started(c) == pc[c] # "off"
ClosedOnce == \A c, d \in Closers : Started(c) /\ Started(d) => c = d
PaidOnceOnBest ==
  /\ paid <= 1
  /\ paidOn \notin late
  /\ paid = 1 /\ status[Final] = "ok" /\ ClosedOnce => paidOn = Final

\* No checkpoint stays pending, whatever the agent pushes and however often
\* the process restarts: "a restart re-drives what was left pending" (health.rs).
EveryCheckpointSettles == \A k \in Keys : status[k] = "pending" ~> status[k] # "pending"

\* A close of the task ends in its bonus row, unless the process crashed: the
\* wait for the final commit and the award live in a worker no restart resumes.
BonusFollowsClose == closed ~> (paid = 1 \/ crashes > 0)
===============================================================================
