---------------------------- MODULE SnapshotPush ----------------------------
(***************************************************************************)
(* The player's snapshot: a line of commits in each ololo client, one on   *)
(* the server, and the client's background pusher between them.            *)
(*                                                                         *)
(* Nobody forces a push.  A client whose line does not extend the server's *)
(* (a second client of the player, a client that lost its repository) is   *)
(* refused, takes the server's line for its own, and commits its working   *)
(* tree on top.  One task is in play.                                      *)
(*                                                                         *)
(* A commit is its client, a number, and whether it opens or closes the    *)
(* task.  A client's commit holds what the client had at all its lower     *)
(* numbers: a tree commit stages everything, and the others are made on    *)
(* top of one.                                                             *)
(***************************************************************************)
EXTENDS Integers, Sequences, FiniteSets

CONSTANTS Clients,
          Work,       \* bound: commits of each client after its first
          Retries,    \* how many delays BACKOFF_SECS has
          MaxBreaks   \* bound: failed commands, refusals, crashes

\* MCParts assumes it.
DelaysAssumption == Retries \in Nat /\ MaxBreaks \in Nat

VARIABLES
  main,     \* refs/heads/main of each client's repository
  store,    \* and of the server's
  made,     \* commits each client ever made
  open,     \* the clients that run
  started,  \* clients whose started_tasks holds the task
  filed,    \* clients whose committed_tasks holds it
  dirty,    \* clients whose memory files differ from their head's
  queue,    \* the pusher's channel: a plain request, and callers that wait
  waiters,  \* the callers that the push under way will answer
  push,     \* the pusher, see Pushers
  ledger,   \* PushLedger: pushed, replaced, and whether an error stands
  caller,   \* memory sync and flag watch: idle, committed, waiting; its commit
  \* history:
  told,     \* the highest commit of a caller that was told "pushed"
  unheard,  \* clients with an edit the server was not told of
  breaks

repos  == <<main, made, started, filed, dirty>>
pusher == <<queue, waiters, push, ledger>>
seen   == <<told, unheard, breaks>>
vars   == <<repos, store, open, pusher, caller, seen>>

Waiting == {"memory", "flag"}
Commits == [by : Clients, n : Nat, kind : {"start", "feat", "tree"}]

\* push, ready (it read the head), sent (git read main and the server's ref),
\* recover, fetched (it holds the repository's lock), backoff.
Pushers == [at : {"idle", "push", "ready", "sent", "recover", "fetched", "backoff"},
            head : Nat, pack : Nat, base : Nat, tries : 0..Retries, again : BOOLEAN]
Resting == [at |-> "idle", head |-> 0, pack |-> 0, base |-> 0, tries |-> 0, again |-> FALSE]

TypeOK ==
  /\ main \in [Clients -> Seq(Commits)] /\ store \in Seq(Commits)
  /\ made \in [Clients -> Nat] /\ open \subseteq Clients
  /\ started \subseteq Clients /\ filed \subseteq Clients /\ dirty \subseteq Clients
  /\ queue \in [Clients -> [plain : BOOLEAN, replies : SUBSET Waiting]]
  /\ waiters \in [Clients -> SUBSET Waiting] /\ push \in [Clients -> Pushers]
  /\ ledger \in [Clients -> [pushed : SUBSET Commits, replaced : SUBSET Commits,
                             failed : BOOLEAN]]
  /\ caller \in [Clients -> [Waiting -> [at : {"idle", "committed", "waiting"}, n : Nat]]]
  /\ told \in [Clients -> Nat] /\ unheard \subseteq Clients /\ breaks \in 0..MaxBreaks

Line(s)     == {s[i] : i \in DOMAIN s}
Upto(s, n)  == SubSeq(s, 1, n)
Extends(s, t) == Len(t) <= Len(s) /\ Upto(s, Len(t)) = t
HasStart(s) == \E k \in Line(s) : k.kind = "start"
Smooth == UNCHANGED breaks
Break  == breaks < MaxBreaks /\ breaks' = breaks + 1
Silent  == [plain |-> FALSE, replies |-> {}]
Nothing == [at |-> "idle", n |-> 0]
NoPush  == [pushed |-> {}, replaced |-> {}, failed |-> FALSE]

Init ==
  /\ main = [c \in Clients |-> <<>>] /\ store = <<>> /\ made = [c \in Clients |-> 0]
  /\ open = {} /\ started = {} /\ filed = {} /\ dirty = {}
  /\ queue = [c \in Clients |-> Silent] /\ waiters = [c \in Clients |-> {}]
  /\ push = [c \in Clients |-> Resting] /\ ledger = [c \in Clients |-> NoPush]
  /\ caller = [c \in Clients |-> [k \in Waiting |-> Nothing]]
  /\ told = [c \in Clients |-> 0] /\ unheard = {} /\ breaks = 0

-----------------------------------------------------------------------------
(* Commits, made under the repository's lock *)

Free(c)      == c \in open /\ push[c].at # "fetched"
Busy(c)      == made[c] >= Work[c]
Now(c, i, k) == [by |-> c, n |-> made[c] + i, kind |-> k]
Put(c, line, new) ==
  /\ main' = [main EXCEPT ![c] = line \o new]
  /\ made' = [made EXCEPT ![c] = @ + Len(new)]
Request(c)   == queue' = [queue EXCEPT ![c].plain = TRUE]

\* new, commit_session_start, and the pusher's first request.
Open(c) ==
  /\ c \notin open /\ open' = open \cup {c}
  /\ Put(c, main[c], <<Now(c, 1, "tree")>>) /\ Request(c)
  /\ started' = IF HasStart(main[c]) THEN started \cup {c} ELSE started \ {c}
  /\ dirty' = dirty \ {c}
  /\ UNCHANGED <<filed, store, waiters, push, ledger, caller, seen>>

\* The agent writes to AGENTS.md or README.md.
Edit(c) ==
  /\ c \in open /\ ~Busy(c) /\ c \notin dirty
  /\ dirty' = dirty \cup {c} /\ unheard' = unheard \cup {c}
  /\ UNCHANGED <<main, made, started, filed, store, open, pusher, caller, told>> /\ Smooth

\* A probe arrives: the start marker once, the tree, and a request.
Probe(c) ==
  /\ Free(c) /\ ~Busy(c)
  /\ Put(c, main[c], IF c \in started THEN <<Now(c, 1, "tree")>>
                     ELSE <<Now(c, 1, "start"), Now(c, 2, "tree")>>)
  /\ started' = started \cup {c} /\ dirty' = dirty \ {c} /\ Request(c)
  /\ UNCHANGED <<filed, store, open, waiters, push, ledger, caller, seen>>

\* commit_task: the task is done, and its final snapshot is made once.
Finish(c) ==
  /\ Free(c) /\ ~Busy(c) /\ c \notin filed
  /\ Put(c, main[c], <<Now(c, 1, "feat")>>)
  /\ filed' = filed \cup {c} /\ dirty' = dirty \ {c} /\ Request(c)
  /\ UNCHANGED <<started, store, open, waiters, push, ledger, caller, seen>>

\* The callers that wait: a done-file commits the whole tree; the memory sync,
\* asked at every probe (also where no health check has the probe commit), the
\* memory files alone and only when they differ from the head's.
Commit(c, k) ==
  /\ Free(c) /\ caller[c][k].at = "idle"
  /\ IF k = "memory" THEN c \in dirty ELSE ~Busy(c)
  /\ Put(c, main[c], <<Now(c, 1, "tree")>>) /\ dirty' = dirty \ {c}
  /\ caller' = [caller EXCEPT ![c][k] = [at |-> "committed", n |-> made[c] + 1]]
  /\ UNCHANGED <<started, filed, store, open, pusher, seen>>

\* push_and_wait
Ask(c, k) ==
  /\ Free(c) /\ caller[c][k].at = "committed"
  /\ caller' = [caller EXCEPT ![c][k].at = "waiting"]
  /\ queue' = [queue EXCEPT ![c].replies = @ \cup {k}]
  /\ UNCHANGED <<repos, store, open, waiters, push, ledger, seen>>

-----------------------------------------------------------------------------
(* The pusher *)

Asked(c) == queue[c] # Silent
Drain(c) == /\ waiters' = [waiters EXCEPT ![c] = @ \cup queue[c].replies]
            /\ queue' = [queue EXCEPT ![c] = Silent]
At(c, st) == c \in open /\ push[c].at = st
Go(c, st) == push' = [push EXCEPT ![c].at = st]

Take(c) ==
  /\ At(c, "idle") /\ Asked(c) /\ Drain(c) /\ Go(c, "push")
  /\ UNCHANGED <<repos, store, open, ledger, caller, seen>>

\* local_head
Begin(c) ==
  /\ At(c, "push")
  /\ push' = [push EXCEPT ![c].at = "ready", ![c].head = Len(main[c])]
  /\ UNCHANGED <<repos, store, open, queue, waiters, ledger, caller, seen>>

\* Mutant: requests that came while the push ran are answered by it.
ReplyLate(c, landed) ==
  LET ks == waiters[c] \cup queue[c].replies IN
  /\ push' = [push EXCEPT ![c] = Resting] /\ waiters' = [waiters EXCEPT ![c] = {}]
  /\ queue' = [queue EXCEPT ![c] = Silent]
  /\ caller' = [caller EXCEPT ![c] = [k \in Waiting |-> IF k \in ks THEN Nothing ELSE @[k]]]
  /\ told' = [told EXCEPT ![c] =
       CHOOSE m \in {@} \cup {caller[c][k].n : k \in ks} :
         IF landed THEN \A k \in ks : caller[c][k].n <= m /\ @ <= m ELSE m = @]
  /\ unheard' = IF landed /\ "memory" \in ks /\ c \notin dirty THEN unheard \ {c} ELSE unheard

\* The callers hear the outcome; the memory sync passes on that it landed.
Reply(c, landed) ==
  LET ks == waiters[c] IN
  /\ push' = [push EXCEPT ![c] = Resting] /\ waiters' = [waiters EXCEPT ![c] = {}]
  /\ caller' = [caller EXCEPT ![c] = [k \in Waiting |-> IF k \in ks THEN Nothing ELSE @[k]]]
  /\ told' = [told EXCEPT ![c] =
       CHOOSE m \in {@} \cup {caller[c][k].n : k \in ks} :
         IF landed THEN \A k \in ks : caller[c][k].n <= m /\ @ <= m ELSE m = @]
  /\ unheard' = IF landed /\ "memory" \in ks /\ c \notin dirty THEN unheard \ {c} ELSE unheard
  /\ UNCHANGED queue

\* Pushed: the ledger takes the head that was read, with the line behind it.
Pushed(c) ==
  /\ ledger' = [ledger EXCEPT ![c].pushed = @ \cup Line(Upto(main[c], push[c].head)),
                              ![c].failed = FALSE]
  /\ Reply(c, TRUE)

Fails(c) == ledger' = [ledger EXCEPT ![c].failed = TRUE]

\* Rejected: one recovery, or the end of the attempt.
Rejected(c) ==
  /\ Fails(c)
  /\ IF push[c].again
       THEN Reply(c, FALSE)
       ELSE /\ push' = [push EXCEPT ![c].at = "recover", ![c].again = TRUE]
            /\ UNCHANGED <<queue, waiters, caller, told, unheard>>

\* Mutant: a killed command leaves no error.
KilledQuietly(c) == UNCHANGED ledger /\ Reply(c, FALSE)

\* Timeout: the next commit asks again.
Killed(c) == Fails(c) /\ Reply(c, FALSE)

\* Failed: a delay, unless they are used up.
Failed(c) ==
  /\ Fails(c)
  /\ IF push[c].tries = Retries
       THEN Reply(c, FALSE)
       ELSE /\ push' = [push EXCEPT ![c].at = "backoff", ![c].tries = @ + 1]
            /\ UNCHANGED <<queue, waiters, caller, told, unheard>>

\* git reads main and the server's ref, and sees whether one extends the other.
Send(c) ==
  /\ At(c, "ready")
  /\ \/ /\ Extends(main[c], store) /\ Smooth
        /\ push' = [push EXCEPT ![c].at = "sent", ![c].pack = Len(main[c]),
                                ![c].base = Len(store)]
        /\ UNCHANGED <<queue, waiters, ledger, caller, told, unheard>>
     \/ ~Extends(main[c], store) /\ Rejected(c) /\ Smooth
     \/ Failed(c) /\ Break
  /\ UNCHANGED <<repos, store, open>>

\* The server sets its ref, unless another push has (nothing is asked of it where
\* the line was the server's already); the answer may be lost, the command be
\* killed, or the server refuse for reasons of its own.
Land(c) ==
  /\ At(c, "sent")
  /\ \/ push[c].pack = push[c].base /\ Pushed(c) /\ UNCHANGED store /\ Smooth
     \/ /\ Len(store) = push[c].base /\ store' = Upto(main[c], push[c].pack)
        /\ \/ Pushed(c) /\ Smooth
           \/ (Failed(c) \/ Killed(c)) /\ Break
     \/ /\ UNCHANGED store
        /\ \/ Len(store) # push[c].base /\ push[c].pack # push[c].base
              /\ Rejected(c) /\ Smooth
           \/ (Failed(c) \/ Killed(c) \/ Rejected(c)) /\ Break
  /\ UNCHANGED <<repos, open>>

\* recover_from_remote: the fetch, under the repository's lock, of a line that
\* may not be there yet,
Fetch(c) ==
  /\ At(c, "recover")
  /\ \/ /\ store # <<>> /\ Smooth
        /\ push' = [push EXCEPT ![c].at = "fetched", ![c].base = Len(store)]
        /\ UNCHANGED <<waiters, queue, caller, told, unheard>>
     \/ Reply(c, FALSE) /\ (IF store = <<>> THEN Smooth ELSE Break)
  /\ UNCHANGED <<repos, store, open, ledger>>

\* and the working tree on top of what was fetched.
Resync(c) ==
  /\ At(c, "fetched") /\ Go(c, "push")
  /\ LET theirs == Upto(store, push[c].base) IN
       /\ Put(c, theirs, <<Now(c, 1, "tree")>>)
       /\ started' = IF HasStart(theirs) THEN started \cup {c} ELSE started \ {c}
  /\ ledger' = [ledger EXCEPT ![c].replaced = @ \cup Line(main[c])]
  /\ dirty' = dirty \ {c}
  /\ UNCHANGED <<filed, store, open, queue, waiters, caller, seen>>

\* Mutant: only a request ends the delay.
WakeAsked(c) ==
  /\ At(c, "backoff") /\ Asked(c) /\ Go(c, "push") /\ Drain(c)
  /\ UNCHANGED <<repos, store, open, ledger, caller, seen>>

\* The delay is over, or a request cuts it short and is answered too.
Wake(c) ==
  /\ At(c, "backoff") /\ Go(c, "push")
  /\ Drain(c) \/ UNCHANGED <<queue, waiters>>
  /\ UNCHANGED <<repos, store, open, ledger, caller, seen>>

\* The client dies; its repository stays, and a push may yet have landed.
Crash(c) ==
  /\ c \in open /\ Break /\ open' = open \ {c} /\ filed' = filed \ {c}
  /\ \/ UNCHANGED store
     \/ At(c, "sent") /\ Len(store) = push[c].base /\ store' = Upto(main[c], push[c].pack)
  /\ queue' = [queue EXCEPT ![c] = Silent] /\ waiters' = [waiters EXCEPT ![c] = {}]
  /\ push' = [push EXCEPT ![c] = Resting] /\ ledger' = [ledger EXCEPT ![c] = NoPush]
  /\ caller' = [caller EXCEPT ![c] = [k \in Waiting |-> Nothing]]
  /\ UNCHANGED <<main, made, started, dirty, told, unheard>>

-----------------------------------------------------------------------------
Pusher(c) == Take(c) \/ Begin(c) \/ Send(c) \/ Land(c) \/ Fetch(c) \/ Resync(c) \/ Wake(c)

Next == \E c \in Clients :
  \/ Open(c) \/ Edit(c) \/ Probe(c) \/ Finish(c) \/ Crash(c) \/ Pusher(c)
  \/ \E k \in Waiting : Commit(c, k) \/ Ask(c, k)

Spec == Init /\ [][Next]_vars

\* The tasks of a running client go on, commands end or are killed at their
\* cap, and the memory sync is called at every probe.
Fairness == \A c \in Clients :
  /\ WF_vars(Pusher(c)) /\ WF_vars(Commit(c, "memory"))
  /\ \A k \in Waiting : WF_vars(Ask(c, k))

FairSpec == Spec /\ Fairness

-----------------------------------------------------------------------------
(* Properties *)

Has(c, n) == \E k \in Line(store) : k.by = c /\ k.n >= n

\* "The server is not told anything it cannot yet read" (memory_sync.rs:99),
\* and no commit is reported pushed that the server does not have, through
\* coalesced requests, refusals, resyncs and a second client.
PushedIsThere == \A c \in Clients :
  /\ told[c] > 0 => Has(c, told[c])
  /\ ledger[c].pushed \subseteq Line(store)

\* A client whose pusher rests has nothing that the server lacks, or an error
\* stands: no commit is forgotten while requests coalesce.
NoSilentLag == \A c \in open :
  /\ push[c].at = "idle" /\ ~Asked(c) /\ (\A k \in Waiting : caller[c][k].at = "idle")
  => ledger[c].failed \/ Has(c, made[c])

\* The task is opened once on every line, by whichever client was first.
OneStartMarker == \A s \in {store} \cup {main[c] : c \in Clients} :
  Cardinality({i \in DOMAIN s : s[i].kind = "start"}) <= 1

\* A caller that waits for the push of its commit is answered.
CallersAnswered == \A c \in Clients : \A k \in Waiting :
  []<>(caller[c][k].at # "waiting")

\* "Nothing the player has is lost" (snapshot/mod.rs:1093): the final snapshot
\* of a task is on the client's line as long as the client runs.
FinalSnapshotStays == \A c \in filed :
  \E k \in Line(main[c]) \cup Line(store) : k.by = c /\ k.kind = "feat"

\* An edit of a memory file reaches the server before the task ends
\* (memory_sync.rs:9): while no crash and no failure stands in the way.
EditIsHeard == \A c \in Clients : c \in unheard ~> (c \notin unheard \/ breaks > 0)
=============================================================================
