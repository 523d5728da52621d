---------------------------- MODULE ServerFleet ----------------------------
(***************************************************************************)
(* Game servers as the main server knows them: their rows, kept by         *)
(* registration and heartbeats; the choice of a server for a new session;  *)
(* the way a player's seeker finds that server, again and again; and the   *)
(* main server's subscriptions to the servers' events.                     *)
(*                                                                         *)
(* A row belongs to an advertised URL, and here a server is its URL.  The  *)
(* id in the row is the process's: configured, or drawn at every start.    *)
(***************************************************************************)
EXTENDS Integers, FiniteSets

CONSTANTS Servers,    \* advertised URLs
          Stable,     \* the servers that are started with a GAME_SERVER_ID
          Capacity,   \* GAME_SERVER_CAPACITY of each
          Sessions,
          MaxMishaps, \* bound: crashes, missed heartbeats, admin's changes,
                      \* lost subscriptions, restarts of the main server
          None

\* What a run must give; MCParts and MCServerFleet assume it.
FleetAssumption ==
  /\ IsFiniteSet(Servers) /\ Stable \subseteq Servers
  /\ Capacity \in [Servers -> Nat] /\ MaxMishaps \in Nat

VARIABLES
  alive,      \* servers whose process runs
  id,      \* server_id of the process that runs there, or ran last
  row,     \* game_servers: id, status, fresh (heartbeat within the cutoff),
           \* active_sessions; or None
  life,    \* a session: unborn, creating, lobby, running, ended
  pick,    \* the id that the creating request chose
  owner,   \* game_server_id: a server and an id
  seeker,  \* a player's seeker: resolve, dial, connected, done
  dialled, \* the URL the seeker was given
  task,    \* subscriber_tasks, per server and id: absent, connecting,
           \* listening, pausing (to reconnect), finished (and not noticed)
  mishaps

fleet  == <<alive, id, row>>
play   == <<life, pick, owner>>
player == <<seeker, dialled>>
vars   == <<fleet, play, player, task, mishaps>>

Ids     == 0..MaxMishaps
Names   == Servers \X Ids
Statuses == {"active", "draining", "inactive"}
Rows    == [id : Ids, status : Statuses, fresh : BOOLEAN, count : 0..Cardinality(Sessions)]

TypeOK ==
  /\ alive \subseteq Servers /\ id \in [Servers -> Ids]
  /\ row \in [Servers -> Rows \cup {None}]
  /\ life \in [Sessions -> {"unborn", "creating", "lobby", "running", "ended"}]
  /\ pick \in [Sessions -> Names \cup {None}] /\ owner \in [Sessions -> Names \cup {None}]
  /\ seeker \in [Sessions -> {"resolve", "dial", "connected", "done"}]
  /\ dialled \in [Sessions -> Servers \cup {None}]
  /\ task \in [Names -> {"absent", "connecting", "listening", "pausing", "finished"}]
  /\ mishaps \in 0..MaxMishaps

Init ==
  /\ alive = {} /\ id = [s \in Servers |-> 0] /\ row = [s \in Servers |-> None]
  /\ life = [x \in Sessions |-> "unborn"]
  /\ pick = [x \in Sessions |-> None] /\ owner = [x \in Sessions |-> None]
  /\ seeker = [x \in Sessions |-> "resolve"] /\ dialled = [x \in Sessions |-> None]
  /\ task = [n \in Names |-> "absent"] /\ mishaps = 0

Mishap == mishaps < MaxMishaps /\ mishaps' = mishaps + 1
Smooth   == UNCHANGED mishaps

Live(x) == life[x] \in {"lobby", "running"}

-----------------------------------------------------------------------------
(* The game server *)

\* What an administrator set is kept; all else is as after a start.
Kept(r) == IF r # None /\ r.status # "active" THEN r.status ELSE "active"

\* The process starts: under its id the row is updated, under a new one the
\* URL's old row is deleted and another is inserted.
Register(s) ==
  LET drawn == row[s] # None /\ s \notin Stable
      count    == IF row[s] = None \/ drawn THEN 0 ELSE row[s].count
  IN /\ s \notin alive /\ alive' = alive \cup {s}
     /\ id' = [id EXCEPT ![s] = IF drawn THEN @ + 1 ELSE @]
     /\ row' = [row EXCEPT ![s] = [id |-> id'[s], status |-> Kept(row[s]),
                                   fresh |-> TRUE, count |-> count]]
     /\ UNCHANGED <<play, player, task>> /\ Smooth

Running(s) == {x \in Sessions : life[x] = "running" /\ owner[x] = <<s, id[s]>>}

\* Mutant: the heartbeat counts, and does not say when.
HeartbeatCounts(s) ==
  /\ s \in alive /\ row' = [row EXCEPT ![s].count = Cardinality(Running(s))]
  /\ UNCHANGED <<alive, id, play, player, task>> /\ Smooth

\* send_heartbeat: the sessions that run, of its own.
Heartbeat(s) ==
  /\ s \in alive
  /\ row' = [row EXCEPT ![s].fresh = TRUE, ![s].count = Cardinality(Running(s))]
  /\ UNCHANGED <<alive, id, play, player, task>> /\ Smooth

\* Its last heartbeat is older than the cutoff.
Age(s) ==
  /\ row[s] # None /\ row[s].fresh
  /\ row' = [row EXCEPT ![s].fresh = FALSE]
  /\ IF s \in alive THEN Mishap ELSE Smooth
  /\ UNCHANGED <<alive, id, play, player, task>>

\* The connections break with the process.
Crash(s) ==
  /\ s \in alive /\ alive' = alive \ {s} /\ Mishap
  /\ seeker' = [x \in Sessions |->
                  IF seeker[x] = "connected" /\ dialled[x] = s THEN "dial" ELSE seeker[x]]
  /\ UNCHANGED <<id, row, play, dialled, task>>

-----------------------------------------------------------------------------
(* The main server's requests *)

\* patch_one: a server is not disabled while its row counts a session.
SetStatus(s) ==
  /\ row[s] # None /\ Mishap
  /\ \E status \in Statuses \ {row[s].status} :
       /\ status = "inactive" => row[s].count = 0
       /\ row' = [row EXCEPT ![s].status = status]
  /\ UNCHANGED <<alive, id, play, player, task>>

Candidates == {s \in Servers : row[s] # None /\ row[s].status = "active" /\ row[s].fresh}
LeastLoaded == {s \in Candidates : \A t \in Candidates : row[s].count <= row[t].count}

\* create_session inserts the row, and reads whom to assign it to.
Choose(x) ==
  /\ life[x] = "unborn" /\ life' = [life EXCEPT ![x] = "creating"]
  /\ \/ /\ Candidates = {} /\ UNCHANGED pick
     \/ \E s \in LeastLoaded :
          pick' = [pick EXCEPT ![x] = IF row[s].count < Capacity[s]
                                        THEN <<s, row[s].id>> ELSE None]
  /\ UNCHANGED <<fleet, owner, player, task>> /\ Smooth

\* The write, and the answer to the player, who goes to look for the server.
Assign(x) ==
  /\ life[x] = "creating" /\ life' = [life EXCEPT ![x] = "lobby"]
  /\ owner' = [owner EXCEPT ![x] = pick[x]] /\ pick' = [pick EXCEPT ![x] = None]
  /\ UNCHANGED <<fleet, player, task>> /\ Smooth

\* The clocks and people that start and end a session.
Proceed(x) ==
  /\ Live(x)
  /\ \/ life[x] = "lobby" /\ life' = [life EXCEPT ![x] = "running"]
        /\ UNCHANGED seeker
     \/ /\ life' = [life EXCEPT ![x] = "ended"]
        /\ seeker' = [seeker EXCEPT ![x] = IF @ = "connected" THEN "done" ELSE @]
  /\ UNCHANGED <<fleet, pick, owner, dialled, task>> /\ Smooth

\* resolve_session: 410, 503 and a retry, or the server's URL.
Resolvable(x) ==
  /\ Live(x) /\ owner[x] # None
  /\ LET r == row[owner[x][1]] IN
       r # None /\ r.id = owner[x][2] /\ r.status = "active" /\ r.fresh

Resolve(x) ==
  /\ seeker[x] = "resolve"
  /\ \/ /\ life[x] = "ended" /\ seeker' = [seeker EXCEPT ![x] = "done"]
        /\ UNCHANGED dialled
     \/ /\ Resolvable(x) /\ seeker' = [seeker EXCEPT ![x] = "dial"]
        /\ dialled' = [dialled EXCEPT ![x] = owner[x][1]]
  /\ UNCHANGED <<fleet, play, task>> /\ Smooth

-----------------------------------------------------------------------------
(* The player's seeker and the server's upgrade handler *)

Accepts(s, x) == s \in alive /\ Live(x) /\ owner[x] = <<s, id[s]>>

\* Accepted, or the attempts at this URL are used up and it asks again.
Dial(x) ==
  /\ seeker[x] = "dial"
  /\ seeker' = [seeker EXCEPT ![x] = IF Accepts(dialled[x], x) THEN "connected"
                                     ELSE "resolve"]
  /\ UNCHANGED <<fleet, play, dialled, task>> /\ Smooth

-----------------------------------------------------------------------------
(* The main server's subscriptions *)

Listed == {<<s, row[s].id>> : s \in {t \in Servers : row[t] # None /\ row[t].status = "active"}}

\* Mutant: an entry whose task ended stays.
DiscoverKeepsFinished ==
  /\ task' = [n \in Names |->
       IF n \in Listed /\ task[n] = "absent" THEN "connecting" ELSE task[n]]
  /\ UNCHANGED <<fleet, play, player>> /\ Smooth

\* zmq_discovery_loop: rows without an entry first, finished entries then.
Discover ==
  /\ task' = [n \in Names |->
       IF n \in Listed /\ task[n] = "absent" THEN "connecting"
       ELSE IF task[n] = "finished" THEN "absent" ELSE task[n]]
  /\ UNCHANGED <<fleet, play, player>> /\ Smooth

Becomes(n, st) == task' = [task EXCEPT ![n] = st]

\* connect: the library may fail, at once or later, when nobody listens there.
Connect(n) ==
  /\ task[n] \in {"connecting", "pausing"}
  /\ \/ n[1] \in alive /\ Becomes(n, "listening")
     \/ n[1] \notin alive /\ Becomes(n, "finished")
     \/ n[1] \notin alive /\ Becomes(n, "listening")
  /\ UNCHANGED <<fleet, play, player>> /\ Smooth

\* recv returned None: a second's pause, and one attempt to reconnect.
LoseEvents(n) ==
  /\ task[n] = "listening" /\ Becomes(n, "pausing")
  /\ IF n[1] \in alive THEN Mishap ELSE Smooth
  /\ UNCHANGED <<fleet, play, player>>

\* spawn_zmq_subscribers on an empty registry.
RestartMain ==
  /\ Mishap
  /\ task' = [n \in Names |-> IF n \in Listed THEN "connecting" ELSE "absent"]
  /\ UNCHANGED <<fleet, play, player>>

-----------------------------------------------------------------------------
Next ==
  \/ \E s \in Servers :
       Register(s) \/ Heartbeat(s) \/ Age(s) \/ Crash(s) \/ SetStatus(s)
  \/ \E x \in Sessions : Choose(x) \/ Assign(x) \/ Proceed(x) \/ Resolve(x) \/ Dial(x)
  \/ \E n \in Names : Connect(n) \/ LoseEvents(n)
  \/ Discover \/ RestartMain

Spec == Init /\ [][Next]_vars

\* Loops and tasks of running processes; a server may stay down, a session
\* may go on for ever, and nothing the administrator does is promised.
Fairness ==
  /\ \A s \in Servers : WF_vars(Heartbeat(s))
  /\ \A x \in Sessions : WF_vars(Resolve(x)) /\ WF_vars(Dial(x)) /\ WF_vars(Assign(x))
  /\ WF_vars(Discover) /\ \A n \in Names : WF_vars(Connect(n))

FairSpec == Spec /\ Fairness

-----------------------------------------------------------------------------
(* Properties *)

\* A session on a server with an id of its own: whatever crashes and pauses
\* there were, its players reach the server if that runs and is active
\* (resolve.rs:188, heartbeat.rs:19, player_ws.rs:126).
Served(x) ==
  /\ Live(x) /\ owner[x] # None /\ owner[x][1] \in alive \cap Stable
  /\ row[owner[x][1]].status = "active"
Reached == \A x \in Sessions : []<>(Served(x) => seeker[x] = "connected")

\* The pages hear every active server again, however its subscription ended
\* (zmq_sub.rs:107, main.rs:529).
Hears(s) == \E i \in Ids : task[<<s, i>>] = "listening"
Heard == \A s \in Servers : []<>(s \in alive /\ row[s].status = "active" => Hears(s))

\* "Max concurrent sessions per game server" (README.md:221).
CapacityKept == \A s \in alive : Cardinality(Running(s)) <= Capacity[s]

\* "all game servers at capacity" (sessions/create.rs:190).
RoomIsUsed ==
  [][\A x \in Sessions :
       /\ life[x] = "unborn" /\ life'[x] = "creating" /\ pick'[x] = None
       => \A s \in Candidates : row[s].count >= Capacity[s]]_vars

\* "server has active sessions" (server/src/api/game_servers.rs:42): a server
\* with live sessions is not disabled.
DisabledIsEmpty ==
  [][\A s \in Servers :
       /\ row[s] # None /\ row[s].status # "inactive" /\ row'[s].status = "inactive"
       => ~\E x \in Sessions : Live(x) /\ owner[x] = <<s, row[s].id>>]_vars

\* Each event reaches the pages once.
HeardOnce == \A s \in Servers : Cardinality({i \in Ids : task[<<s, i>>] = "listening"}) <= 1

\* "no game server assigned yet" (ololo/src/player_ws/connect.rs:49): the
\* seeker retries until one is.
EventuallyAssigned ==
  \A x \in Sessions : (Live(x) /\ owner[x] = None) ~> (owner[x] # None \/ ~Live(x))

\* A server that drains keeps its sessions' players and pages.
DrainingHeard == \A s \in Servers :
  []<>(s \in alive /\ row[s].status = "draining" /\ Running(s) # {} => Hears(s))
=============================================================================
