# Verification of the ololo session servers

TLA+ models of the parts of ololo in which several tasks and processes write the
same rows, files or connections, TLC configurations that check them on small
instances, and machine-checked proofs that the most important properties hold for
every number of players, requests, connections, judge runs and crashes.

Paths in this file are relative to the repository root.

| module | what it is |
|---|---|
| `SessionRow` | the `sessions` row: its columns, the transition rule, each writer's column-wise write |
| `SessionLifecycle` | the life of one session in two processes that share only that row |
| `SessionPromise` | what players and spectators may rely on; implemented by `SessionLifecycle` |
| `PauseClock` | the timestamps of one running session and the countdown computed from them |
| `JudgeRuns` | the judge runs of a finished session: six drivers, one row per pair |
| `Presence` | the connection registry, the presence columns, the idle sweep |
| `TaskOrder` | tasks close one after the other; implemented by `TaskScheduler` |
| `TaskScheduler` | the probe loop over scheduler row, tests, probes and bonus rows, with a second handler of the player |
| `ProbeExchange` | probes and answers between that loop and the client, in time |
| `ArtifactRequests` | what the judges of one task ask of a participant, and how they come to a verdict |
| `Health` | the health checkpoints of one task and its bonus |
| `ServerFleet` | game servers, assignment, the players' seekers, the event subscriptions |
| `DashboardFeed` | from an event to a page: router, cache, frames, the browser's version gate |
| `QuotaParameters`, `Quota` | the metering of judge runs and purchased credits |
| `RefreshTokens` | rotation of a refresh token several callers share |
| `SnapshotPush` | the client's repository, its background pusher, the server's repository, a second client |
| `MCSessionLifecycle`, `MCJudgeRuns`, `MCPresence`, `MCTaskScheduler`, `MCArtifactRequests`, `MCHealth` | model values and bounds for TLC |
| `MCParts`, `MCPages` | several parts that share no state, in one run: the initial state picks the part that takes the steps |
| `MCQuota`, `MCServerFleet`, `MCSnapshotPush` | instances for the configurations run by hand |
| `SessionLifecycleProofs`, `JudgeRunsProofs`, `PresenceProofs`, `TaskSchedulerProofs`, `ArtifactRequestsProofs`, `HealthProofs` | theorems about the module each is named after |
| `PartsProofs` | theorems about the parts of `MCParts`: `ProbeExchange`, `Quota`, `RefreshTokens`, `SnapshotPush` |
| `PagesProofs` | theorems about the parts of `MCPages`: `PauseClock`, `DashboardFeed` |

## The system

ololo runs coding competitions. Players solve the tasks of a project during a
timed session while the server probes the services they build; when the session
ends, language-model judges and scoring programs evaluate what they did. Two
server processes and one database do the work:

- the **main server** (`src/server`) serves the REST API, creates sessions,
  assigns each to a game server, and keeps a backup countdown per session;
- a **game server** (`src/game-server`) holds the sockets of the players' agents,
  runs countdowns, probe loops, judges and recovery;
- **arena-core** (`src/arena-core`) is the library of rules both use: status
  transitions, completion, scoring, judging, health, quota.

The processes do not call one another. They share the rows of the database and
nothing locks a row between a read and the write decided on it; events go one
way, from the game server to the main server, over a ZeroMQ PUB socket.

### Components

**Session lifecycle** (`server/src/api/sessions/{create,read,common}.rs`,
`game-server/src/ws/session_lifecycle.rs`, `state.rs`, `recovery.rs`,
`idle_sweep.rs`). *State:* `sessions.status`, `started_at`, `paused_at`,
`paused_duration_secs`, `finished_at`; the game server's in-memory registry entry
per session; countdown tasks in both processes. *Operations:* create, PATCH
(start, pause, resume, finish, cancel), DELETE, lobby countdown, running
countdown, startup recovery, idle cancellation, finish when all players are
done, implicit start on a player's first dispatch. *Hard:* seven kinds of
writers of one row, five of them unconditional updates by primary key on a row
read earlier; crash and restart of either process; a countdown in each process
for the same session. *Correct when:* the columns agree with the status, an ended
session stays ended, judging starts once, an overdue session ends.

**Session clock** (`state.rs:136-165`, `create.rs:447-474`,
`read.rs:580-617`, `scheduler.rs:1180-1196`). *State:* the timestamps. *Hard:* two
independent truncations to whole seconds, repeated pauses, a start that moves
`started_at` but not the accumulated pause. *Correct when:* the remaining time
accounts for the time really played.

**Judge pipeline and settlement** (`game-server/src/judge_queue.rs`,
`recovery.rs`, `probe_scheduler.rs`, `state.rs:208-420`). *State:* one
`judge_results` row per (player, task judge), the in-memory runs, claims and
snapshots. *Operations:* dispatch after a task's commit, settle chain after the
finish, missed-run and orphan sweeps at startup and every few minutes, re-drives
of rows that wait for a participant, re-runs by hand, the reaper after 24 hours.
*Hard:* six drivers that do not know of one another; all scheduling is lost with
the process; admission control drops work. *Correct when:* points stand only
under a verdict, no row says `running` for nothing, every pair ends with a
verdict, the standings are announced as final.

**Connection registry and presence** (`game-server/src/ws/player_agent/`
`{registry_guard,presence,upgrade,socket}.rs`, `idle_sweep.rs`). *State:* the
registered channel per player, `players.agent_connected`,
`agent_last_seen_at`, goodbye tasks. *Hard:* a reconnect overlaps with the older
handler's teardown; announcement and withdrawal are separate database writes; a
crash leaves stale flags. *Correct when:* the newest connection keeps its
channel, no ghost is shown as connected, no session is cancelled under
players who are there.

**Player-agent handler and task scheduler** (`ws/player_agent/{socket,scheduler,
grading,interval,scoring,probe_action}.rs`). *State:* the scheduler row per
player, tests, probes, bonus rows. *Operations:* bootstrap, adaptation of tests,
choice and dispatch of a probe, grading, close, hold of the last open-ended task
for its judges, advance, bonus. *Hard:* a superseded handler that is still in the
body of its loop; failed queries read as "no next task"; two players entering a
task together; answers that cross the next probe's wait; a client that is behind.
*Correct when:* a pass means that the agent answered that probe, tasks close in
order, the bonus is for completing, a held player is released, a player who is
asked for permission is heard out.

**Probe scheduler and judge registrar** (`probe_scheduler.rs`,
`judge_registrar.rs`). *State:* requests (rows of `tests`), watchers, deliveries.
*Operations:* registration with look, joining and insert, polls, delivery by git,
expiry, re-drive. *Hard:* look-then-insert without a constraint; the re-drive
decides on rows that change under it. *Correct when:* budgets hold, a verdict not
marked partial had every answer, no judge waits for ever.

**Health checkpoints** (`health.rs`). *State:* one row per commit, the bonus row,
workers in memory. *Hard:* the wait for the final snapshot is in memory;
look-then-insert of the bonus. *Correct when:* the bonus is paid once and on the
right tree, no checkpoint stays pending.

**Server assignment, heartbeat and event bus** (`heartbeat.rs`, `create.rs`,
`resolve.rs`, `zmq_pub.rs`, `zmq_sub.rs`, `main.rs`). *State:* rows of
`game_servers`, `sessions.game_server_id`, one subscriber task per server.
*Hard:* counts as old as the last heartbeat, ids that change at a restart, delivery
at most once, subscriptions that end. *Correct when:* players reach the server
their session lives on, the main server comes to listen to every server again.

**Pages** (`server/src/ws/session.rs`, `zmq_sub.rs`, `create.rs`, the browser's
`ws-session.svelte.ts`). *State:* entry, cached phase and version per session, the
page's last version. *Hard:* frames stamped under a lock and sent after it, four
writers of an ending, a page that comes back. *Correct when:* a connected page
shows the verdicts and the phase of the rows.

**Quota** (`arena-core/src/quota.rs`, `settings/write.rs`) and **refresh tokens**
(`auth/refresh.rs`). Statements of their own, outside a transaction. *Correct when:*
credits balance, the allowance is overshot by the runs under way at most; callers
that overlap do not log each other out.

**Snapshots** (`ololo/src/snapshot/`, `memory_sync.rs`, `flag_watch.rs`,
`git_store.rs`). *State:* two repositories per client, the pusher's queue and
ledger. *Hard:* requests that coalesce, lost answers, refusals, resyncs on a second
client's line. *Correct when:* nothing is reported pushed that is not there, nothing
lags silently.

**Everything else** (scoring arithmetic, campaigns, personal projects, joins, rate
limiter, stores, sandbox, providers, catalogue API, settings, email, the rest of CLI
and frontend, bundled content): the list with the reasons is in `PROJECT.json`,
"components", and under "What is not modelled".

### Interactions

```
 owner --PATCH/DELETE--> main server ----+                   +---- game server <--socket-- player clients
                        backup countdown |                   | countdowns, recovery, idle sweep      |
                                         +--> sessions row <-+ probe-loop handlers                   |
                                              players rows <-- presence, idle sweep                  |
                                              tests, probes, scheduler rows <-- handlers, registrar  |
                                              judge_results <- judge runs, sweeps, reaper            |
                                              game_servers  <- heartbeats, administrator             |
 pages <--ws-- main server <--------------- ZeroMQ PUB ------- game server                           |
                 git repositories <------------------------- push ------------------------------------+
```

Every arrow into a row is a write that nothing orders with the others. The models
are composed where the code composes through a row that both decide on
(`SessionLifecycle`: two processes and the players' handlers; `TaskScheduler`:
handlers, judges and ticker; `SnapshotPush`: clients and server), and kept apart
where one part only reads a flag of the other (a closed task in `Health`, the finish in
`JudgeRuns`, the running session in `Presence`), which then appears as an action of
the environment.

## The models and the code

### SessionRow and SessionLifecycle

`row` is the sessions row. Timestamps are kept at the precision this module needs
(`started` and `pausedAt` set or not, `finished` by its last writer); the
arithmetic is in `PauseClock`, and the clock appears as `overdue`, which is reset by
every write of `started_at`. A read followed by an unconditional write is two
actions, with whatever else in between; the two conditional UPDATEs
(`finish_session`, `cancel_idle_session`) are one.

| variable | code |
|---|---|
| `patches` | `patch_one` handlers between `find_by_id` and `update` (`read.rs:560-640`), with the row they loaded |
| `web` | the task `post_create` spawns: `lobby_timer`, then `running_timer` with the wait for the owner and the last re-read (`create.rs:280-545`) |
| `up`, `resuming` | the game-server process, and what `resume_on_startup` decided but has not spawned (`recovery.rs`) |
| `entry`, `timers` | the registry entry's cached phase, and the number of countdown tasks per stage (`session_lifecycle.rs`) |
| `idle` | `sweep_once` decided on a session and has not yet cancelled it |
| `pc`, `seen`, `sched` | per player: the handler's place, the status it read at the top of its loop, and the persisted scheduler row |
| `requested`, `crashes`, `webLost`, `revived`, `chains` | observers: nothing in the model reads them except bounds and properties |

Actions carry the name of the code step: `PatchRead`/`PatchWrite`, `DeleteOne`,
`WebLobby` to `WebFinish`, `TimerLobby` to `FinishNow`, `Crash`, `Restart`,
`ResumeRead`, `ResumeSpawn`, `ObserverConnect`, `IdleRead`/`IdleWrite`, and per
player `Connect` to `Disconnect`. The probe traffic between two passes of the
loop is `Work`; completing the last task is `LastTask`. A player's handler that
read `Paused` at its top goes through the same dispatch body as one that read
`Running`, as in `socket.rs:297-321`.

### SessionPromise

The promise leaves out processes, requests and countdowns. A session has a phase
(lobby, play, over, gone) and a set of *decisions*: writes that somebody decided
on while it was not over and has still to carry out. Deciding adds to the
set, forgetting and carrying out take from it. The phase changes in four ways: a
decision is carried out (and spent), the session is finished (from play only, and
this is the step that starts the judge chain), it is ended without judges, or it is
deleted. So an ending is undone at most as often as decisions were open
when it came, and a session nobody had decided about stays ended.

`SessionLifecycle!KeepsPromise` is `SessionPromise!Spec` under the mapping
`phase <- Phase`, `decisions <- Decisions`: the open PATCH requests that
saw a session not yet over, a lobby countdown of either process that is
about to write, and the handlers on their way into `ensure_session_running`.

### PauseClock

Time is counted in `Ticks` per second, and each difference is cut to whole
seconds as `num_seconds` does. `Pause` (with the repeated request), `Resume`,
`FirstDispatch` (`ensure_session_running` on a paused session), `EditDuration`
(the project's duration is re-read at every tick) and `Expire`. `ran`, `forgotten`,
`credit` and `pauses` observe what really happened. The races on the row are left
to `SessionLifecycle`.

### JudgeRuns

A pair is a (player, task judge). `run` holds the stage of each driver's
run of a pair: `commit` (the 90-second wait for the task's commit), `queued`
(for a permit), `judging`, `provisional` (a scored row of a run that asked the
participant for something). `pass` holds the passes of session-scoped judges,
which read the terminal rows first and take the `IN_FLIGHT` claim after. `chain`
is `expiry_judges_then_award`, `sweep` and `todo` are the two recovery
sweeps with their snapshots, `tick` the probe ticker's snapshot. Time is the age of
the finish (fresh, five minutes, twenty-four hours) and the age of a
`running` row (fresh, past the sweep's floor, an hour). `ours` says whether the
session's `game_server_id` is this process's id: without a configured
`GAME_SERVER_ID` a restart gets a new one.

Abstracted: which verdict a judge gives (a member of `Deltas`), the attempts
inside one run, semaphore permits, prompt and parsing, `verdict_kind`, and the wait
of the report for its sibling runs. `Deny` stands for each way in which a run ends
as failed before it began.

### Presence

A connection's handler is accepted, registers its channel, announces itself
and serves; when it ends, `DropGuard` removes the entry if it is its own and spawns
the goodbye task, whose look at the registry and write are two steps. `sweep` is the
idle sweep between its decision and its conditional update. Ages stop at the
timeout, beyond which the code makes no difference. The session is running from the start
(the sweep selects running sessions only), and the roster does not change.

### TaskScheduler and TaskOrder

A connection's handler goes through `pc`: the top of its loop (where it sees that it
was superseded, or that the session is over), the read of the scheduler row,
adaptation (one insert per section), the choice of the probe, its dispatch, the wait,
grading, the close of the task, the reward, the advance. Two connections of a player
may be anywhere in it, over the same rows. A test is its ordinal; requests of judges
have ordinals above `FirstRequest`. Judges appear as far as the loop sees them: runs
that wait for the commit, and a lifecycle row. Ages are flags that say whether the
phase cap has passed. `PickFails` and `AdaptFails` are the failed reads and inserts the
code goes on after. `right`, `late`, `closed`, `told`, `short` and the counters
are observers.

`TaskOrder` is the promise: the next task closes, and only when it is passed or
its window has run out; the player is told after the last. `KeepsOrder` is
`TaskOrder!Spec` with `passed` computed from the probes table, and `faulty` for the
exceptions the code makes.

### ProbeExchange

One connection in ticks: the handler dispatches, waits (extended once by the
permission window), sleeps for an interval that grows; the client commits, asks,
runs, answers, announces, redials. `behind` counts probes the client has not taken up,
and every frame remembers whether it is about the latest probe. Within a tick
everything happens in any order.

### ArtifactRequests

A judge's run looks at the requests of the task, joins one of the same content, asks
again, or inserts one (`looking`, `number`, `insert`: three steps, as in
`register_interactive`), and ends waiting or with a verdict. The participant's queue
polls; a capture passes when its file is saved and counts when it is pushed. The
ticker re-drives a waiting judge; which rows count as answered is the code's own
reading (`latest` and whatever `polls` said before). `moved` and `session` are
the environment.

### Health

A worker per report, per close and, after a restart, per row left pending; it looks
for the row, inserts it, verifies when the push is there, settles. A closer then
chooses the basis of the bonus and inserts it: two steps.

### ServerFleet

Rows by advertised URL, with the id of the process that registered last. `pick` is the
choice of `assign_game_server` before its write; the seeker resolves, dials and is
refused or connected; `task` is the main server's map of subscribers.

### DashboardFeed

The router stamps a frame under the entry's lock (`hand`) and sends it after; so does
the main server's countdown. `entry` outlives its removal as a cache and channel held by
open sockets. The page has the last version it took, its phase, and the verdicts it shows;
`missed` records why it may not know all, and the properties name the exceptions
by it. One page stands for all: pages do not interact.

### Quota, RefreshTokens, SnapshotPush

`Quota` has the three statements of `check_and_charge_judge_run` (count, guarded
spend, insert) and the two of an administrator's grant. `RefreshTokens` separates the
look at a token's row from the rotation, the reissue within the grace and the
revocation of the family; an answer may be lost. `SnapshotPush` has the pusher's step
per git command (push, its outcome, fetch, reset, backoff), the requests that coalesce
in its queue, the ledger, and the callers (memory sync, flag watch) that wait for it; a
commit is its client, a number and its kind.

## What TLC checks

`Spec` is checked for safety and `FairSpec` (`MCSpec` in `MCParts`) where a run has a
liveness property. Deadlock is not an error in any run: a finished, deleted or
cancelled session has nothing left to do, bounds are used up, and a logged-out browser
refreshes nothing.

| run | instance | what it shows |
|---|---|---|
| `SessionRaces` | one player, two PATCH requests (both may be in flight), deletion, an observer, one crash; at most two disturbances | columns agree (`StampsFollowStatus`), one chain per ending, at most one countdown without a crash and two with one, and the refinement `KeepsPromise`; 1.8 million states |
| `SessionLiveness` | two players or two requests, idle sweep and a restart of each process, fair | either countdown alone ends an overdue session; two simultaneous last finishers end it |
| `JudgeRaces` | a completed and an interrupted pair, all drivers, one disturbance | points only under a verdict; `running` means driven; one driver before the floors |
| `JudgeConverges` | a pair and a session pass, one crash, suspension or slow run, fair | standings announced; all pairs end with a verdict |
| `JudgeAbandoned` | one pair, a server id that dies | expected violation, see "Divergences" |
| `Presence` | a player with two connections and one with one, one crash, timeout of two ticks, fair | the newest stays registered, no ghosts, the full timeout to reconnect, abandoned sessions end |
| `TaskRaces` | one player, two connections, five small projects, one fault, crash or end | a pass means an answer; a section is paid twice only to two handlers; one probe once superseded; the bonus is for completing; the refinement `KeepsOrder` |
| `TaskHold` | a held task whose judges may ask, two connections one after the other, fair; 152 thousand states | a held player is released |
| `ArtifactRequests` | two judges, two captures and a command, two requests, two polls, fair; 265 thousand states | budgets and limit; a full verdict heard all; every wait ends |
| `Health` | a commit reported twice, or two closers, or a crash, fair; 137 thousand states | the bonus once and on the best tree; every checkpoint settles; a close ends in its bonus |
| `Parts` | five parts: exchange with five troubles, two servers with two mishaps, two metered runs and a grant, two callers and three tokens, two clients with a failed command; 180 thousand states | `HeardOut`, `InStepAgain`; `PlayersReach`, `PagesHear`; `CreditsBalance`; `StaysLoggedIn`; `PushedIsThere`, `NoSilentLag`, `CallersAnswered` |
| `Pages` | the countdown with 3 ticks a second, durations 1 and 2 s, 14 ticks, 3 pauses; the frames with one verdict and two disturbances; 1.4 million states | timestamps account for play; verdicts and phase are shown |

`MCParts` and `MCPages` put independent state machines in one state space: the
reachable states are the union of the parts', not their product, so a part is
covered as if it had the run to itself. Fairness is stated per part.

**Configurations without a run** show a statement violated, or check more than a run
has time for: `tlc -config X.cfg M.tla`.

| configuration | module | what it finds |
|---|---|---|
| `SessionPausedDispatch`, `SessionFirstAgent` | `MCSessionLifecycle` | `PausedSkipsDispatch`, `FirstAgentStartsCountdown` violated |
| `JudgeDoubleDrive` | `MCJudgeRuns` | `StartupDrivesAlone` violated |
| `PresenceStale` | `MCPresence` | `LiveStaysLive` violated |
| `TaskJudgesTwice` | `MCTaskScheduler` | `JudgesFireOnce` violated |
| `ProbeStale` | `ProbeExchange` | `NoResponseIsSilence` violated |
| `QuotaGrant` | `MCQuota` | `GrantIsDelta` violated |
| `FleetDoubts` | `MCServerFleet` | `CapacityKept`, `DisabledIsEmpty`, `EventuallyAssigned` violated |
| `SnapshotDoubts` | `MCSnapshotPush` | `FinalSnapshotStays`, `EditIsHeard` violated |
| `FeedDoubts` | `DashboardFeed` | `SettledIsPushed`, `EndingReached`, `WorksAfterRestart`, `ShownStays` violated |

TLC stops at the first of several; leave one in to see it. `RoomIsUsed`,
`HeardOnce` and `DrainingHeard` of `ServerFleet` can be added to `FleetDoubts.cfg`: the
first is violated where the least-loaded server is full and a larger one is
not (`TwoSizes`), the second by a server without a configured id that restarted, the
third by a draining server whose subscription ended. `OneStartMarker` of `SnapshotPush`
holds with two and three commits and no breaks (1.2 million states);
`DashboardFeed` with two disturbances throughout and one verdict has 12.7 million
states and keeps `TypeOK`, `VerdictsShown` and `PhaseShown`. A `TypeOK` that no
configuration names is proved, or was checked like these.

**Why the bounds are enough.** *Requests:* the worst the row can meet is a write
decided on an older row landing after another write; two requests in
flight give every order of two reads and two writes, also around each countdown and the
handler. *Players:* with one player every handler step interleaves with every other
writer; two are needed only where handlers meet one another, which is the
completion query and the spawn of a countdown, and `SessionLiveness`
has them. In `TaskScheduler` players share only the rows of the tests table, and the
exception that makes (`short`) is reached by one player's two handlers too.
*Crashes:* what a crash destroys is all in-memory state, and a second one
destroys what the first recovery rebuilt from the same rows; one is checked and
the theorems hold for any number. *`FewDisturbances`* (a state
constraint in `MCSessionLifecycle`) counts a crash as two requests: a crash with
two requests around it is covered by the theorems, and by
`SessionLiveness` without players. *Pairs:* the drivers treat pairs alike; one of
each origin (completed, interrupted, session-scoped) meets them all.
*Projects:* one per kind of task the loop treats in its own way; two tasks are the fewest
with an advance. *`OneDisturbance`* lets one fault, crash or end of the session happen in
a behaviour, since each sets the exceptions of the properties. *Judges and requests:*
joining, repeating and exceeding a limit need two; `Few` drops behaviours in which
both are in trouble at once. *Workers in `Health`:* races are between two of a
kind; `OneTwin` keeps a second report, a second close and a crash apart.
*Servers:* moving to another server needs two. *Clients of a player:* refusal and
resync need two, and the second has little to do. *Tokens:* as many as two callers can
hold at once, and one. *Ticks:* three to the second are the fewest with a remainder
that is neither zero nor the greatest. *Connections:* supersession, a late
announcement and a late goodbye need two connections of one player; the other
player shows that the sweep asks everybody.
No state constraint cuts a step that fairness promises.

**Fairness, and why the code justifies it.** Tokio runs every spawned task that
is ready, so countdowns, handlers' steps, goodbye tasks, judge runs, checkpoint workers,
subscribers and the client's pusher are weakly fair; the sweeps, the ticker, the
heartbeat and the discovery are loops on intervals; requests in flight are answered; the
process manager restarts a crashed server; a judge answers or its time-out ends the run;
git commands end or are killed. Time passes (`Tick`, the ages). Nothing is assumed of
players: they need not connect, answer, pass a task, deliver a capture, disconnect or
stay. Nothing forces a session into its abandoned age, so convergence does not rely
on the reaper. Handlers, workers and clients are fair one by one, since they are separate
tasks.

The liveness properties name what they exclude. `WebBackstop` ends at a restart
of the main server (nothing respawns its countdown); `GameServerEnds` at a
crash of the game server; `LastFinisherEnds` at a revived ending or a crash;
`EventuallySettled` at a changed server id or the 24-hour mark;
`AbandonedSessionEnds` at a late announcement; `HeldIsReleased` at the end of the session
or when the player has no connection; `BonusFollowsClose` at a crash; `PlayersReach` and
`PagesHear` ask for a server that runs and is active, the first also for a configured
id; `InStepAgain` speaks of the time after the troubles.

## What is proved

The theorems hold for every value of the constants. They rest on the
assumptions the modules name: bounds are natural numbers, the timeout and the ticks
are positive, `PairsOf` splits the session-scoped pairs among the passes, `Nobody`
is not a connection, keys of checkpoints and of workers are distinct, slots are finitely
many. TLC evaluates them on each instance.

**SessionLifecycleProofs.** The inductive invariant is `IInv`: `TypeOK`,
`StampsFollowStatus` and `InFlightInv`. The second is not inductive by itself: a PATCH
writes columns decided on the row it *saw*, and could set a status without the stamps
that belong to it. `InFlightInv` says what a write in flight may rely on when it
lands: the transition was valid on the row it saw, and the stamps set there are
still set, because no writer ever clears `started_at` or `finished_at`; and the main
server's last write follows a read of a running row. There is one lemma per writer
(`StartWrite`, `FlipWrite`, `IdleCancelWrite`, `WebFinishWrite`, `PatchColumnsWrite`),
then one per actor.
- `TypesKept`, `StampsAlwaysFollowStatus`;
- `ChainStartsOncePerEnding`: every step writes the row in one of four ways
  (`EveryStepIsARowStep`), and only the conditional UPDATE starts a chain;
- `EndingsAreUndoneOnlyByStaleWrites`.

- `AtMostOneCountdown == Spec => []OneCountdown`, from `CountInv`. The tasks at all stages are
  summed (`Total`), together with the one spawn the recovery owes from a crash until it
  has spawned (`Owed`) and asks nobody about: the sum is at most one as long as there was
  no crash, and two after it; and one less while the server has no entry for the
  session, which is when a player's connection may spawn.
- `ImplementsPromise == Spec => KeepsPromise`. Each step is quiet, deciding, spending,
  ending or finishing (one lemma per kind), and each action is shown to be of one of
  them under `IInv`. The delicate cases are a PATCH on an ended row (the request is not
  a decision, and validation makes its write an ending too, which needs
  `InFlightInv`) and a countdown's write (the number of countdowns about to write
  falls by one).

**PagesProofs**, the countdown. `ClockTyped`; `TimestampsAccountForPlay`, where the drift of the
formula from the time played is bounded by less than a second per completed
pause, for any number of ticks; from it `SessionsAreNotCutShort`; and
`CountdownOnlyFalls`.

**PagesProofs**, the frames. `PagesShowTheVerdicts` and `PagesShowThePhase` speak of a quiet page
only; `FeedInv` says what holds while frames are under way.
- Nobody says that the session is over before that is certain (`Certain`): not the cache, not
  an event, a PATCH or a frame, not a page. That is not the status alone: `finish_session`
  publishes before it writes, and so `Ended` begins there.
- `Covered`: a verdict that was announced is on the page, or its event or its frame is on the way,
  or the page will yet accept a snapshot that has it. `Stale` is the middle of it: as
  long as a page that is not open has an older version than the entry, its snapshot will
  be accepted; and the snapshot is the first frame that it takes.
- `LastIsRight`, `Led`, `CacheTold`: the last change in the feed is the one the row has, and a page
  whose snapshot will not help any more knows of the end, or a writer that has still
  to tell of it is there (`OverComing`); and it has been told if the cache says so, which is
  what lets the router leave out a frame. A frame counts only if the version gate lets it pass
  when its turn comes (`Lands`): everything before it has a lower version, since frames
  that are sent under the entry's lock carry the highest version there is.

`Forward` collects the steps after which the page has moved nothing and the feed has only grown,
that is, all of both servers but the restart; one lemma (`ServerStep`) carries the invariant over
these, and the page's own five steps and the restart are proved one by one.

**JudgeRunsProofs.** `TypeCorrect`; `PointsAlwaysUnderVerdict`; `RunningAlwaysDriven`
from `DrivenInv`: besides the property, a process that is down has no
runs and no chain (`DownQuiet`), and the chain has no run of its own when it is to start
(`ChainQuiet`), for otherwise its start would put a judging run back to the
commit wait under a `running` row.
`OneDriverAtATime == Spec => []OneDriver`, from `OneInv`: while nothing has disturbed the
session the sweeps find no work (`SweepsRest`), a pair is driven by its dispatch or by the
settle chain according to how its task ended (`Origins`), and once it waits, is on the
ticker's snapshot or is driven again, both are done with it (`Handed`).

**PresenceProofs.** `PresenceTyped`; `NewestConnectionStaysRegistered`;
`GhostsAreLateAnnouncements`; and `SweepLeavesTimeToReconnect`, from `StampInv`, which
relates the ages of the columns to the time since anybody was there: the newest
`agent_last_seen_at` is never older than the absence, unless somebody is still marked
as connected, which keeps the sweep away; and that holds over a crash because the
startup reset restamps the players it finds marked as connected.

**HealthProofs.** `HealthTyped`; `BonusIsPaidOnce`, from `IInv`: `SInv` (stages of
workers agree with the rows they work on, and a row has one verifier), `BasisInv` (the
basis a closer read is settled, verified and not late) and `FinalInv` (when the final tree
verifies and the task was closed once, the one closer cannot have chosen a probe).

**TaskSchedulerProofs.** The inductive invariant `IInv` joins ten facts that no property
says by itself: the table holds the probes in the order they were sent (`RowsInv`); a
superseded handler that sent its probe is on its way out (`LateInv`); a handler waits for
the last probe it sent (`WaitInv`), so that the answer it grades is to that one; a task
with probes has rows (`TestsInv`), which keeps two handlers from inserting the rows of
a task twice; nobody is at a task before the one below it is closed (`PlaceInv`); who
closes a task has read that it is completed, or that its window has run out
(`CloseInv`), and what was read stays so while it closes; a closed task is paid or
about to be (`PaidInv`); and a section a handler sends again had not been passed
(`TwiceInv`). From these follow `TaskTyped`, `PassesAreEarned`, `SupersededStops`,
`TwicePaidOverlaps`, `BonusIsEarned`, and the refinement `ImplementsOrder`, whose steps are those
of `Advance`, `RunOut` and the faults, and a stutter for all others.

**ArtifactRequestsProofs.** `ArtifactsTyped`; `AsksStayBounded` counts the captures in the table together with
the judges that may yet add one though the limit is reached (`LimitInv`), by
cardinalities of finite sets; a judge's own captures are all in what it saw when it
looked (`LookInv`), which gives the budget. `FullVerdictsHeardAll` rests on `HearInv`: a run that
waits for nothing and has nothing to mark has heard all its judge waits for.

**PartsProofs.** The steps of each part of `MCParts` leave the others alone (`MeterPart`,
`TokenPart`, `SnapsPart`), so a theorem about one part is one about the run.

- *ProbeExchange*: `ExchangeTyped`; `PlayersAreHeardOut`, from `HInv`: who has not asked has no `pending`
  frame on its way (`Unasked`), a prompt is no longer than the window (`Limited`), and
  while the player is asked about the probe the handler waits for, the wait outlasts the
  prompt and the run (`Waited`).
- *Quota*: `MeterTyped`; `CreditsAreConserved`, one equation that each step keeps; `OvershootIsBounded`, which
  counts the runs on their way.
- *RefreshTokens*: `CallersStayLoggedIn`, from `LoggedIn`, which holds until an answer strays: an
  answer on its way brings a live token of its own (`Unique`); a cookie that is not live
  has been replaced by an answer on its way, just now (`CookieKept`); a request presents
  what was the cookie when it was sent (`InTime`); and every call that is not answered yet
  finds a row to write (`Room`).
- *SnapshotPush*: `SnapshotsTyped`; `PushedAlwaysThere` and `NoLagIsSilent`, from `PushInv`. The head a push carries is
  the client's own and covers everybody who waits for it (`HeadIsOwn`); what git compared
  stays so, since neither line is rewritten below it (`Packed`); a caller waits exactly
  as long as it is in the channel or in the push, and never in both (`CallersWait`); and
  a pusher rests only with an error, with nothing to do, or with a request on its way
  (`Excused`). That a caller is never in both places holds because it asks again only
  once it was answered, which the model had to be read again to see.

**Model-checked only.** Liveness under fairness and ENABLED are beyond the prover, so
`WebBackstop`, `GameServerEnds`, `LastFinisherEnds`, `EventuallySettled`, `JudgingConverges`,
`AbandonedSessionEnds`, `HeldIsReleased`, `EveryWaitEnds`, `EveryCheckpointSettles`, `BonusFollowsClose`,
`InStepAgain`, `PlayersReach`, `PagesHear` and `CallersAnswered` are shown by TLC on the
instances above. Divergences are shown by
counterexamples, for which the instance is the proof.

## Divergences between the code and what it says

`JudgeAbandoned` is a run that finds the statement violated, the configurations above
find the others; `PROJECT.json` quotes the lines.

1. `SessionPausedDispatch`: the dispatch body is *not* skipped while paused; a handler that
   read Paused may complete the player's last task, and a first dispatch restarts a
   paused session.
2. `SessionFirstAgent`: after an observer, the first player agent spawns no countdown.
3. `JudgeDoubleDrive`: after a restart the settle chain and the startup sweep drive the
   same pair; nothing runs one *after* the other (`main.rs:172-175`).
4. `JudgeAbandoned`: the reaper never closes a `waiting` row.
5. `PresenceStale`: a goodbye may mark a live reconnect offline, and the idle sweep may
   then cancel a session in play.
6. `TaskJudgesTwice`: a reconnect before the judges' first row fires a held task's
   judges again.
7. `ProbeStale`: an answer in time is recorded as "no response" when a late one of an
   earlier probe ends its wait.
8. `FleetDoubts`: more sessions in play than a server's capacity; a server disabled with
   a live session; a session created without a server stays without.
9. `QuotaGrant`: a grant overwrites a spend that came between its read and its write.
10. `SnapshotDoubts`: a resync drops the final snapshot's commit for good; a commit of the
    whole tree hides an edited memory file from the sync that would announce it.
11. `FeedDoubts`: after a clock-expired finish pages hear neither late verdicts nor
    `SessionSettled`; after a restart of the main server the version starts at 1 and pages
    drop the frames; session-scoped verdicts vanish on reconnect.

Met while modelling, with no configuration of their own:
- *sessions:* "terminal" statuses are not terminal under a stale PATCH
  (`api/sessions/common.rs:502`, `read.rs:580-617`; `EndingUndoneOnlyByStaleWrite`
  states how far they are); a repeated pause moves `paused_at`, so the remaining time is
  not frozen (`state.rs:152-154`; `forgotten` in `PauseClock`); the main server's wait for
  the owner takes any other status, a pause included, for a finish (`create.rs:371-372`);
- *judges:* a pair that became terminal after the sweep's snapshot is run again
  (`recovery.rs:357-359`); an interrupted task's verdict is not marked partial when a sweep
  re-drives it; the report of a session judge waits for siblings that the sequential sweep
  has not started (`judge_queue.rs:3321-3324`); `judge_results.status` documents no
  `waiting` (`entities/judge_results.rs:41-43`);
- *tasks:* a failed read of the tests closes a classic task and pays its bonus
  (`socket.rs:373`); a failed query for the next task completes the player; a partial or
  concurrent adaptation closes a task with sections missing; a stale bootstrap puts a
  finished player back; the bonus is announced whether or not a row was written; a crash
  between advance and award loses it; the hold's cap starts anew at a reconnect;
- *requests:* a latest poll graded `error` makes an open request look closed; a single
  poll without response, or a pause, ends a wait as partial; an ask in other words may join
  its own aged request that was never sent; an expired request opens again when a later
  delivery resets the clock; concurrent inserts of one ordinal lose a judge's ask; a crash
  between a verdict and its mark loses the mark;
- *health:* with two closers the bonus may be paid on a probe although the final tree
  verifies later; a restart loses the bonus of a close; two verifiers of one row settle
  it unconditionally;
- *exchange:* a command that uses the whole deadline is always late; with a
  `max_interval` below commit and run time a client once behind stays behind; the row of a
  probe in flight at a disconnect keeps no outcome;
- *fleet:* a server without a configured id that restarts orphans its sessions and leaves
  two subscribers that route every event twice;
- *pages:* `wait_for_owner` takes a pause for the ending and evicts the entry; a stale
  tick after the finish sets the cached phase back for late joiners; a page that connects
  between a PATCH's fan and its cache update misses the change; after a reconnect with an
  unchanged version the snapshot is refused, so what was lost with the connection is not
  repaired; paused sessions hydrate as lobby; observers subscribe after their snapshot
  (`ws/observe.rs`) and are sent no `SessionSettled`;
- *quota:* a crash between spend and insert loses a credit; rows paid by pack count toward
  the month; *tokens:* an answer lost for longer than the grace logs the user out
  everywhere;
- *snapshots:* "[remote rejected]" for a lock or a server error triggers a resync; a push
  that did not land is carried by a later one and the server is never told; the marker
  `artifacts_commit` stays rejected after a recovery;
- *joins and projects:* re-join, player limit and one-live-session are check-then-insert
  (`api/sessions/join.rs`); `put_one` of a personal project counts its sessions in a
  transaction that does not keep another from being inserted before it commits.

## What is not modelled

*Left out of modelled components.* `SessionLifecycle`: revoked players, projects
without tasks, database errors, project deletion, supersession of handlers (in
`TaskScheduler` and `Presence`), the broadcast of `Finished` before the conditional
update. `JudgeRuns`: runs before the finish, database errors other than as `Deny`.
`Presence`: lobby and paused sessions, roster changes, events. `TaskScheduler`: points of
single probes, TODO reports, projects without tasks, tasks without judges.
`ArtifactRequests`: oversize and partial captures, the settle grace, deterministic
probes. `Health`: scores and their pricing, composition of suites. `ServerFleet`: deletion
of rows, the claim of an unassigned session by a direct connection (`upgrade.rs:112`).
`DashboardFeed`: project, landing and player pages, the observers' socket, lagging
receivers, the leaderboard's refresh. `Quota`: the other limits. `RefreshTokens`: logout,
several values of one cookie. `SnapshotPush`: the final push at quit, staging and caps.

*Components that are not modelled*, with the reasons in `PROJECT.json`: most are text,
files or calls to services (judge internals, language-model access, sandbox, stores,
session memory, agent-tokens, catalogue, settings, bundled content). Scoring arithmetic is
sums over rows in SQL and rounding of ratings; joins, limits, campaigns and personal projects
are sequences of statements on one account's rows whose races are described
above; the rate limiter is one map under one lock.

## Plan

1. `ServerFleet`, whose promises are all liveness: the invariants they rest on, with
   proofs (as `Waited` is for `ProbeExchange`).
2. `Scoring`: points, criteria and intervals as operators against a reference
   definition over bounded inputs.
3. Joins and the player limit beside `Presence`; campaigns.
