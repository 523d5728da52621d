--------------------------- MODULE DashboardFeed ---------------------------
(***************************************************************************)
(* The live page of a session: what the game server publishes, how the     *)
(* main server turns it into frames, and what an open page makes of them.  *)
(*                                                                         *)
(* The main server keeps an entry per session with a channel, a cached     *)
(* phase and a version.  A frame is stamped with a new version under the   *)
(* entry's lock and sent after it; the page drops a frame whose version is *)
(* not above the last it took, unless the frame is an event.  A page that  *)
(* connects is subscribed first and gets a snapshot then.  Pages do not    *)
(* interact: one is modelled.  The session has started.  The refresh of    *)
(* the leaderboard, every few seconds, is left out: to a page, it is one   *)
(* more frame that may be overtaken, as the ticks of the countdown are.    *)
(***************************************************************************)
EXTENDS Integers, Sequences, FiniteSets

CONSTANTS Verdicts,
          OfSession,     \* the verdicts of session-scoped judges
          MaxStir        \* bound: ticks, refreshes, PATCHes, and mishaps together

FeedAssumption == OfSession \subseteq Verdicts /\ MaxStir \in Nat

VARIABLES
  status,   \* of the sessions row
  filed,    \* verdicts with a row in activity_event
  game,     \* the game server, see TypeOK
  bus,      \* events published and not yet routed
  entry,    \* the session_registry entry; its channel and cache outlive it
  hand,     \* the frame that each sender stamped and has not sent yet
  owes,     \* the router has a leaderboard to send after the frame in hand
  patch,    \* the PATCH under way: its status, and what comes next
  web,      \* the main server's running_timer
  page,     \* the browser's WsSessionClient and its connection
  feed,     \* frames on their way to the page
  \* history:
  missed,   \* why the page may not know all, see Miss
  watching, \* it was open when the session was announced as settled
  stir

server == <<entry, hand, owes, patch, web>>
vars   == <<status, filed, game, bus, server, page, feed, missed, watching, stir>>

Over     == {"finished", "cancelled"}
Statuses == {"running", "paused"} \cup Over
Shown(s) == IF s \in Over THEN "over" ELSE s          \* backendPhaseToUiPhase
Senders  == {"route", "web"}
NoPatch  == [to |-> "running", next |-> "none"]

TypeOK ==
  /\ status \in Statuses /\ filed \subseteq Verdicts
  /\ game \in [tick : Statuses \cup {"none"}, ending : BOOLEAN, sweeping : BOOLEAN,
               chain : BOOLEAN, settled : BOOLEAN, told : SUBSET Verdicts]
  /\ entry \in [there : BOOLEAN, phase : Statuses \cup {"lobby"}, version : Nat]
  /\ \A a \in Senders : Len(hand[a]) <= 1
  /\ owes \in BOOLEAN /\ patch \in [to : Statuses, next : {"none", "fan", "cache"}]
  /\ web \in {"counting", "waiting", "telling", "gone"}
  /\ page \in [link : {"closed", "reading", "read", "open"}, last : Nat,
               phase : {"running", "paused", "over"}, log : SUBSET Verdicts,
               read : SUBSET Verdicts, settled : BOOLEAN]
  /\ missed \subseteq {"lost", "evicted", "cut", "older", "misled"} /\ watching \in BOOLEAN
  /\ stir \in 0..MaxStir

Init ==
  /\ status = "running" /\ filed = {} /\ bus = <<>>
  /\ game = [tick |-> "none", ending |-> FALSE, sweeping |-> FALSE, chain |-> FALSE,
             settled |-> FALSE, told |-> {}]
  /\ entry = [there |-> TRUE, phase |-> "running", version |-> 1]
  /\ hand = [a \in Senders |-> <<>>] /\ owes = FALSE /\ patch = NoPatch
  /\ web = "counting"
  /\ page = [link |-> "closed", last |-> 0, phase |-> "running", log |-> {}, read |-> {},
             settled |-> FALSE]
  /\ feed = <<>> /\ missed = {} /\ watching = FALSE /\ stir = 0

Stir  == stir < MaxStir /\ stir' = stir + 1
Still == UNCHANGED stir

Linked     == page.link # "closed"
IsEvent(f) == f.kind \in {"scored", "change"}
Publish(e) == bus' = Append(bus, e)
Miss(why)  == missed' = missed \cup {why}
Cut(fs)    == IF \E i \in DOMAIN fs : IsEvent(fs[i]) THEN Miss("cut") ELSE UNCHANGED missed
Cast(fs)   == IF Linked THEN feed' = feed \o fs /\ UNCHANGED missed ELSE UNCHANGED feed /\ Cut(fs)

-----------------------------------------------------------------------------
(* The game server.                                                        *)

gameOnly == <<server, page, feed, missed, stir>>

\* announce_verdict: the row first, the event after it.
File(v) ==
  /\ v \notin OfSession \cup filed
  /\ filed' = filed \cup {v}
  /\ UNCHANGED <<status, game, bus, gameOnly, watching>>

\* announce_verdict's event, and broadcast_session_verdicts, which files nothing.
Announce(v) ==
  /\ v \in filed \cup OfSession /\ v \notin game.told
  /\ Publish([kind |-> "scored", verdict |-> v])
  /\ game' = [game EXCEPT !.told = @ \cup {v}]
  /\ UNCHANGED <<status, filed, gameOnly, watching>>

TickReads ==
  /\ game.tick = "none" /\ status \notin Over
  /\ Stir
  /\ game' = [game EXCEPT !.tick = status]
  /\ UNCHANGED <<status, filed, bus, server, page, feed, missed, watching>>

TickTells ==
  /\ game.tick # "none"
  /\ Publish([kind |-> "timer", status |-> game.tick])
  /\ game' = [game EXCEPT !.tick = "none"]
  /\ UNCHANGED <<status, filed, gameOnly, watching>>

\* finish_session publishes first and updates the row after, where it still can.
Finish ==
  /\ status \notin Over /\ ~game.ending /\ ~game.chain
  /\ Publish([kind |-> "status", status |-> "finished"])
  /\ game' = [game EXCEPT !.ending = TRUE]
  /\ UNCHANGED <<status, filed, gameOnly, watching>>

FinishWrites ==
  /\ game.ending
  /\ game' = [game EXCEPT !.ending = FALSE, !.chain = status \notin Over]
  /\ status' = IF status \in Over THEN status ELSE "finished"
  /\ UNCHANGED <<filed, bus, gameOnly, watching>>

\* cancel_idle_session updates first and publishes after.
Sweep ==
  /\ status = "running" /\ ~game.ending
  /\ status' = "cancelled"
  /\ game' = [game EXCEPT !.sweeping = TRUE]
  /\ UNCHANGED <<filed, bus, gameOnly, watching>>

SweepTells ==
  /\ game.sweeping
  /\ Publish([kind |-> "status", status |-> "cancelled"])
  /\ game' = [game EXCEPT !.sweeping = FALSE]
  /\ UNCHANGED <<status, filed, gameOnly, watching>>

\* The judges of the finished session are done (or its deadline is over).
Settle ==
  /\ game.chain /\ ~game.settled
  /\ Publish([kind |-> "settled"])
  /\ game' = [game EXCEPT !.settled = TRUE]
  /\ watching' = (page.link = "open")
  /\ UNCHANGED <<status, filed, gameOnly>>

\* A ZeroMQ subscriber that reconnects has not seen what was published meanwhile.
Lose ==
  /\ bus # <<>>
  /\ Stir
  /\ bus' = Tail(bus)
  /\ Miss("lost")
  /\ UNCHANGED <<status, filed, game, server, page, feed, watching>>

-----------------------------------------------------------------------------
(* The main server: the router, PATCH, the timer.                          *)

outside == <<game, watching>>

Stamped(kind) == [kind |-> kind, version |-> entry.version + 1]
Bumped(n)     == [entry EXCEPT !.version = @ + n]
Complete      == [kind |-> "complete", version |-> entry.version + 1]
Change(s)     == [kind |-> "change", status |-> s]

\* The router holds the entry from the stamp to the send.
CanEvict == hand["route"] = <<>>

\* route_event takes one event after the other.
Routing(e) == bus # <<>> /\ e = Head(bus) /\ hand["route"] = <<>> /\ ~owes
              /\ bus' = Tail(bus)
              /\ UNCHANGED <<status, filed, outside, patch, web, page, stir>>

RouteNowhere(e) ==
  /\ ~entry.there
  /\ IF e.kind \in {"scored", "status"} THEN Miss("evicted") ELSE UNCHANGED missed
  /\ UNCHANGED <<entry, hand, owes, feed>>

RouteTimer(e) ==
  /\ entry.there /\ e.kind = "timer"
  /\ entry' = [Bumped(1) EXCEPT !.phase = e.status]
  /\ hand' = [hand EXCEPT !["route"] = <<Stamped("countdown")>>]
  /\ UNCHANGED <<owes, feed, missed>>

\* A mutant: the frame carries the version as it is.
RouteStatusUnstamped(e) ==
  /\ entry.there /\ e.kind = "status"
  /\ entry' = [entry EXCEPT !.phase = e.status]
  /\ IF entry.phase # e.status
     THEN Cast(<<[Complete EXCEPT !.version = entry.version]>>)
     ELSE UNCHANGED <<feed, missed>>
  /\ UNCHANGED <<hand, owes>>

\* The only frame that is sent under the lock.
RouteStatus(e) ==
  /\ entry.there /\ e.kind = "status"
  /\ IF entry.phase # e.status
     THEN entry' = [Bumped(1) EXCEPT !.phase = e.status] /\ Cast(<<Complete>>)
     ELSE UNCHANGED <<entry, feed, missed>>
  /\ UNCHANGED <<hand, owes>>

RouteScored(e) ==
  /\ entry.there /\ e.kind = "scored"
  /\ entry' = Bumped(1) /\ owes' = TRUE
  /\ hand' = [hand EXCEPT !["route"] =
                <<[kind |-> "scored", version |-> entry.version + 1, verdict |-> e.verdict]>>]
  /\ UNCHANGED <<feed, missed>>

RouteSettled(e) ==
  /\ entry.there /\ e.kind = "settled"
  /\ entry' = Bumped(1)
  /\ hand' = [hand EXCEPT !["route"] = <<Stamped("settled")>>]
  /\ UNCHANGED <<owes, feed, missed>>

Route == \E e \in {bus[i] : i \in DOMAIN bus} :
           /\ Routing(e)
           /\ \/ RouteNowhere(e) \/ RouteTimer(e) \/ RouteStatus(e)
              \/ RouteScored(e) \/ RouteSettled(e)

Send(a) ==
  /\ hand[a] # <<>>
  /\ hand' = [hand EXCEPT ![a] = <<>>]
  /\ IF entry.there THEN Cast(hand[a]) ELSE UNCHANGED <<feed, missed>>
  /\ UNCHANGED <<status, filed, outside, bus, entry, owes, patch, web, page, stir>>

\* broadcast_leaderboard, after the frame of a verdict.
Board ==
  /\ owes /\ hand["route"] = <<>> /\ owes' = FALSE
  /\ IF entry.there
     THEN entry' = Bumped(1) /\ hand' = [hand EXCEPT !["route"] = <<Stamped("board")>>]
     ELSE UNCHANGED <<entry, hand>>
  /\ UNCHANGED <<status, filed, outside, bus, patch, web, page, feed, missed, stir>>

\* patch_one: the row, the frame to the page, the cache (and the entry's end).
PatchWrites(s) ==
  /\ patch.next = "none"
  /\ <<status, s>> \in {"running"} \X {"paused", "finished", "cancelled"}
                       \cup {"paused"} \X {"running", "cancelled"}
  /\ Stir
  /\ status' = s /\ patch' = [to |-> s, next |-> "fan"]
  /\ UNCHANGED <<filed, outside, bus, entry, hand, owes, web, page, feed, missed>>

PatchFans ==
  /\ patch.next = "fan"
  /\ patch' = [patch EXCEPT !.next = "cache"]
  /\ IF entry.there THEN Cast(<<Change(patch.to)>>)
                    ELSE Miss("evicted") /\ UNCHANGED feed
  /\ UNCHANGED <<status, filed, outside, bus, entry, hand, owes, web, page, stir>>

PatchCaches ==
  /\ patch.next = "cache"
  /\ patch.to \in Over => CanEvict
  /\ patch' = NoPatch
  /\ entry' = [there   |-> entry.there /\ patch.to \notin Over,
               phase   |-> IF entry.there /\ patch.to # "finished" THEN patch.to
                           ELSE entry.phase,
               version |-> IF entry.there /\ patch.to # "finished" THEN entry.version + 1
                           ELSE entry.version]
  /\ UNCHANGED <<status, filed, outside, bus, hand, owes, web, page, feed, missed, stir>>

webOnly == <<filed, outside, bus, owes, patch, page>>

WebTicks ==
  /\ web = "counting" /\ status \notin Over /\ entry.there /\ hand["web"] = <<>>
  /\ Stir
  /\ entry' = Bumped(1)
  /\ hand' = [hand EXCEPT !["web"] = <<Stamped("countdown")>>]
  /\ UNCHANGED <<status, webOnly, web, feed, missed>>

\* The time is over, or the session ended before it was.
WebExpires ==
  /\ web = "counting" /\ hand["web"] = <<>> /\ status # "paused"
  /\ web' = IF status = "running" THEN "waiting" ELSE "gone"
  /\ UNCHANGED <<status, webOnly, entry, hand, feed, missed, stir>>

\* wait_for_owner_to_finish takes any other status, a pause too, for the ending;
\* where its time is over first, the entry stays.
WebSeesEnd ==
  /\ web = "waiting" /\ status # "running"
  /\ web' = "gone"
  /\ \/ CanEvict /\ entry' = [entry EXCEPT !.there = FALSE]
     \/ UNCHANGED entry
  /\ UNCHANGED <<status, webOnly, hand, feed, missed, stir>>

WebTakesOver ==
  /\ web = "waiting" /\ status = "running"
  /\ web' = "telling" /\ status' = "finished"
  /\ UNCHANGED <<webOnly, entry, hand, feed, missed, stir>>

WebTells ==
  /\ web = "telling" /\ CanEvict
  /\ web' = "gone"
  /\ IF entry.there
     THEN /\ entry' = [there |-> FALSE, phase |-> "finished", version |-> entry.version + 2]
          /\ Cast(<<[kind |-> "complete", version |-> entry.version + 2], Change("finished")>>)
     ELSE Miss("evicted") /\ UNCHANGED <<entry, feed>>
  /\ UNCHANGED <<status, webOnly, hand, stir>>

\* hydrate_session_registry knows two phases and starts to count anew.
Restart ==
  /\ Stir
  /\ entry' = IF status \in Over THEN [entry EXCEPT !.there = FALSE]
              ELSE [there |-> TRUE, version |-> 1,
                    phase |-> IF status = "running" THEN "running" ELSE "lobby"]
  /\ hand' = [a \in Senders |-> <<>>] /\ owes' = FALSE /\ patch' = NoPatch /\ web' = "gone"
  /\ bus' = <<>> /\ feed' = <<>> /\ page' = [page EXCEPT !.link = "closed"]
  /\ watching' = FALSE
  /\ missed' = IF page.last > 0 THEN {"older"} ELSE {}
  /\ UNCHANGED <<status, filed, game>>

-----------------------------------------------------------------------------
(* The page.                                                               *)

pageOnly == <<status, filed, game, bus, server>>

\* ws_session_handler subscribes; the snapshot is built after.
Connect ==
  /\ page.link = "closed" /\ entry.there
  /\ page' = [page EXCEPT !.link = "reading",
                          !.phase = IF page.last = 0 THEN Shown(status) ELSE @]
  /\ feed' = <<>>
  /\ missed' = IF entry.version > page.last THEN {} ELSE missed
  /\ UNCHANGED <<pageOnly, watching, stir>>

ReadActivity ==
  /\ page.link = "reading"
  /\ page' = [page EXCEPT !.link = "read", !.read = filed]
  /\ UNCHANGED <<pageOnly, feed, missed, watching, stir>>

\* The page's phase does not leave the end, nor go back to the lobby.
Phase(to) == IF page.phase = "over" \/ to = "lobby" THEN page.phase ELSE to

\* Whether the page will be told of the status the row has, or is about to have.
Truth  == IF game.ending THEN "over" ELSE Shown(status)
Coming == \/ patch.next = "fan" /\ Shown(patch.to) = Truth
          \/ web = "telling" \/ game.sweeping
          \/ \E i \in DOMAIN bus : bus[i].kind = "status"
          \/ \E i \in DOMAIN feed : feed[i].kind = "change" /\ Shown(feed[i].status) = Truth

\* The cache is read last; the frames since the subscription follow the snapshot.
TakeSnapshot ==
  /\ page.link = "read"
  /\ page' = [page EXCEPT !.link = "open", !.read = {}]
  /\ feed' = <<[kind |-> "snapshot", version |-> entry.version, phase |-> Shown(entry.phase),
                log |-> page.read]>> \o feed
  /\ LET taken == IF entry.version > page.last THEN Phase(Shown(entry.phase)) ELSE page.phase
     IN IF taken # Truth /\ ~Coming THEN Miss("misled") ELSE UNCHANGED missed
  /\ UNCHANGED <<pageOnly, watching, stir>>

\* A mutant: the gate holds for the events that carry a version, too.
FreshAll(f) == f.kind = "change" \/ f.version > page.last

\* The version gate of _handleFrame; events and unversioned frames pass.
Fresh(f) == IsEvent(f) \/ f.version > page.last

Applied(f) ==
  LET seen == IF IsEvent(f) THEN page
                                                 ELSE [page EXCEPT !.last = f.version]
  IN CASE f.kind = "scored"   -> [seen EXCEPT !.log = @ \cup {f.verdict}]
       [] f.kind = "change"   -> [seen EXCEPT !.phase = Phase(Shown(f.status))]
       [] f.kind = "complete" -> [seen EXCEPT !.phase = "over"]
       [] f.kind = "settled"  -> [seen EXCEPT !.settled = TRUE]
       [] f.kind = "snapshot" -> [seen EXCEPT !.phase = Phase(f.phase),
                                              !.log = IF f.log = {} THEN @ ELSE f.log]
       [] OTHER               -> seen

TakeFrame ==
  /\ page.link = "open" /\ feed # <<>>
  /\ feed' = Tail(feed)
  /\ page' = IF Fresh(Head(feed)) THEN Applied(Head(feed)) ELSE page
  /\ UNCHANGED <<pageOnly, missed, watching, stir>>

Drop ==
  /\ Linked
  /\ Stir
  /\ page' = [page EXCEPT !.link = "closed", !.read = {}]
  /\ feed' = <<>> /\ watching' = FALSE /\ Cut(feed)
  /\ UNCHANGED pageOnly

Next ==
  \/ \E v \in Verdicts : File(v) \/ Announce(v)
  \/ TickReads \/ TickTells \/ Finish \/ FinishWrites \/ Sweep \/ SweepTells \/ Settle
  \/ Lose \/ Route \/ \E a \in Senders : Send(a)
  \/ Board
  \/ \E s \in Statuses : PatchWrites(s)
  \/ PatchFans \/ PatchCaches
  \/ WebTicks \/ WebExpires \/ WebSeesEnd \/ WebTakesOver \/ WebTells \/ Restart
  \/ Connect \/ ReadActivity \/ TakeSnapshot \/ TakeFrame \/ Drop

Spec == Init /\ [][Next]_vars

-----------------------------------------------------------------------------

\* Everything that was on its way has arrived, and the page is connected.
Quiet ==
  /\ page.link = "open" /\ feed = <<>> /\ bus = <<>>
  /\ \A a \in Senders : hand[a] = <<>>
  /\ filed \subseteq game.told /\ ~game.ending /\ ~game.sweeping
  /\ patch.next = "none" /\ web # "telling"

\* A connected page shows every verdict that has a row, whatever the order of the
\* row, the event, the subscription, the snapshot and the frames that overtook one
\* another; unless an event was lost or came when the entry was evicted, or the
\* version gate refused the snapshot (judge_queue.rs, zmq_sub.rs, ws/session.rs,
\* ws-session.svelte.ts).
VerdictsShown ==
  Quiet /\ missed \subseteq {"misled"} => page.log \ OfSession = filed

\* A connected page shows the phase the row is in, an ending by any of the four
\* writers included; with the same exceptions, and that of a snapshot taken while
\* the cached phase was wrong and nothing was left to correct it.
PhaseShown == Quiet /\ missed = {} => page.phase = Shown(status)

(* What comments say, and the code does not hold (FeedDoubts.cfg).         *)

\* A page that was open at the time learns that the standings are final.
SettledIsPushed == Quiet /\ watching /\ "lost" \notin missed => page.settled

\* An ending reaches the pages over ZeroMQ before the timer drops the entry.
EndingReached ==
  Quiet /\ status \in Over /\ missed \subseteq {"evicted"} => page.phase = "over"

\* Pages work after a restart of the main server.
WorksAfterRestart ==
  Quiet /\ missed \subseteq {"older"} =>
    page.log \ OfSession = filed /\ page.phase = Shown(status)

\* A verdict that a page has shown is there after it connected again.
ShownStays == [][page.log \subseteq page'.log]_vars
=============================================================================
