------------------------------ MODULE MCParts ------------------------------
(***************************************************************************)
(* Five parts of the system that share no state, checked in one run: the   *)
(* exchange of probes, the fleet of game servers, the meter of judge runs, *)
(* the rotation of refresh tokens and the push of snapshots.  The initial  *)
(* state picks the part that takes all the steps; the others stay as they  *)
(* start.                                                                  *)
(***************************************************************************)
EXTENDS ProbeExchange, QuotaParameters

CONSTANTS s1, s2, Sessions, MaxMishaps, None,   \* of ServerFleet
          Callers, Tokens, Grace, MaxDelay,     \* of RefreshTokens
          p1, p2, Retries, MaxBreaks            \* of SnapshotPush

VARIABLES part,
  alive, id, row, life, pick, owner, seeker, dialled, task, mishaps,
  metered, monthly, packed, credits, run, request, paid, lost, granted, grants, clean,
  live, age, cookie, call, holds, waited, refused, strayed,
  main, store, made, open, started, filed, dirty, queue, waiters, push, ledger, caller,
  told, unheard, breaks

Servers == {s1, s2}
AFew    == {-1, 2}

\* Both servers have an id of their own, and room for one session.
Fleet == INSTANCE ServerFleet WITH Stable <- Servers, Capacity <- [s \in Servers |-> 1]
Meter == INSTANCE Quota
Token == INSTANCE RefreshTokens

\* One client plays; the other, opened too, has little to do.
Players == {p1, p2}
Mostly  == [c \in Players |-> IF c = p1 THEN 2 ELSE 1]
Snaps   == INSTANCE SnapshotPush WITH Clients <- Players, Work <- Mostly

ASSUME PartsAssumption ==
  Fleet!FleetAssumption /\ Token!TokensAssumption /\ Snaps!DelaysAssumption

MCInit ==
  /\ part \in {"exchange", "fleet", "meter", "token", "snapshots"}
  /\ Init /\ Fleet!Init /\ Meter!Init /\ Token!Init /\ Snaps!Init
  /\ part # "meter" => metered

fleet == <<alive, id, row, life, pick, owner, seeker, dialled, task, mishaps>>
meter == <<metered, monthly, packed, credits, run, request, paid, lost, granted,
           grants, clean>>
token == <<live, age, cookie, call, holds, waited, refused, strayed>>
snaps == <<main, store, made, open, started, filed, dirty, queue, waiters, push, ledger,
           caller, told, unheard, breaks>>

MCNext ==
  /\ UNCHANGED part
  /\ \/ part = "exchange" /\ Next /\ UNCHANGED <<fleet, meter, token, snaps>>
     \/ part = "fleet" /\ Fleet!Next /\ UNCHANGED <<vars, meter, token, snaps>>
     \/ part = "meter" /\ Meter!Next /\ UNCHANGED <<vars, fleet, token, snaps>>
     \/ part = "token" /\ Token!Next /\ UNCHANGED <<vars, fleet, meter, snaps>>
     \/ part = "snapshots" /\ Snaps!Next /\ UNCHANGED <<vars, fleet, meter, token>>

MCVars == <<part, vars, fleet, meter, token, snaps>>

\* The fairness of ProbeExchange, ServerFleet and SnapshotPush, where each runs.
Exchange(A) == part = "exchange" /\ A
InFleet(A)  == part = "fleet" /\ A
InSnaps(A)  == part = "snapshots" /\ A
MCFairness ==
  /\ WF_vars(Exchange(Handler)) /\ WF_vars(Exchange(Client)) /\ WF_vars(Exchange(Tick))
  /\ \A s \in Servers : WF_fleet(InFleet(Fleet!Heartbeat(s)))
  /\ \A x \in Sessions : /\ WF_fleet(InFleet(Fleet!Resolve(x)))
                         /\ WF_fleet(InFleet(Fleet!Dial(x)))
                         /\ WF_fleet(InFleet(Fleet!Assign(x)))
  /\ WF_fleet(InFleet(Fleet!Discover))
  /\ \A n \in Fleet!Names : WF_fleet(InFleet(Fleet!Connect(n)))
  /\ \A c \in Players : WF_snaps(InSnaps(Snaps!Pusher(c)))

MCSpec == MCInit /\ [][MCNext]_MCVars /\ MCFairness

-----------------------------------------------------------------------------
(* The properties of the parts: each module says more.                     *)

\* Once the troubles end, the server and a client come back into step: every
\* answer is taken for the probe it answers (ProbeExchange).
InStepAgain == part = "exchange" => Recovers

\* A player's seeker reaches the server its session lives on, through crashes,
\* missed heartbeats and administrators' changes (ServerFleet).
PlayersReach == Fleet!Reached

\* The main server comes to listen to every server that lives, although events
\* are not acknowledged and a subscription may end (ServerFleet).
PagesHear == Fleet!Heard

\* Purchased credits are neither lost nor made: balance, runs paid by pack and
\* what a failed insert lost add up to what was bought and granted (Quota).
CreditsBalance == Meter!Balanced

\* Callers that refresh one cookie at once do not log each other out: the family
\* is revoked only where an answer was lost (RefreshTokens).
StaysLoggedIn == Token!StaysLoggedIn

\* No commit is reported pushed, to a caller or in the ledger, that the server
\* does not have, through coalesced requests, refusals, resyncs and a second
\* client of the player (SnapshotPush).
PushedIsThere == Snaps!PushedIsThere

\* A client whose pusher rests has nothing that the server lacks, unless an error
\* stands: no commit is forgotten while requests coalesce (SnapshotPush).
NoSilentLag == Snaps!NoSilentLag

\* A caller that waits for the push of its commit is answered (SnapshotPush).
CallersAnswered == Snaps!CallersAnswered
=============================================================================
