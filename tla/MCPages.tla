------------------------------ MODULE MCPages ------------------------------
(***************************************************************************)
(* What a live page shows: the countdown, and the frames.  The two share   *)
(* no state; the initial state picks the one that takes the steps.         *)
(***************************************************************************)
EXTENDS PauseClock

CONSTANTS Verdicts, OfSession, MaxStir   \* of DashboardFeed

VARIABLES part,
  standing, filed, game, bus, entry, hand, owes, patch, web, page, feed, missed, watching, stir

Feed == INSTANCE DashboardFeed WITH status <- standing

ASSUME PagesAssumption == Feed!FeedAssumption

frames == <<standing, filed, game, bus, entry, hand, owes, patch, web, page, feed, missed,
            watching, stir>>

\* A bound: two disturbances where no verdict is given yet, else one.
FewStirs == stir > 1 => filed = {} /\ game.told = {}

MCInit ==
  /\ part \in {"clock", "frames"} /\ Init /\ Feed!Init
  /\ part = "frames" => now = 0 /\ \A d \in Durations : duration <= d
MCNext ==
  /\ UNCHANGED part
  /\ \/ part = "clock" /\ Next /\ UNCHANGED frames
     \/ part = "frames" /\ Feed!Next /\ FewStirs' /\ UNCHANGED vars

MCSpec == MCInit /\ [][MCNext]_<<part, vars, frames>>

-----------------------------------------------------------------------------

\* A connected page comes to show every verdict that has a row, whatever the order
\* of the row, the event, the subscription, the snapshot and the frames that
\* overtook one another (DashboardFeed names the exceptions).
VerdictsShown == Feed!VerdictsShown

\* A connected page comes to show the phase the row is in, an ending by any of the
\* four writers included (DashboardFeed names the exceptions).
PhaseShown == Feed!PhaseShown
=============================================================================
