------------------------ MODULE MCSessionLifecycle -------------------------
(* Model values, and the bound of the safety run, for SessionLifecycle.    *)
EXTENDS SessionLifecycle

CONSTANTS p1, p2,
          MaxDisturbances  \* bound: requests, crashes and deletions together

Count(b) == IF b THEN 1 ELSE 0

\* A state constraint: two owner requests in a behaviour, or one deletion,
\* crash or restart by itself, which weighs as much as two of them.
FewDisturbances ==
  requested + 2 * (Count(~row.exists) + crashes + Count(webLost)) <= MaxDisturbances

\* A state constraint: either players play, or requests, the idle sweep and
\* restarts come between.  Neither a connect nor any of these is promised by
\* Fairness, so no behaviour of a liveness property loses its continuation.
Disturbed == idle \/ webLost \/ requested + crashes > 0
Playing   == \E p \in Players : pc[p] # "away" \/ sched[p] # "none"
PlayersOrDisturbances == ~(Disturbed /\ Playing)

=============================================================================
