------------------------------ MODULE MCHealth ------------------------------
(* A commit reported twice, and a task closed by two handlers.             *)
EXTENDS Health

CONSTANTS work, feat, gap, r1, r2, c1, c2

Both == [r \in Reports |-> work]

\* A state constraint: a second report of the commit, a second close and a
\* crash happen in behaviours of their own, but for a second report around a
\* crash before the close.  Fairness promises none of them.
Count(x) == IF x THEN 1 ELSE 0
OneTwin ==
  \/ Count(pc[r2] # "off") + Count(pc[c2] # "off") + crashes <= 1
  \/ ~closed
=============================================================================
