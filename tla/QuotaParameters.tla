-------------------------- MODULE QuotaParameters --------------------------
(* The constants of Quota and what is assumed of them.                     *)
EXTENDS Integers, FiniteSets

CONSTANTS Slots,      \* judge runs of the account that may be under way at once
          Admins,     \* administrators' requests that may be under way at once
          Limit,      \* the month's allowance
          Bought,     \* the balance at the start
          MaxRows,    \* bound: ledger rows in a month
          MaxGrants,  \* bound: grants
          Grants      \* bound: the sizes of a grant

ASSUME QuotaAssumption ==
  /\ IsFiniteSet(Slots) /\ Slots # {}
  /\ Limit \in Nat /\ Bought \in Nat /\ MaxRows \in Nat /\ MaxGrants \in Nat
  /\ Grants \subseteq Int
=============================================================================
