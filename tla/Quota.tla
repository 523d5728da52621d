------------------------------- MODULE Quota -------------------------------
(***************************************************************************)
(* The metering of one account's judge runs: the month's ledger, the       *)
(* balance of purchased credits, and an administrator's grants.            *)
(*                                                                         *)
(* A run counts, spends and records in statements of their own, outside a  *)
(* transaction; so does an administrator's request read and write.         *)
(***************************************************************************)
EXTENDS QuotaParameters

VARIABLES
  metered,  \* plans_enabled
  monthly,  \* judge_run_ledger: this month's rows of source "monthly"
  packed,   \* and of source "pack"
  credits,  \* users.judge_run_credits
  run,      \* a run: idle, spending, charging, spent
  request,  \* an administrator's request: the balance it read, or -1
  \* history:
  paid,     \* rows of source "pack" ever
  lost,     \* credits whose row was never written
  granted,  \* credits ever granted
  grants,   \* grants made
  clean     \* no grant was computed from a balance that had changed

ledger == <<metered, monthly, packed>>
gifts  == <<granted, grants, clean>>
book   == <<paid, lost, gifts>>
vars   == <<ledger, credits, run, request, book>>

Idle == -1

TypeOK ==
  /\ metered \in BOOLEAN /\ clean \in BOOLEAN
  /\ monthly \in Nat /\ packed \in Nat /\ credits \in Nat
  /\ run \in [Slots -> {"idle", "spending", "charging", "spent"}]
  /\ request \in [Admins -> Nat \cup {Idle}]
  /\ paid \in Nat /\ lost \in Nat /\ granted \in Int /\ grants \in 0..MaxGrants

Init ==
  /\ metered \in BOOLEAN /\ monthly = 0 /\ packed = 0 /\ credits = Bought
  /\ run = [r \in Slots |-> "idle"] /\ request = [a \in Admins |-> Idle]
  /\ paid = 0 /\ lost = 0 /\ granted = Bought /\ grants = 0 /\ clean = TRUE

Becomes(r, st) == run' = [run EXCEPT ![r] = st]

-----------------------------------------------------------------------------
(* check_and_charge_judge_run *)

\* Every row of the month counts, those of packs too.
Exhausted == monthly + packed >= Limit

\* The ledger is counted.
Check(r) ==
  /\ run[r] = "idle" /\ monthly + packed < MaxRows
  /\ Becomes(r, IF metered /\ Exhausted THEN "spending" ELSE "charging")
  /\ UNCHANGED <<ledger, credits, request, book>>

\* Mutant: whether a row was updated is not asked.
SpendUnasked(r) ==
  /\ run[r] = "spending" /\ Becomes(r, "spent")
  /\ credits' = IF credits > 0 THEN credits - 1 ELSE credits
  /\ UNCHANGED <<ledger, request, book>>

\* The guarded update of the balance; the month may have turned meanwhile.
Spend(r) ==
  /\ run[r] = "spending"
  /\ IF credits > 0
       THEN Becomes(r, "spent") /\ credits' = credits - 1
       ELSE Becomes(r, "idle") /\ UNCHANGED credits
  /\ UNCHANGED <<ledger, request, book>>

\* The row is inserted. A failure or a crash leaves none: the run goes on
\* without it, or is checked anew.
Record(r) ==
  /\ run[r] \in {"charging", "spent"} /\ Becomes(r, "idle")
  /\ \/ /\ run[r] = "charging" /\ monthly' = monthly + 1
        /\ UNCHANGED <<packed, paid, lost>>
     \/ /\ run[r] = "spent" /\ packed' = packed + 1 /\ paid' = paid + 1
        /\ UNCHANGED <<monthly, lost>>
     \/ /\ lost' = IF run[r] = "spent" THEN lost + 1 ELSE lost
        /\ UNCHANGED <<monthly, packed, paid>>
  /\ UNCHANGED <<metered, credits, request, gifts>>

\* The window begins anew.
NewMonth ==
  /\ monthly' = 0 /\ packed' = 0
  /\ UNCHANGED <<metered, credits, run, request, book>>

-----------------------------------------------------------------------------
(* patch_admin_user *)

ReadBalance(a) ==
  /\ request[a] = Idle /\ grants < MaxGrants
  /\ request' = [request EXCEPT ![a] = credits]
  /\ UNCHANGED <<ledger, credits, run, book>>

\* The sum is written, or refused when it is negative.
Grant(a) ==
  /\ request[a] # Idle /\ grants < MaxGrants
  /\ request' = [request EXCEPT ![a] = Idle]
  /\ \E delta \in Grants \ {0} :
       IF request[a] + delta < 0
         THEN UNCHANGED <<credits, gifts>>
         ELSE /\ credits' = request[a] + delta
              /\ granted' = granted + delta /\ grants' = grants + 1
              /\ clean' = (clean /\ request[a] = credits)
  /\ UNCHANGED <<ledger, run, paid, lost>>

-----------------------------------------------------------------------------
Next ==
  \/ \E r \in Slots : Check(r) \/ Spend(r) \/ Record(r)
  \/ \E a \in Admins : ReadBalance(a) \/ Grant(a)
  \/ NewMonth

Spec == Init /\ [][Next]_vars

-----------------------------------------------------------------------------
(* Properties *)

In(st) == Cardinality({r \in Slots : run[r] = st})

\* "two racing runs cannot spend the same last credit" (quota.rs:175): every
\* credit granted is still there or was spent on one run, as long as no grant
\* was written over a change.
Balanced == clean => credits + paid + In("spent") + lost = granted

\* "Concurrent runs may slightly overshoot the limit" (quota.rs:137): by less
\* than the runs that are under way at once.
OvershootBounded ==
  metered => monthly + In("charging") <= Limit + Cardinality(Slots) - 1

\* "A grant is a DELTA on the purchased balance" (settings/write.rs:351).
GrantIsDelta == credits + paid + In("spent") + lost = granted
=============================================================================
