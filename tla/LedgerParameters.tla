--------------------------- MODULE LedgerParameters ---------------------------
(***************************************************************************)
(* The inputs and the bounds of the budget ledger, shared with the modules *)
(* of its callers.                                                         *)
(***************************************************************************)
EXTENDS BudgetScopes

CONSTANTS CountedIn,     \* calls whose rows the prefix predicate of a scope selects
          Budget,        \* raw max_budget arguments
          Reservation,   \* raw budget_reservation arguments
          Cost,          \* raw costs of a call
          LeaseTTL,      \* lease_ttl_seconds
          MaxLag,        \* bound on the age of an observed time
          MaxTime        \* bound on the clock

ASSUME LedgerAssumption ==
  /\ CountedIn \in [Scope -> SUBSET Call]
  /\ Budget \subseteq Nat /\ Reservation \subseteq Nat \ {0} /\ Cost \subseteq Nat
  /\ LeaseTTL \in Nat \ {0} /\ MaxLag \in Nat /\ MaxTime \in Nat
=============================================================================
