----------------------------- MODULE BudgetScopes -----------------------------
(***************************************************************************)
(* The calls and the root budget scopes, shared by the ledger and by the   *)
(* promise it keeps.                                                       *)
(***************************************************************************)
EXTENDS Money

CONSTANTS Call,        \* public calls; each acquires at most one reservation
          Scope,       \* root scope trace ids
          NoScope      \* root of a call without a reservation

ASSUME ScopesAssumption == IsFiniteSet(Call) /\ NoScope \notin Scope
=============================================================================
