-------------------------------- MODULE Money --------------------------------
(***************************************************************************)
(* Amounts of the budget ledger.  A raw amount is a multiple of 1/Grain    *)
(* micro-USD (the code's Decimal dollars); the ledger stores whole         *)
(* micro-USD.  Caps are rounded down, reservations and spend are rounded   *)
(* up, so that no rounding ever hands out money the root does not have.    *)
(***************************************************************************)
EXTENDS Integers, FiniteSets

CONSTANT Grain            \* raw units per micro-USD

ASSUME GrainAssumption == Grain \in Nat \ {0}

\* ROUND_FLOOR and ROUND_CEILING of a raw amount to micro-USD.
Floor(x) == x \div Grain
Ceil(x)  == (x + Grain - 1) \div Grain

(***************************************************************************)
(* Sum of f over the finite set S.  It is defined by counting units and    *)
(* not by a fold, so that the facts about it, in BudgetLedgerProofs,       *)
(* follow from the cardinality theorems without an induction.              *)
(***************************************************************************)
Units(f, S) == UNION {{c} \X (1 .. f[c]) : c \in S}
Total(f, S) == Cardinality(Units(f, S))
=============================================================================
