--------------------------- MODULE MCBudgetLedger ---------------------------
(***************************************************************************)
(* A small instance of BudgetLedger.  The scope "sub" is a trace below the *)
(* scope "run", so the rows of its call count for both.                    *)
(***************************************************************************)
EXTENDS BudgetLedger, TLC

CONSTANTS c1, c2, c3, run, sub

MCCountedIn == (run :> {c1, c2, c3}) @@ (sub :> {c3})

Symmetry == Permutations({c1, c2})
=============================================================================
