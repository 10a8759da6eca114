-------------------------- MODULE MCStructuredAttempts --------------------------
(***************************************************************************)
(* A small instance of StructuredAttempts: a model with or without native  *)
(* schemas, then one on the responses API.                                 *)
(***************************************************************************)
EXTENDS StructuredAttempts, TLC

MCOffers == (1 :> {"native", "instructor"}) @@ (2 :> {"responses"})

MCOption ==
  {[deadline |-> TRUE,  timed |-> FALSE, strict |-> FALSE],
   [deadline |-> FALSE, timed |-> TRUE,  strict |-> FALSE],
   [deadline |-> TRUE,  timed |-> TRUE,  strict |-> TRUE]}

\* The native and the responses path send the strict schema, Instructor the
\* plain one.
MCSchema == [m \in Model |-> [p \in Paths |-> IF p = "instructor" THEN "plain" ELSE "strict"]]
=============================================================================
