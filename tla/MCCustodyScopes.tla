---------------------------- MODULE MCCustodyScopes ----------------------------
(***************************************************************************)
(* One process with two scopes: c1 reserves custody in the durable scope   *)
(* "shared", c2 and c3 use the sequential scope "run" one after the other. *)
(* Every call has a trace of its own.                                      *)
(***************************************************************************)
EXTENDS CallCustody, TLC

CONSTANTS c1, c2, c3, p1, run, shared

BothHome    == [c \in Call |-> p1]
BothScopeOf == [c \in Call |-> IF c = c1 THEN shared ELSE run]
BothTrace   == [c \in Call |-> c]
BothCounted == [s \in Scope |-> {c \in Call : BothScopeOf[c] = s}]
BothMode    == [c \in Call |-> IF c = c1 THEN "reserved_concurrent" ELSE "sequential"]
BothKind    == [c \in Call |-> IF c = c1 THEN "structured" ELSE "text"]
BothIsAsync == [c \in Call |-> c = c1]
BothAsked   == [c \in Call |-> IF c = c1 THEN 2 ELSE 1]
BothBudget  == [s \in Scope |-> IF s = shared THEN 2 ELSE 1]
=============================================================================
