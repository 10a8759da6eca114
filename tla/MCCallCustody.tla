----------------------------- MODULE MCCallCustody -----------------------------
(***************************************************************************)
(* Small instances of CallCustody: "run" is a durable scope shared by two  *)
(* processes, "seq" a sequential scope of one process.                     *)
(***************************************************************************)
EXTENDS CallCustody, TLC

CONSTANTS c1, c2, c3, p1, p2, run

\* Two processes; a structured async call and a text sync call.
MCHome    == (c1 :> p1) @@ (c2 :> p2)
MCScopeOf == [c \in Call |-> run]
MCTrace   == MCScopeOf
MCCounted == [s \in Scope |-> Call]
MCKind    == [c \in Call |-> IF c = c1 THEN "structured" ELSE "text"]
MCIsAsync == [c \in Call |-> c = c1]

MCReserved == [c \in Call |-> "reserved_concurrent"]
MCBudget   == [s \in Scope |-> 3]
MCAsked    == [c \in Call |-> 2]

\* One process, three sequential calls.
SeqHome   == [c \in Call |-> p1]
SeqTrace  == [c \in Call |-> c]
SeqMode   == [c \in Call |-> "sequential"]
SeqBudget == [s \in Scope |-> 2]
SeqAsked  == [c \in Call |-> 1]
=============================================================================
