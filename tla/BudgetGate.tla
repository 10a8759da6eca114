------------------------------ MODULE BudgetGate ------------------------------
(***************************************************************************)
(* What the durable budget ledger promises, without its table rows, leases *)
(* or clock: a root scope has a cap; a call is promised part of it before  *)
(* it may spend, spends at most what it was promised, once, or gives the   *)
(* promise back.  BudgetLedger implements this module.                     *)
(***************************************************************************)
EXTENDS BudgetScopes

VARIABLES cap,         \* micro-USD a scope may spend; 0 when the scope is unknown
          under,       \* the scope a call was admitted under
          promised,    \* micro-USD still set aside for a call
          spent        \* raw amount a call spent out of its promise

vars == <<cap, under, promised, spent>>

Init ==
  /\ cap = [s \in Scope |-> 0]
  /\ under = [c \in Call |-> NoScope]
  /\ promised = [c \in Call |-> 0]
  /\ spent = [c \in Call |-> 0]

Admitted(s) == {c \in Call : under[c] = s}

\* What a scope has given away: the spend, rounded up, and the open promises.
Committed(s) == Ceil(Total(spent, Admitted(s))) + Total(promised, Admitted(s))

-----------------------------------------------------------------------------

\* Every call outside D keeps its promise or loses it.
OthersMayLose(D) ==
  /\ promised' \in [Call -> Nat]
  /\ \A d \in Call \ D : promised'[d] \in {0, promised[d]}

\* The cap of s becomes whatever it becomes; the other caps are left alone.
SetCap(s) ==
  /\ cap'[s] \in Nat
  /\ cap' = [cap EXCEPT ![s] = cap'[s]]

\* c is promised part of scope s, if that fits the cap with what is left.
Admit(c, s) ==
  /\ under[c] = NoScope
  /\ under' = [under EXCEPT ![c] = s]
  /\ SetCap(s)
  /\ cap[s] \in {0, cap'[s]}
  /\ OthersMayLose({c})
  /\ UNCHANGED spent
  /\ Committed(s)' <= cap'[s]

\* c spends out of its promise, once; the rest of the promise is free again.
Spend(c) ==
  /\ spent[c] = 0
  /\ spent'[c] \in 0 .. Grain * promised[c]
  /\ spent' = [spent EXCEPT ![c] = spent'[c]]
  /\ promised' = [promised EXCEPT ![c] = 0]
  /\ UNCHANGED <<cap, under>>

\* Some calls lose their promises.
GiveBack ==
  /\ OthersMayLose({})
  /\ UNCHANGED <<cap, under, spent>>

\* The cap of a known scope grows, and some calls lose their promises.
RaiseCap(s) ==
  /\ cap[s] > 0
  /\ SetCap(s)
  /\ cap'[s] >= cap[s]
  /\ OthersMayLose({})
  /\ UNCHANGED <<under, spent>>

Next ==
  \/ \E c \in Call, s \in Scope : Admit(c, s)
  \/ \E c \in Call : Spend(c)
  \/ GiveBack
  \/ \E s \in Scope : RaiseCap(s)

Spec == Init /\ [][Next]_vars

-----------------------------------------------------------------------------

TypeOK ==
  /\ cap \in [Scope -> Nat]
  /\ under \in [Call -> Scope \cup {NoScope}]
  /\ promised \in [Call -> Nat]
  /\ spent \in [Call -> Nat]

\* The spend and the open promises of a scope never exceed its cap.
CommittedWithinCap == \A s \in Scope : Committed(s) <= cap[s]
=============================================================================
