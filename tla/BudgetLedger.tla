----------------------------- MODULE BudgetLedger -----------------------------
(***************************************************************************)
(* The durable reservation ledger of                                       *)
(* llm_client/observability/budget_reservations.py: the tables             *)
(* budget_scopes, budget_reservations and the spend rows of llm_calls and  *)
(* embeddings, shared by every process on one SQLite file.                 *)
(*                                                                         *)
(* Every operation runs in one BEGIN IMMEDIATE transaction, so it is one   *)
(* step; but it reads the clock before it waits for the write lock, so it  *)
(* works with an observed time that may be MaxLag behind.  An operation    *)
(* that raises rolls back and is no step.                                  *)
(***************************************************************************)
EXTENDS LedgerParameters

VARIABLES now,           \* wall clock
          cap,           \* budget_scopes.max_budget_microusd, 0 when there is no row
          root,          \* budget_reservations.scope_trace_id
          status,        \* budget_reservations.status, "none" when there is no row
          reserved,      \* budget_reservations.reserved_microusd
          expires,       \* budget_reservations.expires_at
          settledCost,   \* budget_reservations.settled_cost_microusd
          table,         \* the table that holds the spend row of a call
          cost,          \* raw cost of that row
          covered        \* history: the part of that cost an active lease covered

leaseVars == <<root, status, reserved, expires, settledCost>>
rowVars   == <<table, cost, covered>>
vars      == <<now, cap, leaseVars, rowVars>>

Statuses == {"none", "active", "settled", "released_error", "expired"}
Tables   == {"none", "llm_calls", "embeddings"}

Init ==
  /\ now = 0
  /\ cap = [s \in Scope |-> 0]
  /\ root = [c \in Call |-> NoScope]
  /\ status = [c \in Call |-> "none"]
  /\ reserved = [c \in Call |-> 0]
  /\ expires = [c \in Call |-> 0]
  /\ settledCost = [c \in Call |-> 0]
  /\ table = [c \in Call |-> "none"]
  /\ cost = [c \in Call |-> 0]
  /\ covered = [c \in Call |-> 0]

-----------------------------------------------------------------------------
(* Queries *)

\* _now() was called at most MaxLag ago.
Observed == {t \in 0 .. now : now <= t + MaxLag}

\* Mutant: spend stops counting once its reservation ended.
RowsOfOpenCalls(s, tbl) ==
  {c \in CountedIn[s] : table[c] = tbl /\ status[c] = "active"}

Rows(s, tbl) == {c \in CountedIn[s] : table[c] = tbl}

\* Each table's SUM is rounded up on its own.
Settled(s) == Ceil(Total(cost, Rows(s, "llm_calls"))) + Ceil(Total(cost, Rows(s, "embeddings")))

Overdue(s, t) == {c \in Call : root[c] = s /\ status[c] = "active" /\ expires[c] <= t}

Live(s, t) == {c \in Call : root[c] = s /\ status[c] = "active" /\ expires[c] > t}

ActiveReserved(s, t) == Total(reserved, Live(s, t))

\* Mutant: overdue leases that nobody marked expired are still subtracted.
AvailableWithOverdue(s, t) ==
  LET left == cap[s] - Settled(s)
                - Total(reserved, {c \in Call : root[c] = s /\ status[c] = "active"})
  IN  IF left > 0 THEN left ELSE 0

\* get_budget_scope_snapshot(...).available_microusd; it expires nothing.
Available(s, t) ==
  LET left == cap[s] - Settled(s) - ActiveReserved(s, t)
  IN  IF left > 0 THEN left ELSE 0

\* Mutant: only settled spend is tested, as the sequential budget check does.
FitsSettledOnly(s, t, budget, r) == Settled(s) + r <= budget

\* The admission test, made after the overdue leases of the scope expired.
Fits(s, t, budget, r) == Settled(s) + ActiveReserved(s, t) + r <= budget

-----------------------------------------------------------------------------
(* Operations *)

Tick == now < MaxTime /\ now' = now + 1 /\ UNCHANGED <<cap, leaseVars, rowVars>>

ExpireLeases(s, t) == [c \in Call |-> IF c \in Overdue(s, t) THEN "expired" ELSE status[c]]

\* Mutant: the lease time is added in the wrong unit.
AcquireForever(c, s, maxBudget, reservation, t) ==
  /\ status[c] = "none" /\ table[c] = "none"
  /\ c \in CountedIn[s]
  /\ cap[s] \in {0, Floor(maxBudget)}
  /\ Fits(s, t, Floor(maxBudget), Ceil(reservation))
  /\ cap' = [cap EXCEPT ![s] = Floor(maxBudget)]
  /\ root' = [root EXCEPT ![c] = s]
  /\ status' = [ExpireLeases(s, t) EXCEPT ![c] = "active"]
  /\ reserved' = [reserved EXCEPT ![c] = Ceil(reservation)]
  /\ expires' = [expires EXCEPT ![c] = t + 1000 * LeaseTTL]
  /\ UNCHANGED <<now, settledCost, rowVars>>

Acquire(c, s, maxBudget, reservation, t) ==
  LET budget == Floor(maxBudget)
      r      == Ceil(reservation)
  IN  /\ status[c] = "none" /\ table[c] = "none"
      /\ c \in CountedIn[s]
      /\ budget >= 1
      /\ r <= budget
      /\ cap[s] \in {0, budget}
      /\ Fits(s, t, budget, r)
      /\ cap' = [cap EXCEPT ![s] = budget]
      /\ root' = [root EXCEPT ![c] = s]
      /\ status' = [ExpireLeases(s, t) EXCEPT ![c] = "active"]
      /\ reserved' = [reserved EXCEPT ![c] = r]
      /\ expires' = [expires EXCEPT ![c] = t + LeaseTTL]
      /\ UNCHANGED <<now, settledCost, rowVars>>

\* Compare-and-set of the cap; a repetition finds the replacement in place.
RaiseCap(s, expectedBudget, newBudget, t) ==
  LET expected    == Floor(expectedBudget)
      replacement == Floor(newBudget)
  IN  /\ expected >= 1
      /\ replacement >= expected
      /\ cap[s] \in {expected, replacement}
      /\ cap' = [cap EXCEPT ![s] = replacement]
      /\ status' = ExpireLeases(s, t)
      /\ UNCHANGED <<now, root, reserved, expires, settledCost, rowVars>>

\* Mutant: a status the other statements do not know.
ReleaseUnknown(c) ==
  /\ status[c] = "active"
  /\ status' = [status EXCEPT ![c] = "released"]
  /\ UNCHANGED <<now, cap, root, reserved, expires, settledCost, rowVars>>

Release(c) ==
  /\ status[c] = "active"
  /\ status' = [status EXCEPT ![c] = "released_error"]
  /\ UNCHANGED <<now, cap, root, reserved, expires, settledCost, rowVars>>

\* Mutant: the UPDATE lost its status condition.
SettleAnyStatus(c, x) ==
  /\ status[c] # "none"
  /\ status' = [status EXCEPT ![c] = "settled"]
  /\ settledCost' = [settledCost EXCEPT ![c] = Ceil(x)]
  /\ UNCHANGED <<now, cap, root, reserved, expires, rowVars>>

\* Only an active row changes: an expired one raises, a released one is left.
Settle(c, x) ==
  /\ status[c] = "active"
  /\ status' = [status EXCEPT ![c] = "settled"]
  /\ settledCost' = [settledCost EXCEPT ![c] = Ceil(x)]
  /\ UNCHANGED <<now, cap, root, reserved, expires, rowVars>>

\* Mutant: a late heartbeat takes its expired lease back.
RenewExpired(c, t) ==
  /\ status[c] \in {"active", "expired"}
  /\ status' = [status EXCEPT ![c] = "active"]
  /\ expires' = [expires EXCEPT ![c] = t + LeaseTTL]
  /\ UNCHANGED <<now, cap, root, reserved, settledCost, rowVars>>

Renew(c, t) ==
  /\ status[c] = "active"
  /\ expires[c] > t
  /\ expires' = [expires EXCEPT ![c] = t + LeaseTTL]
  /\ UNCHANGED <<now, cap, root, status, reserved, settledCost, rowVars>>

\* io_log.log_call and log_embedding insert the priced row of a finished call,
\* whatever became of its reservation.  Embedding calls take none.
LogRow(c, tbl, x) ==
  /\ table[c] = "none"
  /\ tbl = "embeddings" => status[c] = "none"
  /\ table' = [table EXCEPT ![c] = tbl]
  /\ cost' = [cost EXCEPT ![c] = x]
  /\ covered' = [covered EXCEPT ![c] =
       IF status[c] # "active" THEN 0
       ELSE IF x <= Grain * reserved[c] THEN x ELSE Grain * reserved[c]]
  /\ UNCHANGED <<now, cap, leaseVars>>

Next ==
  \/ Tick
  \/ \E c \in Call, s \in Scope, b \in Budget, r \in Reservation, t \in Observed :
       Acquire(c, s, b, r, t)
  \/ \E s \in Scope, b, n \in Budget, t \in Observed : RaiseCap(s, b, n, t)
  \/ \E c \in Call : Release(c)
  \/ \E c \in Call, x \in Cost : Settle(c, x)
  \/ \E c \in Call, t \in Observed : Renew(c, t)
  \/ \E c \in Call, tbl \in Tables \ {"none"}, x \in Cost : LogRow(c, tbl, x)

Spec == Init /\ [][Next]_vars

-----------------------------------------------------------------------------
(* Properties *)

TypeOK ==
  /\ now \in 0 .. MaxTime
  /\ cap \in [Scope -> Nat]
  /\ root \in [Call -> Scope \cup {NoScope}]
  /\ status \in [Call -> Statuses]
  /\ reserved \in [Call -> Nat]
  /\ expires \in [Call -> Nat]
  /\ settledCost \in [Call -> Nat]
  /\ table \in [Call -> Tables]
  /\ cost \in [Call -> Nat]
  /\ covered \in [Call -> Nat]

(***************************************************************************)
(* The ledger keeps the promise of BudgetGate.  An active reservation      *)
(* whose call has no row yet is a promise; the covered part of a row is    *)
(* what was spent out of it.  Renewals, rows of unreserved or late calls,  *)
(* and the end of a reservation whose row is in are invisible there.       *)
(***************************************************************************)
InFlight(c) == status[c] = "active" /\ table[c] = "none"

Gate == INSTANCE BudgetGate WITH
  under    <- root,
  promised <- [c \in Call |-> IF InFlight(c) THEN reserved[c] ELSE 0],
  spent    <- covered

ImplementsGate == Gate!Spec

\* Admission counts settled rows and live leases in one transaction, so what a
\* scope has spent under its leases and still reserves fits its cap, however
\* renewals, expiries, settlements, rows and cap raises interleave.
CommittedWithinCap == Gate!CommittedWithinCap

\* All rows a scope counts belong to calls it admitted, were written while the
\* reservation was active, and cost no more than it.
Conforming(s) ==
  \A c \in CountedIn[s] : table[c] # "none" => root[c] = s /\ covered[c] = cost[c]

\* The raw spend of a scope whose calls all kept to their leases is within its
\* budget: neither a stale clock nor the rounding of each amount leaks money.
SpendWithinCap ==
  \A s \in Scope :
    Conforming(s) =>
      Total(cost, {c \in CountedIn[s] : table[c] # "none"}) <= Grain * cap[s]

\* The snapshot, which expires nothing, offers exactly what an admission at the
\* same observed time would grant.
SnapshotAgreesWithAdmission ==
  \A s \in Scope, t \in Observed, r \in {Ceil(x) : x \in Reservation} :
    cap[s] > 0 => (r <= Available(s, t) <=> Fits(s, t, cap[s], r))

\* A reservation that was settled, released or expired stays so, with its
\* settled cost: a late renewal, settlement or release cannot revive or rewrite
\* it after its share was handed to another call.
EndedIsFinal ==
  [][\A c \in Call : status[c] \notin {"none", "active"} =>
       status'[c] = status[c] /\ settledCost'[c] = settledCost[c]]_vars

\* Nobody else's operation takes a lease away before its own expiry time.
ExpiredOnlyWhenDue ==
  [][\A c \in Call : status[c] = "active" /\ status'[c] = "expired" =>
       expires[c] <= now]_vars
=============================================================================
