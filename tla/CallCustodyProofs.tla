--------------------------- MODULE CallCustodyProofs ---------------------------
(***************************************************************************)
(* For every set of calls, processes and scopes, every charge, retry bound *)
(* and fault: the envelope of public calls drives the ledger only through  *)
(* the ledger's own operations, hands out a result only when its cost was  *)
(* settled, never shows a settlement without its evidence, keeps a         *)
(* sequential scope to one call and within its budget, keeps the charges   *)
(* of reserved calls within the cap, and without raising faults gives back *)
(* what it acquired.                                                       *)
(***************************************************************************)
EXTENDS CallCustody, FiniteSetTheorems, TLAPS

\* What is proved about the ledger, for the ledger of this module.
Facts == INSTANCE BudgetLedgerProofs

LEMMA FactsApply == Facts!LedgerAssumption /\ Facts!ScopesAssumption /\ Facts!GrainAssumption
BY LedgerAssumption, ScopesAssumption, GrainAssumption DEF Facts!IsFiniteSet, IsFiniteSet

\* The two instances of the ledger are the same state machine.
LEMMA SameLedger ==
  /\ Ledger!Init <=> Facts!Init
  /\ [Ledger!Next]_(Ledger!vars) <=> [Facts!Next]_(Facts!vars)
  /\ Ledger!TypeOK <=> Facts!TypeOK
<1>1. Ledger!Init <=> Facts!Init
  BY DEF Ledger!Init, Facts!Init
<1>2. Ledger!Next <=> Facts!Next
  BY Zenon
  DEF Ledger!Next, Ledger!Tick, Ledger!Acquire, Ledger!RaiseCap, Ledger!Release,
      Ledger!Settle, Ledger!Renew, Ledger!LogRow, Ledger!leaseVars, Ledger!rowVars,
      Ledger!Observed, Ledger!Tables, Ledger!ExpireLeases, Ledger!Overdue, Ledger!Fits,
      Ledger!Settled, Ledger!Rows, Ledger!ActiveReserved, Ledger!Live, Ledger!Total,
      Ledger!Units, Ledger!Ceil, Ledger!Floor, Ledger!Cardinality,
      Facts!Next, Facts!Tick, Facts!Acquire, Facts!RaiseCap, Facts!Release,
      Facts!Settle, Facts!Renew, Facts!LogRow, Facts!leaseVars, Facts!rowVars,
      Facts!Observed, Facts!Tables, Facts!ExpireLeases, Facts!Overdue, Facts!Fits,
      Facts!Settled, Facts!Rows, Facts!ActiveReserved, Facts!Live, Facts!Total,
      Facts!Units, Facts!Ceil, Facts!Floor, Facts!Cardinality
<1>3. UNCHANGED Ledger!vars <=> UNCHANGED Facts!vars
  BY DEF Ledger!vars, Ledger!leaseVars, Ledger!rowVars,
         Facts!vars, Facts!leaseVars, Facts!rowVars
<1>4. Ledger!TypeOK <=> Facts!TypeOK
  BY DEF Ledger!TypeOK, Ledger!Statuses, Ledger!Tables,
         Facts!TypeOK, Facts!Statuses, Facts!Tables
<1> QED
  BY <1>1, <1>2, <1>3, <1>4

\* The ledger's rounding is that of Money.
LEMMA SameCeil == \A x : Ledger!Ceil(x) = Ceil(x)
BY DEF Ledger!Ceil, Ceil

-----------------------------------------------------------------------------
(* Money: what is proved of the ledger's sums holds for those of this module *)

\* The sums and the rounding of the ledger are those of Money.
LEMMA SameSums ==
  /\ \A f, S : Facts!Total(f, S) = Total(f, S)
  /\ \A x : Facts!Ceil(x) = Ceil(x)
<1>1. \A S : Facts!Cardinality(S) = Cardinality(S)
  BY Zenon DEF Facts!Cardinality, Cardinality
<1> QED
  BY <1>1 DEF Facts!Total, Facts!Units, Facts!Ceil, Total, Units, Ceil

LEMMA CeilBounds ==
  ASSUME NEW x \in Nat
  PROVE  /\ Ceil(x) \in Nat
         /\ x <= Grain * Ceil(x)
         /\ Grain * Ceil(x) < x + Grain
BY FactsApply, SameSums, Facts!CeilBounds

LEMMA SameFinite == \A S : Facts!IsFiniteSet(S) <=> IsFiniteSet(S)
BY Zenon DEF Facts!IsFiniteSet, IsFiniteSet

LEMMA TotalType ==
  ASSUME NEW S, IsFiniteSet(S), NEW f, \A c \in S : f[c] \in Nat
  PROVE  Total(f, S) \in Nat
BY FactsApply, SameSums, SameFinite, Facts!TotalType

LEMMA TotalMonotone ==
  ASSUME NEW T, IsFiniteSet(T), NEW S \in SUBSET T, NEW f, NEW g,
         \A c \in T : g[c] \in Nat,
         \A c \in S : f[c] \in Nat /\ f[c] <= g[c]
  PROVE  Total(f, S) <= Total(g, T)
BY FactsApply, SameSums, SameFinite, Facts!TotalMonotone

LEMMA TotalCongruence ==
  ASSUME NEW S, NEW f, NEW g, \A c \in S : f[c] = g[c]
  PROVE  Total(f, S) = Total(g, S)
BY FactsApply, SameSums, SameFinite, Facts!TotalCongruence

LEMMA TotalSplit ==
  ASSUME NEW S, IsFiniteSet(S), NEW f, \A c \in S : f[c] \in Nat, NEW d \in S
  PROVE  /\ Total(f, S \ {d}) \in Nat
         /\ Total(f, S) = Total(f, S \ {d}) + f[d]
BY FactsApply, SameSums, SameFinite, Facts!TotalSplit

LEMMA TotalOnSupport ==
  ASSUME NEW A, NEW B \in SUBSET A, NEW f, \A c \in A \ B : f[c] = 0
  PROVE  Total(f, A) = Total(f, B)
BY FactsApply, SameSums, SameFinite, Facts!TotalOnSupport

LEMMA TotalUnion ==
  ASSUME NEW A, NEW B, IsFiniteSet(A), IsFiniteSet(B), NEW f,
         \A c \in A \cup B : f[c] \in Nat
  PROVE  Total(f, A \cup B) <= Total(f, A) + Total(f, B)
BY FactsApply, SameSums, SameFinite, Facts!TotalUnion

LEMMA TotalInGrains ==
  ASSUME NEW S, IsFiniteSet(S), NEW f, NEW g,
         \A c \in S : f[c] \in Nat /\ g[c] = Grain * f[c]
  PROVE  /\ Total(f, S) \in Nat
         /\ Total(g, S) <= Grain * Total(f, S)
BY FactsApply, SameSums, SameFinite, Facts!TotalInGrains

-----------------------------------------------------------------------------
(* Types *)

\* What a call is known to have cost is the sum of at most `priced' charges.
Accounts ==
  \A c \in Call : priced[c] <= attempts[c] /\ observed[c] <= priced[c] * MaxCharge

LEMMA ObservedIsCost ==
  ASSUME TypeOK, Accounts, NEW c \in Call
  PROVE  observed[c] \in Cost /\ 0 \in Cost
<1>1. /\ priced[c] \in Nat /\ priced[c] <= MaxAttempts /\ observed[c] \in Nat
      /\ observed[c] <= priced[c] * MaxCharge
      /\ MaxAttempts \in Nat /\ MaxCharge \in Nat
  BY CustodyAssumption DEF TypeOK, Accounts
<1>2. \A p, a, m \in Nat : p <= a => p * m <= a * m
  OBVIOUS
<1>3. priced[c] * MaxCharge <= MaxAttempts * MaxCharge
  BY <1>1, <1>2
<1>4. MaxAttempts * MaxCharge \in Nat /\ priced[c] * MaxCharge \in Nat
  BY <1>1
<1>5. observed[c] \in 0 .. MaxAttempts * MaxCharge /\ 0 \in 0 .. MaxAttempts * MaxCharge
  BY <1>1, <1>3, <1>4
<1> QED
  BY <1>5, CustodyAssumption

-----------------------------------------------------------------------------
(* Every step is a step of the ledger *)

LEMMA StepIsLedgerStep ==
  TypeOK /\ Accounts /\ [Next]_vars => [Ledger!Next]_(Ledger!vars)
<1> SUFFICES ASSUME TypeOK, Accounts, [Next]_vars PROVE [Ledger!Next]_(Ledger!vars)
  OBVIOUS
<1>0. ledgerVars' = ledgerVars => UNCHANGED Ledger!vars
  BY DEF ledgerVars, Ledger!vars, Ledger!leaseVars, Ledger!rowVars
<1>1. CASE Tick
  BY <1>1 DEF Tick, Ledger!Next
<1>2. ASSUME NEW c \in Call, CallStep(c)
      PROVE  [Ledger!Next]_(Ledger!vars)
  <2>1. ASSUME NEW t \in Ledger!Observed, AcquireLease(c, t) PROVE Ledger!Next
    <3>1. /\ ScopeOf[c] \in Scope
          /\ MaxBudget[ScopeOf[c]] \in Budget
          /\ Asked[c] \in Reservation
      BY <2>1, CustodyAssumption DEF AcquireLease
    <3> QED
      BY <2>1, <3>1 DEF AcquireLease, Ledger!Next
  <2>2. ASSUME NEW x \in Cost, WriteRow(c, x) PROVE [Ledger!Next]_(Ledger!vars)
    <3>1. CASE Ledger!LogRow(c, "llm_calls", x)
      <4>1. "llm_calls" \in Ledger!Tables \ {"none"}
        BY DEF Ledger!Tables
      <4> QED
        BY <2>2, <3>1, <4>1 DEF Ledger!Next
    <3> QED
      BY <1>0, <2>2, <3>1 DEF WriteRow
  <2>3. ASSUME Succeed(c) \/ Fail(c) PROVE [Ledger!Next]_(Ledger!vars)
    BY <2>2, <2>3, ObservedIsCost DEF Succeed, Fail
  <2>4. CASE SettleLease(c)
    BY <1>0, <2>4, ObservedIsCost DEF SettleLease, Ledger!Next
  <2>5. CASE ReleaseLease(c)
    BY <1>0, <2>5 DEF ReleaseLease, Ledger!Next
  <2>6. ASSUME UNCHANGED ledgerVars PROVE [Ledger!Next]_(Ledger!vars)
    BY <1>0, <2>6
  <2> QED
    BY <1>2, <2>1, <2>3, <2>4, <2>5, <2>6
    DEF CallStep, Track, EnterScope, RaiseEarly, Start, Check, Attempt, Retry, Cancel,
        Interrupt, Emit, RaiseLate, AskKeeper, CloseFails, LeaveScope
<1>3. ASSUME NEW p \in Process, BeginSweep(p) \/ Crash(p) PROVE [Ledger!Next]_(Ledger!vars)
  BY <1>0, <1>3 DEF BeginSweep, Crash
<1>4. ASSUME NEW c \in Call, NEW t \in Ledger!Observed, SweepOne(c, t)
      PROVE  [Ledger!Next]_(Ledger!vars)
  BY <1>0, <1>4 DEF SweepOne, Ledger!Next
<1>5. CASE UNCHANGED vars
  BY <1>0, <1>5 DEF vars
<1> QED
  BY <1>1, <1>2, <1>3, <1>4, <1>5 DEF Next

-----------------------------------------------------------------------------
(* Type correctness and the refinement *)

LEMMA CustodyInit == Init => TypeOK /\ Accounts
<1> SUFFICES ASSUME Init PROVE TypeOK /\ Accounts
  OBVIOUS
<1>1. Ledger!TypeOK
  BY FactsApply, SameLedger, Facts!LedgerTypeInit DEF Init
<1> QED
  BY <1>1, CustodyAssumption DEF Init, TypeOK, Accounts, Points

LEMMA CustodyStep == TypeOK /\ Accounts /\ [Next]_vars => TypeOK' /\ Accounts'
<1> SUFFICES ASSUME TypeOK, Accounts, [Next]_vars PROVE TypeOK' /\ Accounts'
  OBVIOUS
<1>1. Ledger!TypeOK'
  <2>1. Facts!TypeOK /\ [Facts!Next]_(Facts!vars)
    BY StepIsLedgerStep, SameLedger DEF TypeOK
  <2>2. Facts!TypeOK'
    BY <2>1, FactsApply, Facts!LedgerTypeStep
  <2>3. Ledger!TypeOK' <=> Facts!TypeOK'
    BY DEF Ledger!TypeOK, Ledger!Statuses, Ledger!Tables,
           Facts!TypeOK, Facts!Statuses, Facts!Tables
  <2> QED
    BY <2>2, <2>3
<1> DEFINE Rest == /\ pc' \in [Call -> Points]
                   /\ outcome' \in [Call -> {"none", "returned", "raised", "cancelled"}]
                   /\ terminal' \in [Call -> {"none", "completed", "failed", "cancelled"}]
                   /\ reply' \in [Call -> {"none", "result", "error", "lease_lost", "overrun"}]
                   /\ attempts' \in [Call -> 0 .. MaxAttempts]
                   /\ priced' \in [Call -> 0 .. MaxAttempts]
                   /\ observed' \in [Call -> Nat] /\ billed' \in [Call -> Nat]
                   /\ tracked' \subseteq Call /\ lost' \subseteq Call
                   /\ sweep' \in [Process -> SUBSET Call]
                   /\ held' \subseteq Process \X Scope
                   /\ up' \in [Process -> BOOLEAN]
                   /\ Accounts'
<1>2. UNCHANGED attemptVars => Accounts'
  BY DEF attemptVars, Accounts
<1>3. Rest
  <2>0. Home \in [Call -> Process] /\ ScopeOf \in [Call -> Scope] /\ MaxAttempts \in Nat
    BY CustodyAssumption
  <2> USE <1>2, <2>0 DEF TypeOK, callVars, attemptVars, keeperVars,
                         Goes, Ends, Finishes, Untrack, OwnReply, Points
  <2>1. CASE Tick
    BY <2>1 DEF Tick
  <2>2. ASSUME NEW c \in Call, NEW x \in Charge, NEW seen \in BOOLEAN, Attempt(c, x, seen)
        PROVE  Rest
    <3>1. /\ x \in 0 .. MaxCharge /\ MaxCharge \in Nat
          /\ attempts[c] \in Nat /\ attempts[c] < MaxAttempts
          /\ priced[c] \in Nat /\ priced[c] <= attempts[c]
          /\ observed[c] \in Nat /\ observed[c] <= priced[c] * MaxCharge
      BY <2>2, CustodyAssumption DEF Attempt, Accounts
    <3>2. /\ attempts[c] + 1 \in 0 .. MaxAttempts
          /\ priced[c] + 1 \in 0 .. MaxAttempts
          /\ priced[c] + 1 <= attempts[c] + 1
          /\ x \in Nat /\ observed[c] + x \in Nat /\ billed[c] + x \in Nat
      BY <3>1
    <3>3. /\ (priced[c] + 1) * MaxCharge = priced[c] * MaxCharge + MaxCharge
          /\ priced[c] * MaxCharge \in Nat
      BY <3>1
    <3>4. /\ observed[c] + x <= (priced[c] + 1) * MaxCharge
          /\ x <= (priced[c] + 1) * MaxCharge
      BY <3>1, <3>3
    <3>5. /\ attempts' \in [Call -> 0 .. MaxAttempts]
          /\ priced' \in [Call -> 0 .. MaxAttempts]
          /\ observed' \in [Call -> Nat] /\ billed' \in [Call -> Nat]
      <4>1. attempts' \in [Call -> 0 .. MaxAttempts] /\ billed' \in [Call -> Nat]
        BY <2>2, <3>2 DEF Attempt
      <4>2. CASE seen
        BY <2>2, <3>2, <4>1, <4>2 DEF Attempt
      <4>3. CASE ~seen
        BY <2>2, <4>1, <4>3 DEF Attempt
      <4> QED
        BY <4>2, <4>3
    <3>6. \A d \in Call : priced'[d] <= attempts'[d] /\ observed'[d] <= priced'[d] * MaxCharge
      <4> TAKE d \in Call
      <4>1. CASE d # c
        BY <2>2, <4>1 DEF Attempt, Accounts
      <4>2. CASE d = c /\ seen
        BY <2>2, <3>2, <3>4, <4>2 DEF Attempt
      <4>3. CASE d = c /\ ~seen
        BY <2>2, <3>1, <4>3 DEF Attempt
      <4> QED
        BY <4>1, <4>2, <4>3
    <3>7. Accounts'
      BY <3>6 DEF Accounts
    <3> QED
      BY <2>2, <3>5, <3>7 DEF Attempt
  <2>3. ASSUME NEW c \in Call, NEW t, AcquireLease(c, t) PROVE Rest
    BY <2>3 DEF AcquireLease
  <2>4. ASSUME NEW c \in Call,
               \/ Track(c) \/ RaiseEarly(c) \/ Start(c) \/ Check(c) \/ Retry(c)
               \/ Succeed(c) \/ Fail(c) \/ Cancel(c) \/ Interrupt(c)
               \/ Emit(c) \/ RaiseLate(c)
        PROVE  Rest
    BY <2>4 DEF Track, RaiseEarly, Start, Check, Retry, Succeed, Fail, Cancel, Interrupt,
                Emit, RaiseLate
  <2>5. ASSUME NEW c \in Call, EnterScope(c) \/ LeaveScope(c) PROVE Rest
    BY <2>5 DEF EnterScope, LeaveScope, Token
  <2>6. ASSUME NEW c \in Call, \/ AskKeeper(c) \/ SettleLease(c) \/ ReleaseLease(c) \/ CloseFails(c)
        PROVE  Rest
    BY <2>6 DEF AskKeeper, SettleLease, ReleaseLease, CloseFails
  <2>7. ASSUME NEW p \in Process, BeginSweep(p) \/ Crash(p) PROVE Rest
    BY <2>7 DEF BeginSweep, Crash
  <2>8. ASSUME NEW c \in Call, NEW t, SweepOne(c, t) PROVE Rest
    BY <2>8 DEF SweepOne
  <2>9. CASE UNCHANGED vars
    BY <2>9 DEF vars
  <2> HIDE DEF Rest
  <2> QED
    BY <2>1, <2>2, <2>3, <2>4, <2>5, <2>6, <2>7, <2>8, <2>9 DEF Next, CallStep
<1> QED
  BY <1>1, <1>3 DEF TypeOK

LEMMA CustodyInvariant == Spec => [](TypeOK /\ Accounts)
BY CustodyInit, CustodyStep, PTL DEF Spec

\* Every variable of the envelope, the keeper and the ledger keeps its type.
THEOREM CustodyTypeCorrect == Spec => []TypeOK
BY CustodyInvariant, PTL

\* Envelopes, keepers, crashes and faults change the ledger only by the
\* ledger's own operations, with amounts the ledger accepts.
THEOREM CustodyImplementsLedger == Spec => ImplementsLedger
<1>1. Init => Ledger!Init
  BY DEF Init
<1> QED
  BY <1>1, StepIsLedgerStep, CustodyInvariant, PTL DEF Spec, ImplementsLedger, Ledger!Spec

\* What is proved of the ledger holds beneath the envelopes.
LEMMA LedgerFacts == Spec => [](Facts!TypeOK /\ Facts!Bookkeeping /\ Facts!CommittedWithinCap)
<1>1. Ledger!Init => Facts!Init
  BY SameLedger
<1>2. [Ledger!Next]_(Ledger!vars) => [Facts!Next]_(Facts!vars)
  BY SameLedger
<1>3. ImplementsLedger => Facts!Spec
  BY <1>1, <1>2, PTL DEF ImplementsLedger, Ledger!Spec, Facts!Spec
<1> QED
  BY <1>3, CustodyImplementsLedger, FactsApply, Facts!LedgerInvariant, PTL

\* In particular the covered spend and the open reservations of a scope never
\* exceed its cap, whatever the envelopes, keepers and crashes do.
THEOREM CustodyCommittedWithinCap == Spec => []Facts!CommittedWithinCap
BY LedgerFacts, PTL

-----------------------------------------------------------------------------
(* Evidence and settlement *)

\* What the point of a call tells about its terminal event, its row, its lease
\* and its reply.  A lease is closed by the last step of its call only.
Evidence(c) ==
  /\ pc[c] \in {"new", "tracking", "preparing", "checking"} => attempts[c] = 0
  /\ pc[c] \in {"closing", "settling"} => terminal[c] # "none"
  /\ pc[c] = "settling" => Settles(c)
  /\ pc[c] \in {"stopping", "closing", "settling"} /\ Settles(c) /\ "row_store" \notin Fault =>
       table[c] = "llm_calls"
  /\ status[c] \in {"settled", "released_error"} => pc[c] = "ended" /\ terminal[c] # "none"
  /\ status[c] = "settled" /\ "row_store" \notin Fault => table[c] = "llm_calls"
  /\ Mode[c] = "reserved_concurrent" /\ reply[c] = "result" =>
       /\ pc[c] = "ended"
       /\ status[c] = "settled"
       /\ settledCost[c] = Ceil(observed[c])
       /\ settledCost[c] <= reserved[c]

\* A step of others leaves a call alone, but may expire its lease.
Still(d) ==
  /\ pc'[d] = pc[d] /\ outcome'[d] = outcome[d]
  /\ terminal'[d] = terminal[d] /\ reply'[d] = reply[d]
  /\ attempts'[d] = attempts[d] /\ priced'[d] = priced[d]
  /\ observed'[d] = observed[d] /\ billed'[d] = billed[d]
  /\ table'[d] = table[d] /\ cost'[d] = cost[d] /\ covered'[d] = covered[d]
  /\ root'[d] = root[d]
  /\ settledCost'[d] = settledCost[d] /\ reserved'[d] = reserved[d]
  /\ \/ status'[d] = status[d]
     \/ status[d] = "active" /\ status'[d] = "expired"

LEMMA StillKeepsEvidence ==
  ASSUME NEW d \in Call, Evidence(d), Still(d)
  PROVE  Evidence(d)'
BY DEF Evidence, Still, Settles

LEMMA OthersStill ==
  ASSUME TypeOK, NEW c \in Call, CallStep(c), NEW d \in Call, d # c
  PROVE  Still(d)
<1> USE DEF TypeOK, Still, Goes, Ends, Finishes, ledgerVars, attemptVars, Ledger!TypeOK
<1>1. ASSUME NEW t, AcquireLease(c, t) PROVE Still(d)
  BY <1>1 DEF AcquireLease, Ledger!Acquire, Ledger!ExpireLeases, Ledger!Overdue, Ledger!rowVars
<1>2. ASSUME NEW x, NEW seen, Attempt(c, x, seen) PROVE Still(d)
  BY <1>2 DEF Attempt
<1>3. CASE Succeed(c) \/ Fail(c)
  BY <1>3 DEF Succeed, Fail, WriteRow, Ledger!LogRow, Ledger!leaseVars
<1>4. CASE SettleLease(c)
  BY <1>4 DEF SettleLease, Ledger!Settle, Ledger!rowVars
<1>5. CASE ReleaseLease(c)
  BY <1>5 DEF ReleaseLease, Ledger!Release, Ledger!rowVars
<1>6. CASE \/ Track(c) \/ EnterScope(c) \/ RaiseEarly(c) \/ Start(c) \/ Check(c) \/ Retry(c)
           \/ Cancel(c) \/ Interrupt(c) \/ Emit(c) \/ RaiseLate(c)
  BY <1>6 DEF Track, EnterScope, RaiseEarly, Start, Check, Retry, Cancel, Interrupt, Emit,
              RaiseLate
<1>7. CASE AskKeeper(c) \/ CloseFails(c) \/ LeaveScope(c)
  BY <1>7 DEF AskKeeper, CloseFails, LeaveScope
<1> QED
  BY <1>1, <1>2, <1>3, <1>4, <1>5, <1>6, <1>7 DEF CallStep

LEMMA OwnStepKeepsEvidence ==
  ASSUME TypeOK, NEW c \in Call, Evidence(c), CallStep(c)
  PROVE  Evidence(c)'
<1> USE DEF TypeOK, Goes, Ends, Finishes, ledgerVars, attemptVars, Ledger!TypeOK, Evidence, Settles
<1>1. ASSUME NEW t, AcquireLease(c, t) PROVE Evidence(c)'
  <2>1. /\ pc[c] = "new" /\ pc'[c] = "tracking" /\ Mode[c] = "reserved_concurrent"
        /\ UNCHANGED <<terminal, reply, attempts>>
    BY <1>1 DEF AcquireLease
  <2>2. status' = [Ledger!ExpireLeases(ScopeOf[c], t) EXCEPT ![c] = "active"]
    BY <1>1 DEF AcquireLease, Ledger!Acquire
  <2>3. status'[c] = "active"
    BY <2>2 DEF Ledger!ExpireLeases
  <2> QED
    BY <2>1, <2>3
<1>2. ASSUME NEW x, NEW seen, Attempt(c, x, seen) PROVE Evidence(c)'
  BY <1>2 DEF Attempt
<1>3. CASE Succeed(c) \/ Fail(c)
  BY <1>3 DEF Succeed, Fail, WriteRow, Ledger!LogRow, Ledger!leaseVars
<1>4. CASE SettleLease(c)
  <2>1. /\ pc[c] = "settling" /\ pc'[c] = "ended"
        /\ UNCHANGED <<outcome, terminal, attempts, priced, observed>>
    BY <1>4 DEF SettleLease
  <2>2. CASE reply'[c] = "lease_lost" /\ status[c] = "expired" /\ UNCHANGED ledgerVars
    BY <2>1, <2>2
  <2>3. CASE /\ Ledger!Settle(c, observed[c])
             /\ reply'[c] = IF Ceil(observed[c]) > reserved[c] THEN "overrun" ELSE OwnReply(c)
    <3>1. /\ status'[c] = "settled" /\ settledCost'[c] = Ceil(observed[c])
          /\ table' = table /\ reserved' = reserved
      BY <2>3, SameCeil DEF Ledger!Settle, Ledger!rowVars
    <3>2. Ceil(observed[c]) \in Nat /\ reserved[c] \in Nat
      BY GrainAssumption, CeilBounds
    <3>3. reply'[c] = "result" => settledCost'[c] <= reserved'[c]
      BY <2>3, <3>1, <3>2
    <3> QED
      BY <2>1, <3>1, <3>3
  <2> QED
    BY <1>4, <2>2, <2>3 DEF SettleLease
<1>5. CASE ReleaseLease(c)
  BY <1>5 DEF ReleaseLease, Ledger!Release, Ledger!rowVars
<1>6. CASE \/ Track(c) \/ EnterScope(c) \/ RaiseEarly(c) \/ Start(c) \/ Check(c) \/ Retry(c)
           \/ Cancel(c) \/ Interrupt(c) \/ Emit(c) \/ RaiseLate(c)
  BY <1>6 DEF Track, EnterScope, RaiseEarly, Start, Check, Retry, Cancel, Interrupt, Emit,
              RaiseLate
<1>7. CASE AskKeeper(c) \/ CloseFails(c) \/ LeaveScope(c)
  BY <1>7 DEF AskKeeper, CloseFails, LeaveScope
<1> QED
  BY <1>1, <1>2, <1>3, <1>4, <1>5, <1>6, <1>7 DEF CallStep

EvidenceKept == \A c \in Call : Evidence(c)

\* Every step is one call's own step, or leaves every call as it is.
LEMMA OneCallMoves ==
  ASSUME TypeOK, [Next]_vars
  PROVE  \/ \A d \in Call : Still(d)
         \/ \E c \in Call : CallStep(c) /\ \A d \in Call : d # c => Still(d)
<1>1. ASSUME NEW c \in Call, CallStep(c)
      PROVE  CallStep(c) /\ \A d \in Call : d # c => Still(d)
  BY <1>1, OthersStill
<1>2. CASE Tick
  BY <1>2 DEF Tick, Ledger!Tick, Ledger!leaseVars, Ledger!rowVars, Still, callVars, attemptVars
<1>3. ASSUME NEW p \in Process, BeginSweep(p) \/ Crash(p) PROVE \A d \in Call : Still(d)
  BY <1>3 DEF BeginSweep, Crash, Still, ledgerVars, callVars, attemptVars
<1>4. ASSUME NEW c \in Call, NEW t, SweepOne(c, t) PROVE \A d \in Call : Still(d)
  BY <1>4 DEF SweepOne, Ledger!Renew, Ledger!rowVars, Still, ledgerVars, callVars, attemptVars
<1>5. CASE UNCHANGED vars
  BY <1>5 DEF vars, Still, ledgerVars, callVars, attemptVars
<1> QED
  BY <1>1, <1>2, <1>3, <1>4, <1>5 DEF Next

LEMMA EvidenceStep == TypeOK /\ EvidenceKept /\ [Next]_vars => EvidenceKept'
BY OneCallMoves, OwnStepKeepsEvidence, StillKeepsEvidence DEF EvidenceKept

LEMMA EvidenceAlways == Spec => []EvidenceKept
<1>1. Init => EvidenceKept
  BY DEF Init, Ledger!Init, EvidenceKept, Evidence
<1> QED
  BY <1>1, EvidenceStep, CustodyInvariant, PTL DEF Spec

\* Whatever the keeper, expiry, cancellation and failing stores do, a result is
\* handed out only with its cost settled, in full and within its lease.
THEOREM CustodyResultMeansSettled == Spec => []ResultMeansSettled
<1>1. EvidenceKept => ResultMeansSettled
  BY DEF EvidenceKept, Evidence, ResultMeansSettled
<1> QED
  BY <1>1, EvidenceAlways, PTL

\* A crash at any point leaves no ended lease without its terminal event, and no
\* settlement without its row unless rows can be lost.
THEOREM CustodyEvidenceFirst == Spec => []EvidenceBeforeCustody
<1>1. EvidenceKept => EvidenceBeforeCustody
  BY DEF EvidenceKept, Evidence, EvidenceBeforeCustody
<1> QED
  BY <1>1, EvidenceAlways, PTL

-----------------------------------------------------------------------------
(* What a call was charged, what its row says and what its lease covers *)

\* The cost on a call is its whole charge once every attempt was priced.
Exact(c) ==
  /\ attempts[c] = 0 => billed[c] = 0 /\ observed[c] = 0
  /\ priced[c] = attempts[c] /\ (Kind[c] = "text" => attempts[c] <= 1) =>
       observed[c] = billed[c]

\* invoke() has ended from the point where its monitor stops, and only then is
\* a lease given back.
Finished(c) ==
  /\ outcome[c] # "none" => pc[c] \in {"stopping", "closing", "settling", "ended"}
  /\ pc[c] \in {"stopping", "closing", "settling"} => outcome[c] # "none"
  /\ status[c] \in {"settled", "released_error"} => outcome[c] # "none"

RowTells(c) ==
  table[c] # "none" =>
    /\ outcome[c] \in {"returned", "raised"}
    /\ cost[c] = IF outcome[c] = "raised" /\ Kind[c] = "text" THEN 0 ELSE observed[c]

\* A reserved call has its lease from its first step on, and the row it wrote
\* was covered unless the lease had expired by then.
LeaseTells(c) ==
  Mode[c] = "reserved_concurrent" =>
    /\ root[c] \in {NoScope, ScopeOf[c]}
    /\ status[c] = "none" <=> pc[c] = "new"
    /\ table[c] # "none" /\ status[c] # "expired" =>
         covered[c] = IF cost[c] <= Grain * reserved[c] THEN cost[c] ELSE Grain * reserved[c]

Books(c) == Exact(c) /\ Finished(c) /\ RowTells(c) /\ LeaseTells(c)

LEMMA StillKeepsBooks ==
  ASSUME NEW d \in Call, Books(d), Still(d)
  PROVE  Books(d)'
<1>1. Exact(d)' /\ Finished(d)' /\ RowTells(d)'
  BY DEF Books, Exact, Finished, RowTells, Still
<1>2. LeaseTells(d)'
  BY DEF Books, LeaseTells, Still
<1> QED
  BY <1>1, <1>2 DEF Books

\* What a step of an envelope leaves alone: the attempts, its row, its lease.
SameAttempts(c) ==
  /\ attempts'[c] = attempts[c] /\ priced'[c] = priced[c]
  /\ observed'[c] = observed[c] /\ billed'[c] = billed[c]

SameRow(c) == table'[c] = table[c] /\ cost'[c] = cost[c] /\ covered'[c] = covered[c]

SameLease(c) ==
  status'[c] = status[c] /\ root'[c] = root[c] /\ reserved'[c] = reserved[c]

\* A step that only moves the call, and ends invoke() if it was going on.
LEMMA MoveKeepsBooks ==
  ASSUME NEW c \in Call, Books(c), SameAttempts(c), SameRow(c),
         root'[c] = root[c], reserved'[c] = reserved[c],
         \/ status'[c] = status[c]
         \/ /\ status[c] = "active" /\ status'[c] \in {"settled", "released_error"}
            /\ outcome[c] # "none",
         pc[c] # "new" \/ Mode[c] = "sequential", pc'[c] # "new",
         \/ /\ outcome'[c] = outcome[c]
            /\ pc'[c] \in {"stopping", "closing", "settling"} => outcome[c] # "none"
            /\ outcome[c] # "none" => pc'[c] \in {"stopping", "closing", "settling", "ended"}
         \/ outcome[c] = "none" /\ outcome'[c] # "none" /\ pc'[c] = "stopping"
  PROVE  Books(c)'
<1>1. Exact(c)'
  BY DEF Books, Exact, SameAttempts
<1>2. Finished(c)'
  BY DEF Books, Finished
<1>3. RowTells(c)'
  BY DEF Books, RowTells, SameRow, SameAttempts
<1>4. LeaseTells(c)'
  BY CustodyAssumption DEF Books, LeaseTells, SameRow
<1> QED
  BY <1>1, <1>2, <1>3, <1>4 DEF Books

LEMMA AttemptKeepsBooks ==
  ASSUME TypeOK, Accounts, NEW c \in Call, Books(c),
         NEW x \in Charge, NEW seen \in BOOLEAN, Attempt(c, x, seen)
  PROVE  Books(c)'
<1>1. /\ pc[c] = "running" /\ pc'[c] \in {"running", "responded"}
      /\ UNCHANGED <<outcome, ledgerVars>>
  BY DEF Attempt, Goes, TypeOK
<1>2. outcome[c] = "none"
  BY <1>1 DEF Books, Finished
<1>3. Exact(c)'
  <2>1. /\ x \in Nat /\ attempts[c] \in Nat /\ priced[c] \in Nat /\ priced[c] <= attempts[c]
        /\ observed[c] \in Nat /\ billed[c] \in Nat
    BY CustodyAssumption DEF TypeOK, Accounts
  <2>2. attempts'[c] = attempts[c] + 1 /\ billed'[c] = billed[c] + x
    BY DEF Attempt, TypeOK
  <2>3. CASE seen
    <3>1. /\ priced'[c] = priced[c] + 1
          /\ observed'[c] = IF Kind[c] = "text" THEN x ELSE observed[c] + x
      BY <2>3 DEF Attempt, TypeOK
    <3> QED
      BY <2>1, <2>2, <3>1 DEF Books, Exact
  <2>4. CASE ~seen
    <3>1. priced'[c] = priced[c]
      BY <2>4 DEF Attempt
    <3> QED
      BY <2>1, <2>2, <3>1 DEF Exact
  <2> QED
    BY <2>3, <2>4
<1>4. Finished(c)' /\ RowTells(c)'
  BY <1>1, <1>2 DEF Books, Finished, RowTells, ledgerVars
<1>5. LeaseTells(c)'
  BY <1>1 DEF Books, LeaseTells, ledgerVars
<1> QED
  BY <1>3, <1>4, <1>5 DEF Books

\* The row is written with the cost of the call, covered by a lease that runs.
LEMMA RowKeepsBooks ==
  ASSUME TypeOK, Accounts, NEW c \in Call, Books(c), Succeed(c) \/ Fail(c)
  PROVE  Books(c)'
<1>1. /\ pc[c] \in {"running", "responded"} /\ pc'[c] = "stopping"
      /\ outcome'[c] = IF Succeed(c) THEN "returned" ELSE "raised"
      /\ UNCHANGED attemptVars
  BY DEF Succeed, Fail, Finishes, Goes, TypeOK
<1>2. outcome[c] = "none" /\ outcome'[c] \in {"returned", "raised"}
  BY <1>1 DEF Books, Finished
<1>3. SameAttempts(c)
  BY <1>1 DEF SameAttempts, attemptVars
<1>4. table[c] = "none"
  BY <1>2 DEF Books, RowTells
<1> DEFINE x == IF outcome'[c] = "raised" /\ Kind[c] = "text" THEN 0 ELSE observed[c]
<1>5. WriteRow(c, x)
  BY <1>1 DEF Succeed, Fail
<1> HIDE DEF x
<1>6. CASE UNCHANGED ledgerVars
  <2>1. SameRow(c) /\ SameLease(c)
    BY <1>6 DEF SameRow, SameLease, ledgerVars
  <2> QED
    BY <1>1, <1>2, <1>3, <2>1, MoveKeepsBooks DEF SameLease
<1>7. CASE Ledger!LogRow(c, "llm_calls", x)
  <2>1. /\ SameLease(c) /\ table'[c] = "llm_calls" /\ cost'[c] = x
        /\ covered'[c] = IF status[c] # "active" THEN 0
                         ELSE IF x <= Grain * reserved[c] THEN x ELSE Grain * reserved[c]
    BY <1>7 DEF Ledger!LogRow, Ledger!leaseVars, SameLease, TypeOK, Ledger!TypeOK
  <2>2. Exact(c)'
    BY <1>3 DEF Books, Exact, SameAttempts
  <2>3. Finished(c)'
    BY <1>1, <1>2, <2>1 DEF Books, Finished, SameLease
  <2>4. RowTells(c)'
    BY <1>2, <1>3, <2>1 DEF RowTells, SameAttempts, x
  <2>5. LeaseTells(c)'
    <3>1. status[c] \in {"none", "active", "expired"}
      BY <1>2 DEF Books, Finished, TypeOK, Ledger!TypeOK, Ledger!Statuses
    <3>2. Mode[c] = "reserved_concurrent" => status[c] # "none"
      BY <1>1 DEF Books, LeaseTells
    <3> QED
      BY <1>1, <2>1, <3>1, <3>2 DEF Books, LeaseTells, SameLease
  <2> QED
    BY <2>2, <2>3, <2>4, <2>5 DEF Books
<1> QED
  BY <1>5, <1>6, <1>7 DEF WriteRow

LEMMA OwnStepKeepsBooks ==
  ASSUME TypeOK, Accounts, NEW c \in Call, Books(c), Evidence(c), CallStep(c)
  PROVE  Books(c)'
<1> USE DEF TypeOK, Goes, Ends, Finishes, ledgerVars, attemptVars, Ledger!TypeOK,
            SameAttempts, SameRow
<1>1. ASSUME NEW t, AcquireLease(c, t) PROVE Books(c)'
  <2>1. /\ pc[c] = "new" /\ pc'[c] = "tracking" /\ outcome' = outcome
        /\ UNCHANGED <<attemptVars, table, cost, covered>>
    BY <1>1 DEF AcquireLease, Ledger!Acquire, Ledger!rowVars
  <2>2. status'[c] = "active" /\ root'[c] = ScopeOf[c] /\ table[c] = "none"
    <3>1. /\ status' = [Ledger!ExpireLeases(ScopeOf[c], t) EXCEPT ![c] = "active"]
          /\ root' = [root EXCEPT ![c] = ScopeOf[c]]
          /\ table[c] = "none"
      BY <1>1 DEF AcquireLease, Ledger!Acquire
    <3> QED
      BY <3>1 DEF Ledger!ExpireLeases
  <2>3. outcome[c] = "none"
    BY <2>1 DEF Books, Finished
  <2> QED
    BY <2>1, <2>2, <2>3 DEF Books, Exact, Finished, RowTells, LeaseTells
<1>2. ASSUME NEW x \in Charge, NEW seen \in BOOLEAN, Attempt(c, x, seen) PROVE Books(c)'
  BY <1>2, AttemptKeepsBooks
<1>3. CASE Succeed(c) \/ Fail(c)
  BY <1>3, RowKeepsBooks
<1>4. CASE SettleLease(c)
  <2>1. pc[c] = "settling" /\ pc'[c] = "ended" /\ outcome' = outcome /\ outcome[c] # "none"
        /\ SameAttempts(c)
    BY <1>4 DEF SettleLease, Books, Finished
  <2>2. /\ SameRow(c) /\ root'[c] = root[c] /\ reserved'[c] = reserved[c]
        /\ \/ status'[c] = status[c]
           \/ status[c] = "active" /\ status'[c] = "settled"
    BY <1>4 DEF SettleLease, Ledger!Settle, Ledger!rowVars
  <2> QED
    BY <2>1, <2>2, MoveKeepsBooks
<1>5. CASE ReleaseLease(c)
  <2>1. pc[c] = "closing" /\ pc'[c] = "ended" /\ outcome' = outcome /\ outcome[c] # "none"
        /\ SameAttempts(c)
    BY <1>5 DEF ReleaseLease, Books, Finished
  <2>2. /\ SameRow(c) /\ root'[c] = root[c] /\ reserved'[c] = reserved[c]
        /\ \/ status'[c] = status[c]
           \/ status[c] = "active" /\ status'[c] = "released_error"
    BY <1>5 DEF ReleaseLease, Ledger!Release, Ledger!rowVars
  <2> QED
    BY <2>1, <2>2, MoveKeepsBooks
<1>6. CASE Track(c) \/ Start(c) \/ Retry(c) \/ Emit(c) \/ AskKeeper(c)
  <2>1. /\ SameAttempts(c) /\ SameRow(c) /\ UNCHANGED <<root, reserved, status, outcome>>
        /\ pc[c] \in {"tracking", "preparing", "responded", "stopping", "closing"}
        /\ \/ pc[c] \in {"tracking", "preparing", "responded"}
              /\ pc'[c] \in {"preparing", "checking", "running"}
           \/ pc[c] \in {"stopping", "closing"} /\ pc'[c] \in {"closing", "settling", "ended"}
    BY <1>6 DEF Track, Start, Retry, Emit, AskKeeper
  <2>2. pc[c] \in {"tracking", "preparing", "responded"} => outcome[c] = "none"
    BY DEF Books, Finished
  <2>3. pc[c] \in {"stopping", "closing"} => outcome[c] # "none"
    BY DEF Books, Finished
  <2> QED
    BY <2>1, <2>2, <2>3, MoveKeepsBooks
<1>7. CASE EnterScope(c)
  <2>1. /\ SameAttempts(c) /\ SameRow(c) /\ UNCHANGED <<root, reserved, status, outcome>>
        /\ pc[c] = "new" /\ pc'[c] = "preparing" /\ Mode[c] = "sequential"
    BY <1>7 DEF EnterScope
  <2>2. outcome[c] = "none"
    BY <2>1 DEF Books, Finished
  <2> QED
    BY <2>1, <2>2, MoveKeepsBooks
<1>8. CASE Cancel(c) \/ Check(c)
  <2>1. /\ SameAttempts(c) /\ SameRow(c) /\ UNCHANGED <<root, reserved, status>>
        /\ pc[c] \in {"checking", "running", "responded"}
        /\ \/ pc'[c] = "running" /\ outcome' = outcome
           \/ pc'[c] = "stopping" /\ outcome'[c] # "none"
    BY <1>8 DEF Cancel, Check
  <2>2. outcome[c] = "none"
    BY <2>1 DEF Books, Finished
  <2> QED
    BY <2>1, <2>2, MoveKeepsBooks
<1>9. CASE \/ RaiseEarly(c) \/ Interrupt(c) \/ RaiseLate(c) \/ CloseFails(c) \/ LeaveScope(c)
  <2>1. /\ SameAttempts(c) /\ SameRow(c) /\ UNCHANGED <<root, reserved, status, outcome>>
        /\ pc[c] # "new" /\ pc'[c] = "ended"
    BY <1>9 DEF RaiseEarly, Interrupt, RaiseLate, CloseFails, LeaveScope
  <2> QED
    BY <2>1, MoveKeepsBooks
<1> QED
  BY <1>1, <1>2, <1>3, <1>4, <1>5, <1>6, <1>7, <1>8, <1>9 DEF CallStep

BooksKept == \A c \in Call : Books(c)

LEMMA BooksStep ==
  TypeOK /\ Accounts /\ EvidenceKept /\ BooksKept /\ [Next]_vars => BooksKept'
BY OneCallMoves, OwnStepKeepsBooks, StillKeepsBooks DEF EvidenceKept, BooksKept

LEMMA BooksAlways == Spec => []BooksKept
<1>1. Init => BooksKept
  BY DEF Init, Ledger!Init, BooksKept, Books, Exact, Finished, RowTells, LeaseTells
<1> QED
  BY <1>1, BooksStep, EvidenceAlways, CustodyInvariant, PTL DEF Spec

\* A call within its lease is paid from its row, or from its open reservation.
LEMMA PaidByLease ==
  ASSUME TypeOK, Accounts, EvidenceKept, BooksKept, Facts!Bookkeeping,
         NEW c \in Call, Mode[c] = "reserved_concurrent",
         Recorded(c), status[c] # "expired", billed[c] <= Grain * reserved[c]
  PROVE  \/ billed[c] = 0
         \/ root[c] = ScopeOf[c] /\ billed[c] = covered[c]
         \/ /\ root[c] = ScopeOf[c] /\ table[c] = "none" /\ status[c] = "active"
            /\ billed[c] <= Grain * reserved[c]
<1> USE DEF TypeOK, Ledger!TypeOK, Ledger!Statuses
<1>1. Books(c) /\ Evidence(c)
  BY DEF BooksKept, EvidenceKept
<1>2. CASE pc[c] = "new"
  BY <1>1, <1>2 DEF Books, Exact, Evidence
<1>3. CASE pc[c] # "new"
  <2>1. status[c] # "none" /\ root[c] = ScopeOf[c]
    BY <1>1, <1>3 DEF Books, LeaseTells, Facts!Bookkeeping
  <2>2. CASE table[c] = "none"
    <3>1. outcome[c] = "none"
      BY <2>2 DEF Recorded
    <3>2. status[c] \notin {"settled", "released_error"}
      BY <1>1, <3>1 DEF Books, Finished
    <3> QED
      BY <2>1, <2>2, <3>2
  <2>3. CASE table[c] # "none"
    <3>1. cost[c] = observed[c]
      BY <1>1, <2>3 DEF Books, RowTells, Recorded
    <3>2. observed[c] = billed[c]
      BY <1>1 DEF Books, Exact, Recorded
    <3>3. covered[c] = cost[c]
      BY <1>1, <2>3, <3>1, <3>2 DEF Books, LeaseTells
    <3> QED
      BY <2>1, <3>1, <3>2, <3>3
  <2> QED
    BY <2>2, <2>3
<1> QED
  BY <1>2, <1>3

LEMMA ChargesFit ==
  ASSUME TypeOK, Accounts, EvidenceKept, BooksKept,
         Facts!TypeOK, Facts!Bookkeeping, Facts!CommittedWithinCap
  PROVE  ChargesWithinCap
<1> SUFFICES ASSUME NEW s \in Scope,
                    \A c \in Reserved(s) : /\ Recorded(c) /\ status[c] # "expired"
                                           /\ billed[c] <= Grain * reserved[c]
             PROVE  Total(billed, Reserved(s)) <= Grain * cap[s]
  BY DEF ChargesWithinCap
<1> DEFINE A == {c \in Call : root[c] = s}
           P == Facts!Promised
           W == [c \in Call |-> Grain * P[c]]
           R == {c \in Reserved(s) : billed[c] # 0}
           L == {c \in R : billed[c] = covered[c]}
           O == R \ L
           a == Total(covered, A)
           p == Total(P, A)
\* What the ledger promises about the scope.
<1>1. /\ IsFiniteSet(A)
      /\ \A c \in A : covered[c] \in Nat /\ P[c] \in Nat
      /\ a \in Nat /\ p \in Nat
      /\ Ceil(a) + p <= cap[s]
  BY FactsApply, SameSums, Facts!CoveredAndPromised DEF Facts!IsFiniteSet, IsFiniteSet
\* Every charge is covered spend, or within a promise that is still open.
<1>2. /\ \A c \in R : c \in A
      /\ \A c \in L : billed[c] = covered[c]
      /\ \A c \in O : billed[c] <= W[c]
  <2> SUFFICES ASSUME NEW c \in R
               PROVE  c \in A /\ (c \in L \/ billed[c] <= W[c])
    OBVIOUS
  <2>1. /\ c \in Call /\ ScopeOf[c] = s /\ Mode[c] = "reserved_concurrent" /\ billed[c] # 0
        /\ Recorded(c) /\ status[c] # "expired" /\ billed[c] <= Grain * reserved[c]
    BY DEF Reserved
  <2>2. \/ root[c] = s /\ billed[c] = covered[c]
        \/ root[c] = s /\ table[c] = "none" /\ status[c] = "active"
    BY <2>1, PaidByLease
  <2>3. table[c] = "none" /\ status[c] = "active" => P[c] = reserved[c]
    BY <2>1 DEF Facts!Promised, Facts!InFlight
  <2> QED
    BY <2>1, <2>2, <2>3
<1>3. \A c \in Call : billed[c] \in Nat /\ covered[c] \in Nat
  BY DEF TypeOK, Ledger!TypeOK
<1>4. /\ Reserved(s) \subseteq Call /\ IsFiniteSet(Reserved(s)) /\ R \in SUBSET Reserved(s)
      /\ IsFiniteSet(L) /\ IsFiniteSet(O) /\ R = L \cup O /\ A \subseteq Call
      /\ L \in SUBSET A /\ O \in SUBSET A
  <2>1. /\ Reserved(s) \subseteq Call /\ L \subseteq Call /\ O \subseteq Call
        /\ R \in SUBSET Reserved(s) /\ R = L \cup O /\ A \subseteq Call
    BY DEF Reserved
  <2> QED
    BY <1>2, <2>1, ScopesAssumption, FS_Subset
<1>5. \A c \in A : W[c] = Grain * P[c] /\ W[c] \in Nat
  BY <1>1, GrainAssumption
<1>6. Total(W, A) <= Grain * p
  BY <1>1, <1>5, TotalInGrains
<1>7. Total(billed, Reserved(s)) = Total(billed, R)
  BY <1>4, TotalOnSupport
<1> HIDE DEF A, P, W, R, L, O
<1>8. Total(billed, R) <= Total(billed, L) + Total(billed, O)
  BY <1>3, <1>4, TotalUnion
<1>9. Total(billed, L) <= a
  BY <1>1, <1>2, <1>3, <1>4, TotalMonotone
<1>10. Total(billed, O) <= Total(W, A)
  BY <1>1, <1>2, <1>3, <1>4, <1>5, TotalMonotone
<1>11. /\ Total(billed, Reserved(s)) \in Nat
       /\ Total(billed, L) \in Nat /\ Total(billed, O) \in Nat /\ Total(W, A) \in Nat
  BY <1>1, <1>3, <1>4, <1>5, TotalType
<1> HIDE DEF a, p
<1>12. Ceil(a) \in Nat /\ a <= Grain * Ceil(a)
  BY <1>1, CeilBounds
<1>13. cap[s] \in Nat
  BY DEF TypeOK, Ledger!TypeOK
<1>14. Grain * (Ceil(a) + p) <= Grain * cap[s]
  BY <1>1, <1>12, <1>13, GrainAssumption
<1>15. Grain * (Ceil(a) + p) = Grain * Ceil(a) + Grain * p
       /\ Grain * Ceil(a) \in Nat /\ Grain * p \in Nat /\ Grain * cap[s] \in Nat
  BY <1>1, <1>12, <1>13, GrainAssumption
<1> QED
  BY <1>1, <1>6, <1>7, <1>8, <1>9, <1>10, <1>11, <1>12, <1>14, <1>15

\* Providers never charge the durable calls of a scope more than its cap, as long
\* as the calls keep to their leases and are recorded: at every moment between
\* the reservation and the settlement, the promise or the row pays for a charge.
THEOREM CustodyChargesWithinCap == Spec => []ChargesWithinCap
BY ChargesFit, LedgerFacts, BooksAlways, EvidenceAlways, CustodyInvariant, PTL

-----------------------------------------------------------------------------
(* Sequential scopes *)

\* What a step of an envelope does to its point and to the scopes in use.
Moves(c) ==
  /\ up' = up /\ up[Home[c]]
  /\ pc[c] # "ended"
  /\ pc' = [pc EXCEPT ![c] = pc'[c]]
  /\ \/ held' = held /\ (Mode[c] = "sequential" => pc[c] # "new")
     \/ /\ Mode[c] = "sequential" /\ pc[c] = "new"
        /\ Token(c) \notin held /\ held' = held \cup {Token(c)}
     \/ /\ Mode[c] = "sequential" /\ pc[c] = "closing" /\ pc'[c] = "ended"
        /\ outcome' = outcome /\ held' = held \ {Token(c)}

LEMMA CallMoves ==
  ASSUME TypeOK, NEW c \in Call, CallStep(c)
  PROVE  Moves(c)
<1> USE DEF TypeOK, Moves, Goes, Ends, Finishes
<1>1. ASSUME NEW t, AcquireLease(c, t) PROVE Moves(c)
  BY <1>1 DEF AcquireLease
<1>2. ASSUME NEW x, NEW seen, Attempt(c, x, seen) PROVE Moves(c)
  BY <1>2 DEF Attempt
<1>3. CASE EnterScope(c)
  BY <1>3 DEF EnterScope
<1>4. CASE LeaveScope(c)
  BY <1>4 DEF LeaveScope
<1>5. CASE \/ Track(c) \/ RaiseEarly(c) \/ Start(c) \/ Check(c) \/ Retry(c) \/ Succeed(c)
           \/ Fail(c) \/ Cancel(c) \/ Interrupt(c) \/ Emit(c) \/ RaiseLate(c)
  BY <1>5 DEF Track, RaiseEarly, Start, Check, Retry, Succeed, Fail, Cancel, Interrupt,
              Emit, RaiseLate
<1>6. CASE AskKeeper(c) \/ SettleLease(c) \/ ReleaseLease(c) \/ CloseFails(c)
  BY <1>6 DEF AskKeeper, SettleLease, ReleaseLease, CloseFails
<1> QED
  BY <1>1, <1>2, <1>3, <1>4, <1>5, <1>6 DEF CallStep

\* A call has its scope to itself while it is in flight, and for ever when it
\* left the envelope before invoke() ended: nobody then gives the scope back.
Occupies(c) == pc[c] # "new" /\ (pc[c] = "ended" => outcome[c] = "none")

Peers(c, d) ==
  Mode[c] = "sequential" /\ Mode[d] = "sequential" /\ c # d /\ Token(c) = Token(d)

\* Such a call of a living process has the token of its scope, and no other
\* call of that process occupies the scope.
ScopeKept ==
  /\ \A c \in Call :
       Mode[c] = "sequential" /\ Occupies(c) /\ up[Home[c]] => Token(c) \in held
  /\ \A c, d \in Call : Peers(c, d) => ~Occupies(c) \/ ~Occupies(d)

LEMMA StillOccupies ==
  ASSUME NEW d \in Call, Still(d)
  PROVE  Occupies(d)' <=> Occupies(d)
BY DEF Still, Occupies

LEMMA ScopeKeptStep == TypeOK /\ BooksKept /\ ScopeKept /\ [Next]_vars => ScopeKept'
<1> SUFFICES ASSUME TypeOK, BooksKept, ScopeKept, [Next]_vars PROVE ScopeKept'
  OBVIOUS
<1>0. Home \in [Call -> Process] /\ \A c \in Call : Token(c)[1] = Home[c]
  BY CustodyAssumption DEF Token
<1>1. ASSUME NEW c \in Call, CallStep(c) PROVE ScopeKept'
  <2>1. Moves(c)
    BY <1>1, CallMoves
  <2>2. \A d \in Call : d # c => (Occupies(d)' <=> Occupies(d))
    BY <1>1, OthersStill, StillOccupies
  <2>3. /\ up' = up /\ up[Home[c]]
        /\ \A d, e \in Call : Token(d)' = Token(d) /\ (Peers(d, e)' <=> Peers(d, e))
    BY <2>1 DEF Moves, Token, Peers
  <2>4. CASE held' = held /\ (Mode[c] = "sequential" => pc[c] # "new")
    <3>1. Mode[c] = "sequential" => Occupies(c)
      BY <2>1, <2>4 DEF Moves, Occupies
    <3> QED
      BY <2>2, <2>3, <2>4, <3>1 DEF ScopeKept, Peers
  <2>5. CASE /\ Mode[c] = "sequential" /\ pc[c] = "new"
             /\ Token(c) \notin held /\ held' = held \cup {Token(c)}
    <3>1. \A d \in Call : Peers(c, d) => ~Occupies(d)
      BY <1>0, <2>3, <2>5 DEF ScopeKept, Peers
    <3> QED
      BY <2>2, <2>3, <2>5, <3>1 DEF ScopeKept, Peers
  <2>6. CASE /\ Mode[c] = "sequential" /\ pc[c] = "closing" /\ pc'[c] = "ended"
             /\ outcome' = outcome /\ held' = held \ {Token(c)}
    <3>1. Occupies(c) /\ ~Occupies(c)'
      BY <2>6 DEF Occupies, BooksKept, Books, Finished
    <3> QED
      BY <2>2, <2>3, <2>6, <3>1 DEF ScopeKept, Peers
  <2> QED
    BY <2>1, <2>4, <2>5, <2>6 DEF Moves
<1>2. ASSUME NEW p \in Process, Crash(p) PROVE ScopeKept'
  BY <1>0, <1>2 DEF Crash, ScopeKept, Occupies, Peers, Token, callVars, TypeOK
<1>3. CASE UNCHANGED <<callVars, held, up>>
  BY <1>3 DEF ScopeKept, Occupies, Peers, Token, callVars
<1> QED
  BY <1>1, <1>2, <1>3 DEF Next, Tick, BeginSweep, SweepOne, vars

LEMMA ScopeKeptAlways == Spec => []ScopeKept
<1>1. Init => ScopeKept
  BY DEF Init, ScopeKept, Occupies
<1> QED
  BY <1>1, ScopeKeptStep, BooksAlways, CustodyInvariant, PTL DEF Spec

\* Two threads of one process never have a call in flight under the same
\* sequential scope, whatever raises, is interrupted or is cancelled.
THEOREM CustodyOneCallPerScope == Spec => []OneCallPerScope
<1>1. ScopeKept => OneCallPerScope
  BY DEF ScopeKept, OneCallPerScope, Sequential, Occupies, Peers, Token
<1> QED
  BY <1>1, ScopeKeptAlways, PTL

-----------------------------------------------------------------------------
(* The spend of a sequential scope *)

OneHome(s) == \A c, d \in Sequential(s) : Home[c] = Home[d]

\* A call the bound is about: recorded, without error, within what it asked for.
Modest(c) == Recorded(c) /\ outcome[c] # "raised" /\ billed[c] <= Asked[c]

\* A call that occupies its scope was admitted with what the others of the scope
\* had spent; without one, all that was spent was admitted before.
AffordableIn(s) ==
  /\ \A c \in Sequential(s) :
       Occupies(c) /\ (\A d \in Sequential(s) \ {c} : Modest(d)) =>
         Total(billed, Sequential(s) \ {c}) + Asked[c] <= MaxBudget[s]
  /\ (\A c \in Sequential(s) : ~Occupies(c) /\ Modest(c)) =>
       Total(billed, Sequential(s)) <= MaxBudget[s]

Affordable == \A s \in Scope : OneHome(s) => AffordableIn(s)

\* The calls of a scope are finitely many, and one can be set apart.
LEMMA SequentialSums ==
  ASSUME TypeOK, NEW s \in Scope, NEW c \in Sequential(s)
  PROVE  /\ Sequential(s) \subseteq Call /\ IsFiniteSet(Sequential(s))
         /\ Total(billed, Sequential(s) \ {c}) \in Nat
         /\ Total(billed, Sequential(s)) = Total(billed, Sequential(s) \ {c}) + billed[c]
<1>1. Sequential(s) \subseteq Call /\ IsFiniteSet(Sequential(s))
  BY ScopesAssumption, FS_Subset DEF Sequential
<1>2. \A d \in Sequential(s) : billed[d] \in Nat
  BY <1>1 DEF TypeOK
<1> QED
  BY <1>1, <1>2, TotalSplit

\* What modest calls were charged, once none of them is in flight, is among the
\* rows the scope counts.
LEMMA ChargesAreSpent ==
  ASSUME TypeOK, EvidenceKept, BooksKept, NEW s \in Scope, NEW K \in SUBSET Sequential(s),
         \A d \in K : ~Occupies(d) /\ Modest(d)
  PROVE  Total(billed, K) \in Nat /\ Spent(s) \in Nat /\ Total(billed, K) <= Spent(s)
<1> DEFINE N == {d \in K : table[d] # "none"}
           R == {d \in CountedIn[s] : table[d] # "none" /\ outcome[d] # "raised"}
<1>1. /\ K \subseteq CountedIn[s] /\ CountedIn[s] \subseteq Call
      /\ IsFiniteSet(K) /\ IsFiniteSet(R)
  <2>1. K \subseteq CountedIn[s] /\ CountedIn[s] \subseteq Call
    BY CustodyAssumption, LedgerAssumption DEF Sequential
  <2>2. K \subseteq Call /\ R \subseteq Call
    BY <2>1
  <2> QED
    BY <2>1, <2>2, ScopesAssumption, FS_Subset
<1>2. \A d \in K : IF table[d] # "none" THEN billed[d] = cost[d] ELSE billed[d] = 0
  <2> SUFFICES ASSUME NEW d \in K
               PROVE  IF table[d] # "none" THEN billed[d] = cost[d] ELSE billed[d] = 0
    OBVIOUS
  <2>1. d \in Call /\ Books(d) /\ Evidence(d) /\ Modest(d) /\ ~Occupies(d)
    BY <1>1 DEF BooksKept, EvidenceKept
  <2>2. CASE pc[d] = "new"
    <3>1. outcome[d] = "none" /\ attempts[d] = 0
      BY <2>1, <2>2 DEF Books, Finished, Evidence
    <3> QED
      BY <2>1, <3>1 DEF Books, Exact, RowTells
  <2>3. CASE pc[d] # "new"
    <3>1. outcome[d] \notin {"none", "raised", "cancelled"}
      BY <2>1, <2>3 DEF Occupies, Modest, Recorded
    <3>2. outcome[d] = "returned" /\ table[d] # "none"
      BY <2>1, <3>1 DEF TypeOK, Modest, Recorded
    <3>3. cost[d] = observed[d] /\ observed[d] = billed[d]
      BY <2>1, <3>2 DEF Books, RowTells, Exact, Modest, Recorded
    <3> QED
      BY <3>2, <3>3
  <2> QED
    BY <2>2, <2>3
<1>3. \A d \in K : billed[d] \in Nat
  BY <1>1 DEF TypeOK
<1>4. \A d \in R : cost[d] \in Nat
  BY <1>1 DEF TypeOK, Ledger!TypeOK
<1>5. N \in SUBSET R
  BY <1>1 DEF Modest
<1>6. Total(billed, K) = Total(billed, N)
  BY <1>2, TotalOnSupport
<1>7. Total(billed, N) <= Total(cost, R)
  <2>1. \A d \in N : billed[d] \in Nat /\ billed[d] <= cost[d]
    BY <1>2, <1>3
  <2> HIDE DEF N, R
  <2> QED
    BY <1>1, <1>4, <1>5, <2>1, TotalMonotone
<1>8. Total(billed, K) \in Nat /\ Total(cost, R) \in Nat
  BY <1>1, <1>3, <1>4, TotalType
<1> QED
  BY <1>6, <1>7, <1>8 DEF Spent, SpentBy

\* Nothing changes for a scope whose calls all stay as they are.
LEMMA StillAffordable ==
  ASSUME NEW s \in Scope, AffordableIn(s), \A d \in Sequential(s) : Still(d)
  PROVE  AffordableIn(s)'
<1>1. \A d \in Sequential(s) :
        /\ Occupies(d)' <=> Occupies(d)
        /\ Modest(d)' <=> Modest(d)
        /\ billed'[d] = billed[d]
  BY DEF Still, Occupies, Modest, Recorded
<1>2. \A K \in SUBSET Sequential(s) : Total(billed', K) = Total(billed, K)
  BY <1>1, TotalCongruence
<1>3. \A c \in Sequential(s) : Sequential(s) \ {c} \in SUBSET Sequential(s)
  OBVIOUS
<1> QED
  BY <1>1, <1>2, <1>3 DEF AffordableIn, Sequential

LEMMA OwnStepAffordable ==
  ASSUME TypeOK, TypeOK', EvidenceKept, BooksKept, ScopeKept, ScopeKept',
         NEW s \in Scope, OneHome(s), AffordableIn(s),
         NEW c \in Sequential(s), CallStep(c)
  PROVE  AffordableIn(s)'
<1> DEFINE K == Sequential(s)
           O == Sequential(s) \ {c}
<1>0. /\ K \subseteq Call /\ c \in Call /\ Mode[c] = "sequential" /\ ScopeOf[c] = s
      /\ Asked[c] \in Nat /\ MaxBudget[s] \in Nat
  BY CustodyAssumption, LedgerAssumption DEF Sequential
<1>1. \A d \in O : Still(d) /\ Peers(c, d)
  <2>1. \A d \in O : d \in Call /\ d # c /\ Home[d] = Home[c] /\ ScopeOf[d] = s
                     /\ Mode[d] = "sequential"
    BY <1>0 DEF OneHome, Sequential
  <2> QED
    BY <1>0, <2>1, OthersStill DEF Peers, Token
<1>2. /\ \A d \in O : /\ Occupies(d)' <=> Occupies(d)
                      /\ Modest(d)' <=> Modest(d)
                      /\ billed'[d] = billed[d]
      /\ Total(billed', O) = Total(billed, O)
  <2>1. \A d \in O : /\ Occupies(d)' <=> Occupies(d)
                     /\ Modest(d)' <=> Modest(d)
                     /\ billed'[d] = billed[d]
    BY <1>1 DEF Still, Occupies, Modest, Recorded
  <2> QED
    BY <2>1, TotalCongruence
<1>3. Moves(c)
  BY <1>0, CallMoves
<1>4. \A d \in O : ~Occupies(d)
  <2>1. CASE Occupies(c)
    BY <1>0, <1>1, <2>1 DEF ScopeKept
  <2>2. CASE ~Occupies(c)
    <3>1. Token(c) \notin held /\ up[Home[c]]
      BY <1>0, <1>3, <2>2 DEF Moves, Occupies
    <3>2. \A d \in O : Home[d] = Home[c]
      BY DEF OneHome
    <3> QED
      BY <1>0, <1>1, <3>1, <3>2 DEF ScopeKept, Peers
  <2> QED
    BY <2>1, <2>2
<1>5. (\A d \in O : Modest(d)) => Total(billed, O) + Asked[c] <= MaxBudget[s]
  <2>1. CASE Occupies(c)
    BY <2>1 DEF AffordableIn
  <2>2. CASE ~Occupies(c)
    <3>1. pc[c] = "new"
      BY <1>3, <2>2 DEF Moves, Occupies
    <3>2. EnterScope(c)
      BY <1>0, <3>1
      DEF CallStep, AcquireLease, Track, RaiseEarly, Start, Check, Attempt, Retry, Succeed, Fail,
          Cancel, Interrupt, Emit, RaiseLate, AskKeeper, SettleLease, ReleaseLease, CloseFails,
          LeaveScope, Goes, Ends, Finishes
    <3>3. Spent(s) + Asked[c] <= MaxBudget[s]
      BY <1>0, <3>2 DEF EnterScope
    <3>4. ASSUME \A d \in O : Modest(d)
          PROVE  Total(billed, O) \in Nat /\ Spent(s) \in Nat /\ Total(billed, O) <= Spent(s)
      BY <1>4, <3>4, ChargesAreSpent
    <3> QED
      BY <1>0, <3>3, <3>4
  <2> QED
    BY <2>1, <2>2
\* The call that steps is the only one that occupies the scope before and after.
<1>6. \A d \in K : Occupies(d)' => d = c
  BY <1>2, <1>4
<1>7. (\A d \in K : Modest(d)') => Total(billed', K) <= MaxBudget[s]
  <2> SUFFICES ASSUME \A d \in K : Modest(d)' PROVE Total(billed', K) <= MaxBudget[s]
    OBVIOUS
  <2>1. Total(billed, O) + Asked[c] <= MaxBudget[s]
    BY <1>2, <1>5
  <2>2. billed'[c] <= Asked[c] /\ billed'[c] \in Nat
    BY <1>0 DEF Modest, TypeOK
  <2>3. Total(billed', O) \in Nat /\ Total(billed', K) = Total(billed', O) + billed'[c]
    <3>1. IsFiniteSet(K)
      BY ScopesAssumption, FS_Subset DEF Sequential
    <3>2. \A d \in K : billed'[d] \in Nat
      BY <1>0 DEF TypeOK
    <3> QED
      BY <3>1, <3>2, TotalSplit
  <2> QED
    BY <1>0, <1>2, <2>1, <2>2, <2>3
<1> QED
  BY <1>2, <1>5, <1>6, <1>7 DEF AffordableIn, Sequential

LEMMA AffordableStep ==
  /\ TypeOK /\ TypeOK' /\ EvidenceKept /\ BooksKept /\ ScopeKept /\ ScopeKept'
  /\ Affordable /\ [Next]_vars
  => Affordable'
<1> SUFFICES ASSUME TypeOK, TypeOK', EvidenceKept, BooksKept, ScopeKept, ScopeKept',
                    Affordable, [Next]_vars, NEW s \in Scope, OneHome(s)
             PROVE  AffordableIn(s)'
  BY DEF Affordable, OneHome, Sequential
<1>1. AffordableIn(s)
  BY DEF Affordable
<1>2. Sequential(s) \subseteq Call
  BY DEF Sequential
<1>3. CASE \A d \in Sequential(s) : Still(d)
  BY <1>1, <1>3, StillAffordable
<1>4. ASSUME NEW c \in Sequential(s), CallStep(c) PROVE AffordableIn(s)'
  BY <1>1, <1>4, OwnStepAffordable
<1> QED
  BY <1>2, <1>3, <1>4, OneCallMoves

\* In one process the sequential calls of a scope, one after the other, never cost
\* more than its budget: whoever enters does so after every earlier charge has its
\* row, even when calls are interrupted, cancelled or their process crashes.
THEOREM CustodySequentialWithinBudget == Spec => []SequentialWithinBudget
<1>1. Init => Affordable
  <2> SUFFICES ASSUME Init, NEW s \in Scope PROVE AffordableIn(s)
    BY DEF Affordable
  <2>1. \A c \in Sequential(s) : ~Occupies(c) /\ c \in Call /\ billed[c] = 0
    BY DEF Init, Occupies, Sequential
  <2>2. Total(billed, Sequential(s)) = 0
    <3>1. Total(billed, Sequential(s)) = Total(billed, {})
      BY <2>1, TotalOnSupport
    <3> QED
      BY <3>1, FS_EmptySet DEF Total, Units
  <2>3. MaxBudget[s] \in Nat
    BY CustodyAssumption, LedgerAssumption
  <2> QED
    BY <2>1, <2>2, <2>3 DEF AffordableIn
<1>2. ASSUME TypeOK, Affordable PROVE SequentialWithinBudget
  <2> SUFFICES ASSUME NEW s \in Scope, OneHome(s), \A c \in Sequential(s) : Modest(c)
               PROVE  Total(billed, Sequential(s)) <= MaxBudget[s]
    BY DEF SequentialWithinBudget, OneHome, Modest
  <2>1. AffordableIn(s)
    BY <1>2 DEF Affordable
  <2>2. CASE \A c \in Sequential(s) : ~Occupies(c)
    BY <2>1, <2>2 DEF AffordableIn
  <2>3. ASSUME NEW c \in Sequential(s), Occupies(c)
        PROVE  Total(billed, Sequential(s)) <= MaxBudget[s]
    <3>1. Total(billed, Sequential(s) \ {c}) + Asked[c] <= MaxBudget[s]
      BY <2>1, <2>3 DEF AffordableIn
    <3>2. billed[c] <= Asked[c]
      BY DEF Modest
    <3>3. c \in Call /\ billed[c] \in Nat /\ Asked[c] \in Nat /\ MaxBudget[s] \in Nat
      BY <1>2, CustodyAssumption, LedgerAssumption DEF Sequential, TypeOK
    <3> QED
      BY <1>2, <3>1, <3>2, <3>3, SequentialSums
  <2> QED
    BY <2>2, <2>3
<1> QED
  BY <1>1, <1>2, AffordableStep, ScopeKeptAlways, BooksAlways, EvidenceAlways,
     CustodyInvariant, PTL DEF Spec

-----------------------------------------------------------------------------
(* Custody ends with the call *)

\* Nothing raises between the acquisition of custody and the handlers that give
\* it back, and no operation of the ledger fails.
NoGap == Fault \cap {"raise_early", "raise_late", "interrupt", "ledger_store"} = {}

\* The clock is read under the write lock.
NoLag == MaxLag = 0

\* A lease that the keeper gave up, or whose call ended, has run out if it is
\* active at all; only reserved calls have one.
RunOut(c) == status[c] = "active" => expires[c] <= now

LeaseReturned(c) ==
  /\ c \in tracked => pc[c] \notin {"new", "tracking", "ended"}
  /\ c \in lost => RunOut(c)
  /\ c \in lost \cup sweep[Home[c]] => pc[c] \notin {"new", "tracking"}
  /\ pc[c] = "ended" /\ up[Home[c]] => RunOut(c)
  /\ pc[c] = "settling" => Mode[c] = "reserved_concurrent"
  /\ Mode[c] = "sequential" => status[c] # "active" /\ c \notin tracked /\ pc[c] # "tracking"

ScopeReturned ==
  \A h \in held : \E c \in Call :
    Mode[c] = "sequential" /\ Token(c) = h /\ pc[c] \notin {"new", "ended"}

Returned == ScopeReturned /\ \A c \in Call : LeaseReturned(c)

\* A step of others neither extends the lease of a call nor moves its call.
Kept(d) ==
  /\ pc'[d] = pc[d]
  /\ up'[Home[d]] => up[Home[d]]
  /\ d \in tracked' => d \in tracked
  /\ d \in lost' => d \in lost
  /\ d \in sweep'[Home[d]] => d \in sweep[Home[d]]
  /\ expires'[d] = expires[d]
  /\ now' \in Int /\ now <= now'
  /\ status'[d] = "active" => status[d] = "active"

LEMMA KeptReturned ==
  ASSUME TypeOK, NEW d \in Call, LeaseReturned(d), Kept(d)
  PROVE  LeaseReturned(d)'
<1>1. now \in Nat /\ expires[d] \in Nat
  BY LedgerAssumption DEF TypeOK, Ledger!TypeOK
<1>2. RunOut(d) => RunOut(d)'
  BY <1>1 DEF RunOut, Kept
<1> QED
  BY <1>2 DEF LeaseReturned, Kept

LEMMA OthersKept ==
  ASSUME TypeOK, NEW c \in Call, CallStep(c), NEW d \in Call, d # c
  PROVE  Kept(d)
<1>0. now \in Int
  BY LedgerAssumption DEF TypeOK, Ledger!TypeOK
<1> USE <1>0 DEF TypeOK, Kept, Goes, Ends, Finishes, ledgerVars, keeperVars, Untrack, Ledger!TypeOK
<1>1. ASSUME NEW t, AcquireLease(c, t) PROVE Kept(d)
  BY <1>1 DEF AcquireLease, Ledger!Acquire, Ledger!ExpireLeases, Ledger!Overdue, Ledger!rowVars
<1>2. ASSUME NEW x, NEW seen, Attempt(c, x, seen) PROVE Kept(d)
  BY <1>2 DEF Attempt
<1>3. CASE Succeed(c) \/ Fail(c)
  BY <1>3 DEF Succeed, Fail, WriteRow, Ledger!LogRow, Ledger!leaseVars
<1>4. CASE SettleLease(c)
  BY <1>4 DEF SettleLease, Ledger!Settle, Ledger!rowVars
<1>5. CASE ReleaseLease(c)
  BY <1>5 DEF ReleaseLease, Ledger!Release, Ledger!rowVars
<1>6. CASE \/ Track(c) \/ EnterScope(c) \/ RaiseEarly(c) \/ Start(c) \/ Check(c) \/ Retry(c)
           \/ Cancel(c) \/ Interrupt(c) \/ Emit(c) \/ RaiseLate(c)
  BY <1>6 DEF Track, EnterScope, RaiseEarly, Start, Check, Retry, Cancel, Interrupt, Emit,
              RaiseLate
<1>7. CASE AskKeeper(c) \/ CloseFails(c) \/ LeaveScope(c)
  BY <1>7 DEF AskKeeper, CloseFails, LeaveScope
<1> QED
  BY <1>1, <1>2, <1>3, <1>4, <1>5, <1>6, <1>7 DEF CallStep

LEMMA OwnStepReturns ==
  ASSUME NoGap, TypeOK, NEW c \in Call, LeaseReturned(c), CallStep(c)
  PROVE  LeaseReturned(c)'
<1> USE DEF TypeOK, Goes, Ends, Finishes, ledgerVars, keeperVars, Untrack, Ledger!TypeOK,
            LeaseReturned, RunOut
<1>0. Mode[c] \in {"sequential", "reserved_concurrent"}
  BY CustodyAssumption
<1>1. ASSUME NEW t, AcquireLease(c, t) PROVE LeaseReturned(c)'
  <2>1. status[c] = "none" /\ now' = now
    BY <1>1 DEF AcquireLease, Ledger!Acquire
  <2>2. c \notin tracked /\ pc'[c] = "tracking"
    BY <1>1 DEF AcquireLease
  <2>3. c \notin lost' \cup sweep'[Home[c]]
    BY <1>1 DEF AcquireLease
  <2> QED
    BY <1>1, <2>1, <2>2, <2>3 DEF AcquireLease
<1>2. ASSUME NEW x, NEW seen, Attempt(c, x, seen) PROVE LeaseReturned(c)'
  BY <1>2 DEF Attempt
<1>3. CASE Succeed(c) \/ Fail(c)
  BY <1>3 DEF Succeed, Fail, WriteRow, Ledger!LogRow, Ledger!leaseVars
<1>4. CASE SettleLease(c)
  BY <1>0, <1>4 DEF SettleLease, Ledger!Settle, Ledger!rowVars
<1>5. CASE ReleaseLease(c)
  BY <1>0, <1>5 DEF ReleaseLease, Ledger!Release, Ledger!rowVars
<1>6. CASE \/ Track(c) \/ EnterScope(c) \/ Start(c) \/ Check(c) \/ Retry(c) \/ Cancel(c) \/ Emit(c)
  BY <1>6 DEF Track, EnterScope, Start, Check, Retry, Cancel, Emit
<1>7. CASE LeaveScope(c)
  BY <1>7 DEF LeaveScope
<1>8. CASE AskKeeper(c)
  <2>1. Mode[c] = "reserved_concurrent" /\ UNCHANGED ledgerVars /\ sweep' = sweep
    BY <1>8 DEF AskKeeper
  <2>2. CASE pc' = [pc EXCEPT ![c] = "settling"] /\ UNCHANGED keeperVars
    BY <1>8, <2>1, <2>2 DEF AskKeeper
  <2>3. CASE pc' = [pc EXCEPT ![c] = "ended"] /\ c \in lost /\ Untrack(c)
    BY <1>8, <2>1, <2>3 DEF AskKeeper
  <2> QED
    BY <1>8, <2>2, <2>3 DEF AskKeeper
<1>9. ~(RaiseEarly(c) \/ Interrupt(c) \/ RaiseLate(c) \/ CloseFails(c))
  BY DEF NoGap, RaiseEarly, Interrupt, RaiseLate, CloseFails
<1> QED
  BY <1>1, <1>2, <1>3, <1>4, <1>5, <1>6, <1>7, <1>8, <1>9 DEF CallStep

\* A lease is renewed only while its call is on its way.
LEMMA SweepReturns ==
  ASSUME NoGap, NoLag, TypeOK, NEW c \in Call, NEW t \in Ledger!Observed, SweepOne(c, t),
         NEW d \in Call, LeaseReturned(d)
  PROVE  LeaseReturned(d)'
<1>0. /\ now \in Nat /\ t = now
      /\ Home \in [Call -> Process]
  BY LedgerAssumption, CustodyAssumption DEF TypeOK, Ledger!TypeOK, Ledger!Observed, NoLag
<1>1. /\ pc' = pc /\ tracked' = tracked /\ up' = up /\ now' = now /\ status' = status
      /\ c \in sweep[Home[c]]
      /\ d \in sweep'[Home[d]] => d \in sweep[Home[d]]
  BY <1>0 DEF SweepOne, Ledger!Renew, ledgerVars, callVars, TypeOK
<1>2. CASE d # c
  <2>1. expires'[d] = expires[d] /\ (d \in lost' => d \in lost)
    BY <1>2 DEF SweepOne, Ledger!Renew, ledgerVars, TypeOK, Ledger!TypeOK
  <2> QED
    BY <1>0, <1>1, <2>1, KeptReturned DEF Kept
<1>3. CASE d = c /\ Ledger!Renew(c, t) /\ UNCHANGED lost
  <2>1. status[c] = "active" /\ ~RunOut(c)
    BY <1>0, <1>3 DEF Ledger!Renew, RunOut, TypeOK, Ledger!TypeOK
  <2> QED
    BY <1>1, <1>3, <2>1 DEF LeaseReturned, RunOut, SweepOne, TypeOK
<1>4. CASE /\ d = c /\ (status[c] # "active" \/ expires[c] <= t)
           /\ lost' = lost \cup {c} /\ UNCHANGED ledgerVars
  BY <1>0, <1>1, <1>4 DEF LeaseReturned, RunOut, SweepOne, ledgerVars, TypeOK
<1> QED
  BY <1>2, <1>3, <1>4 DEF SweepOne, NoGap

LEMMA ScopeReturnedStep ==
  ASSUME NoGap, TypeOK, Returned, NEW c \in Call, CallStep(c)
  PROVE  ScopeReturned'
<1>1. Moves(c)
  BY CallMoves
<1>2. \A d \in Call : d # c => pc'[d] = pc[d]
  BY <1>1 DEF Moves, TypeOK
<1>3. pc'[c] = "ended" /\ Mode[c] = "sequential" => Token(c) \notin held'
  <2>1. ASSUME pc'[c] = "ended", Mode[c] = "sequential" PROVE LeaveScope(c)
    <3>1. ~(RaiseEarly(c) \/ Interrupt(c) \/ RaiseLate(c) \/ CloseFails(c))
      BY DEF NoGap, RaiseEarly, Interrupt, RaiseLate, CloseFails
    <3>2. pc[c] # "settling"
      BY <2>1 DEF Returned, LeaseReturned
    <3> QED
      BY <2>1, <3>1, <3>2
      DEF CallStep, AcquireLease, Track, EnterScope, Start, Check, Attempt, Retry, Succeed, Fail,
          Cancel, Emit, AskKeeper, SettleLease, ReleaseLease, Goes, Ends, Finishes, TypeOK
  <2> QED
    BY <2>1 DEF LeaveScope
<1>4. ASSUME NEW h \in held' PROVE \E d \in Call :
        Mode[d] = "sequential" /\ Token(d) = h /\ pc'[d] \notin {"new", "ended"}
  <2>1. CASE h \in held
    <3>1. PICK d \in Call : Mode[d] = "sequential" /\ Token(d) = h /\ pc[d] \notin {"new", "ended"}
      BY <2>1 DEF Returned, ScopeReturned
    <3>2. CASE d # c
      BY <3>1, <3>2, <1>2
    <3>3. CASE d = c
      <4>1. pc'[c] # "ended"
        BY <1>3, <1>4, <3>1, <3>3
      <4>2. pc'[c] # "new"
        BY <3>1, <3>3
        DEF CallStep, AcquireLease, Track, EnterScope, RaiseEarly, Start, Check, Attempt, Retry,
            Succeed, Fail, Cancel, Interrupt, Emit, RaiseLate, AskKeeper, SettleLease,
            ReleaseLease, CloseFails, LeaveScope, Goes, Ends, Finishes, TypeOK
      <4> QED
        BY <3>1, <3>3, <4>1, <4>2
    <3> QED
      BY <3>2, <3>3
  <2>2. CASE h \notin held
    <3>1. EnterScope(c) /\ h = Token(c)
      BY <1>4, <2>2
      DEF CallStep, AcquireLease, Track, EnterScope, RaiseEarly, Start, Check, Attempt, Retry,
          Succeed, Fail, Cancel, Interrupt, Emit, RaiseLate, AskKeeper, SettleLease,
          ReleaseLease, CloseFails, LeaveScope
    <3> QED
      BY <3>1 DEF EnterScope, Goes, TypeOK
  <2> QED
    BY <2>1, <2>2
<1> QED
  BY <1>4 DEF ScopeReturned, Token

LEMMA ReturnedStep ==
  ASSUME NoGap, NoLag
  PROVE  TypeOK /\ Returned /\ [Next]_vars => Returned'
<1> SUFFICES ASSUME TypeOK, Returned, [Next]_vars PROVE Returned'
  OBVIOUS
<1>0. now \in Nat /\ Home \in [Call -> Process]
  BY LedgerAssumption, CustodyAssumption DEF TypeOK, Ledger!TypeOK
<1>1. ASSUME NEW c \in Call, CallStep(c) PROVE Returned'
  <2>1. ASSUME NEW d \in Call PROVE LeaseReturned(d)'
    <3>1. CASE d = c
      BY <1>1, <3>1, OwnStepReturns DEF Returned
    <3>2. CASE d # c
      BY <1>1, <3>2, OthersKept, KeptReturned DEF Returned
    <3> QED
      BY <3>1, <3>2
  <2> QED
    BY <1>1, <2>1, ScopeReturnedStep DEF Returned
<1>2. ASSUME \A d \in Call : Kept(d), held' = held PROVE Returned'
  <2>1. \A d \in Call : LeaseReturned(d)'
    BY <1>2, KeptReturned DEF Returned
  <2> QED
    BY <1>2, <2>1 DEF Returned, ScopeReturned, Token, Kept
<1>3. CASE Tick
  BY <1>0, <1>2, <1>3
  DEF Tick, Ledger!Tick, Ledger!leaseVars, Ledger!rowVars, Kept, callVars, keeperVars
<1>4. ASSUME NEW p \in Process, BeginSweep(p) PROVE Returned'
  <2>1. \A d \in Call : d \in sweep'[Home[d]] => d \in tracked \cup sweep[Home[d]]
    BY <1>0, <1>4 DEF BeginSweep, TypeOK
  <2> QED
    BY <1>4, <2>1
    DEF BeginSweep, Returned, ScopeReturned, Token, LeaseReturned, RunOut, ledgerVars, callVars
<1>5. ASSUME NEW p \in Process, Crash(p) PROVE Returned'
  <2>1. \A d \in Call : Kept(d)
    BY <1>0, <1>5 DEF Crash, Kept, ledgerVars, callVars, TypeOK
  <2>2. ScopeReturned'
    BY <1>5 DEF Crash, Returned, ScopeReturned, Token, callVars
  <2> QED
    BY <2>1, <2>2, KeptReturned DEF Returned
<1>6. ASSUME NEW c \in Call, NEW t \in Ledger!Observed, SweepOne(c, t) PROVE Returned'
  <2>1. \A d \in Call : LeaseReturned(d)'
    BY <1>6, SweepReturns DEF Returned
  <2> QED
    BY <1>6, <2>1 DEF SweepOne, Returned, ScopeReturned, Token, callVars
<1>7. CASE UNCHANGED vars
  BY <1>0, <1>2, <1>7 DEF vars, Kept, ledgerVars, callVars, keeperVars
<1> QED
  BY <1>1, <1>3, <1>4, <1>5, <1>6, <1>7 DEF Next

\* When nothing raises in the gaps around invoke() and the ledger does not fail,
\* every way a call ends gives back its lease, its place in the keeper and its
\* scope, whatever the clock, the keeper, lost rows and crashes do.
THEOREM CustodyReturned ==
  ASSUME NoGap, NoLag
  PROVE  Spec => []CustodyEndsWithCall
<1>1. Init => Returned
  BY CustodyAssumption DEF Init, Ledger!Init, Returned, ScopeReturned, LeaseReturned
<1>2. TypeOK /\ Returned /\ [Next]_vars => Returned'
  BY ReturnedStep
<1>3. Returned => CustodyEndsWithCall
  BY DEF Returned, ScopeReturned, LeaseReturned, RunOut, CustodyEndsWithCall
<1> QED
  BY <1>1, <1>2, <1>3, CustodyInvariant, PTL DEF Spec
=============================================================================
