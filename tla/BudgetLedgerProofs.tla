-------------------------- MODULE BudgetLedgerProofs --------------------------
(***************************************************************************)
(* For every set of calls, every nesting of scopes, every lease time, lag  *)
(* and amount: the ledger is type correct, implements BudgetGate, and so   *)
(* keeps the spend of a scope within its cap, and its snapshot offers what *)
(* an admission grants.  First the arithmetic of amounts, last the gate.   *)
(***************************************************************************)
EXTENDS BudgetLedger, FiniteSetTheorems, TLAPS

-----------------------------------------------------------------------------
(* Rounding *)

\* Rounding up never loses money and adds less than one micro-USD.
LEMMA CeilBounds ==
  ASSUME NEW x \in Nat
  PROVE  /\ Ceil(x) \in Nat
         /\ x <= Grain * Ceil(x)
         /\ Grain * Ceil(x) < x + Grain
BY GrainAssumption DEF Ceil

\* Multiples of Grain less than one Grain apart are ordered as their factors.
LEMMA GrainOrder ==
  ASSUME NEW a \in Nat, NEW b \in Nat, Grain * a < Grain * b + Grain
  PROVE  a <= b
<1> SUFFICES ASSUME a >= b + 1 PROVE FALSE
  OBVIOUS
<1>1. PICK d \in Nat : a = b + 1 + d
  <2> WITNESS a - b - 1 \in Nat
  <2> QED OBVIOUS
<1>2. Grain * a = Grain * b + Grain + Grain * d
  BY <1>1, GrainAssumption
<1>3. /\ Grain * a \in Nat
      /\ Grain * b \in Nat
      /\ Grain * d \in Nat
  BY <1>1, GrainAssumption
<1> QED
  BY <1>2, <1>3, GrainAssumption

\* If y is at most k whole micro-USD, adding y raises the rounded sum by at most k.
LEMMA CeilAdd ==
  ASSUME NEW x \in Nat, NEW y \in Nat, NEW k \in Nat, y <= Grain * k
  PROVE  Ceil(x + y) <= Ceil(x) + k
<1> DEFINE a == Ceil(x + y)
           b == Ceil(x)
<1>1. /\ a \in Nat /\ Grain * a < x + y + Grain
      /\ b \in Nat /\ x <= Grain * b
  BY CeilBounds
<1>2. /\ Grain * a \in Nat /\ Grain * b \in Nat /\ Grain * k \in Nat
      /\ b + k \in Nat
  BY <1>1, GrainAssumption
<1> HIDE DEF a, b
<1>3. Grain * (b + k) = Grain * b + Grain * k
  BY <1>1, GrainAssumption
<1>4. Grain * a < Grain * (b + k) + Grain
  BY <1>1, <1>2, <1>3, GrainAssumption
<1>5. a <= b + k
  BY <1>1, <1>2, <1>4, GrainOrder
<1> QED
  BY <1>5 DEF a, b

\* Rounding up is monotone.
LEMMA CeilMonotone ==
  ASSUME NEW x \in Nat, NEW y \in Nat, x <= y
  PROVE  Ceil(x) <= Ceil(y)
<1> DEFINE a == Ceil(x)
           b == Ceil(y)
<1>1. /\ a \in Nat /\ Grain * a < x + Grain
      /\ b \in Nat /\ y <= Grain * b
  BY CeilBounds
<1>2. Grain * a \in Nat /\ Grain * b \in Nat
  BY <1>1, GrainAssumption
<1> HIDE DEF a, b
<1>3. Grain * a < Grain * b + Grain
  BY <1>1, <1>2, GrainAssumption
<1>4. a <= b
  BY <1>1, <1>3, GrainOrder
<1> QED
  BY <1>4 DEF a, b

-----------------------------------------------------------------------------
(* Sums *)

\* The units of one summand: as many as its value.
LEMMA UnitsOfOne ==
  ASSUME NEW c, NEW n \in Nat
  PROVE  /\ IsFiniteSet({c} \X (1 .. n))
         /\ Cardinality({c} \X (1 .. n)) = n
<1>1. /\ IsFiniteSet(1 .. n)
      /\ Cardinality(1 .. n) = n
  BY FS_Interval
<1>2. /\ IsFiniteSet({c})
      /\ Cardinality({c}) = 1
  BY FS_Singleton
<1> QED
  BY <1>1, <1>2, FS_Product

\* A finite sum of naturals is a natural.
LEMMA TotalType ==
  ASSUME NEW S, IsFiniteSet(S), NEW f, \A c \in S : f[c] \in Nat
  PROVE  /\ IsFiniteSet(Units(f, S))
         /\ Total(f, S) \in Nat
<1> DEFINE P == {{c} \X (1 .. f[c]) : c \in S}
           h == [c \in S |-> {c} \X (1 .. f[c])]
<1>1. IsFiniteSet(P)
  <2>1. h \in Surjection(S, P)
    BY DEF Surjection
  <2> QED
    BY <2>1, FS_Surjection
<1>2. ASSUME NEW T \in P
      PROVE  IsFiniteSet(T)
  <2>1. PICK c \in S : T = {c} \X (1 .. f[c])
    OBVIOUS
  <2> QED
    BY <2>1, UnitsOfOne
<1>3. IsFiniteSet(UNION P)
  BY <1>1, <1>2, FS_UNION
<1> QED
  BY <1>3, FS_CardinalityType DEF Units, Total

\* More summands, or larger ones, never make the sum smaller.
LEMMA TotalMonotone ==
  ASSUME NEW T, IsFiniteSet(T), NEW S \in SUBSET T, NEW f, NEW g,
         \A c \in T : g[c] \in Nat,
         \A c \in S : f[c] \in Nat /\ f[c] <= g[c]
  PROVE  Total(f, S) <= Total(g, T)
<1>1. IsFiniteSet(Units(g, T))
  BY TotalType
<1>2. Units(f, S) \subseteq Units(g, T)
  BY DEF Units
<1> QED
  BY <1>1, <1>2, FS_Subset DEF Total

\* A sum depends only on the values of its summands.
LEMMA TotalCongruence ==
  ASSUME NEW S, NEW f, NEW g, \A c \in S : f[c] = g[c]
  PROVE  Total(f, S) = Total(g, S)
<1>1. Units(f, S) = Units(g, S)
  BY DEF Units
<1> QED
  BY <1>1 DEF Total

\* One summand can be taken out of a sum.
LEMMA TotalSplit ==
  ASSUME NEW S, IsFiniteSet(S), NEW f, \A c \in S : f[c] \in Nat, NEW d \in S
  PROVE  /\ Total(f, S \ {d}) \in Nat
         /\ Total(f, S) = Total(f, S \ {d}) + f[d]
<1> DEFINE A == Units(f, S \ {d})
           B == {d} \X (1 .. f[d])
<1>1. IsFiniteSet(S \ {d})
  BY FS_Subset
<1>2. IsFiniteSet(A) /\ Total(f, S \ {d}) \in Nat
  BY <1>1, TotalType
<1>3. IsFiniteSet(B) /\ Cardinality(B) = f[d]
  BY UnitsOfOne
<1>4. Units(f, S) = A \cup B
  BY DEF Units
<1>5. A \cap B = {}
  BY DEF Units
<1>6. Cardinality(A \cap B) = 0
  BY <1>5, FS_EmptySet
<1>7. Cardinality(A \cup B) = Cardinality(A) + Cardinality(B) - Cardinality(A \cap B)
  BY <1>2, <1>3, FS_Union
<1> QED
  BY <1>2, <1>3, <1>4, <1>6, <1>7 DEF Total

\* Summands outside the support do not count.
LEMMA TotalOnSupport ==
  ASSUME NEW A, NEW B \in SUBSET A, NEW f, \A c \in A \ B : f[c] = 0
  PROVE  Total(f, A) = Total(f, B)
<1>1. ASSUME NEW u \in Units(f, A) PROVE u \in Units(f, B)
  <2>1. PICK c \in A : u \in {c} \X (1 .. f[c])
    BY <1>1 DEF Units
  <2>2. 1 .. f[c] # {}
    BY <2>1
  <2>3. c \in B
    BY <2>2
  <2> QED
    BY <2>1, <2>3 DEF Units
<1>2. Units(f, B) \subseteq Units(f, A)
  BY DEF Units
<1>3. Units(f, A) = Units(f, B)
  BY <1>1, <1>2
<1> QED
  BY <1>3 DEF Total

\* A sum over a union is at most the two sums together.
LEMMA TotalUnion ==
  ASSUME NEW A, NEW B, IsFiniteSet(A), IsFiniteSet(B), NEW f,
         \A c \in A \cup B : f[c] \in Nat
  PROVE  Total(f, A \cup B) <= Total(f, A) + Total(f, B)
<1> DEFINE P == Units(f, A)
           Q == Units(f, B)
<1>1. /\ IsFiniteSet(P) /\ Cardinality(P) \in Nat
      /\ IsFiniteSet(Q) /\ Cardinality(Q) \in Nat
  BY TotalType DEF Total
<1>2. Units(f, A \cup B) = P \cup Q
  BY DEF Units
<1>3. /\ IsFiniteSet(P \cap Q)
      /\ Cardinality(P \cup Q) = Cardinality(P) + Cardinality(Q) - Cardinality(P \cap Q)
  BY <1>1, FS_Union, FS_Intersection
<1>4. Cardinality(P \cap Q) \in Nat
  BY <1>3, FS_CardinalityType
<1>5. /\ Total(f, A) = Cardinality(P) /\ Total(f, B) = Cardinality(Q)
      /\ Total(f, A \cup B) = Cardinality(P \cup Q)
  BY <1>2 DEF Total
<1> HIDE DEF P, Q
<1> QED
  BY <1>1, <1>3, <1>4, <1>5

\* A sum of whole micro-USD, in raw units.
LEMMA TotalInGrains ==
  ASSUME NEW S, IsFiniteSet(S), NEW f, NEW g,
         \A c \in S : f[c] \in Nat /\ g[c] = Grain * f[c]
  PROVE  /\ Total(f, S) \in Nat
         /\ Total(g, S) <= Grain * Total(f, S)
<1> DEFINE U == Units(f, S)
           V == Units(g, S)
           D == (1 .. Grain) \X U
           T == {<<d[2][1], Grain * (d[2][2] - 1) + d[1]>> : d \in D}
           h == [d \in D |-> <<d[2][1], Grain * (d[2][2] - 1) + d[1]>>]
<1>1. IsFiniteSet(U) /\ Cardinality(U) \in Nat
  BY TotalType DEF Total
<1>2. IsFiniteSet(D) /\ Cardinality(D) = Grain * Cardinality(U)
  <2>1. IsFiniteSet(1 .. Grain) /\ Cardinality(1 .. Grain) = Grain
    BY FS_Interval, GrainAssumption
  <2> QED
    BY <1>1, <2>1, FS_Product
<1>3. IsFiniteSet(T) /\ Cardinality(T) <= Cardinality(D)
  <2>1. h \in Surjection(D, T)
    BY DEF Surjection
  <2> QED
    BY <1>2, <2>1, FS_Surjection
\* The u-th raw unit of c is the j-th unit of its k-th micro-USD.
<1>4. ASSUME NEW c \in S, NEW u \in 1 .. g[c]
      PROVE  <<c, u>> \in T
  <2> DEFINE k == Ceil(u)
             j == u - Grain * (k - 1)
  <2>1. /\ u \in Nat /\ u >= 1 /\ f[c] \in Nat /\ u <= Grain * f[c]
    BY <1>4, GrainAssumption
  <2>2. k \in Nat /\ u <= Grain * k /\ Grain * k < u + Grain
    BY <2>1, CeilBounds
  <2> HIDE DEF k
  <2>3. k # 0
    BY <2>1, <2>2, GrainAssumption
  <2>4. k <= f[c]
    <3>1. Grain * k \in Nat /\ Grain * f[c] \in Nat
      BY <2>1, <2>2, GrainAssumption
    <3>2. Grain * k < Grain * f[c] + Grain
      BY <2>1, <2>2, <3>1, GrainAssumption
    <3> QED
      BY <2>1, <2>2, <3>2, GrainOrder
  <2>5. Grain * (k - 1) = Grain * k - Grain /\ Grain * k \in Nat
    BY <2>2, GrainAssumption
  <2>6. j \in 1 .. Grain /\ u = Grain * (k - 1) + j
    BY <2>1, <2>2, <2>5, GrainAssumption
  <2> HIDE DEF j
  <2>7. <<c, k>> \in U
    BY <1>4, <2>2, <2>3, <2>4 DEF Units
  <2>8. <<j, <<c, k>>>> \in D
    BY <2>6, <2>7
  <2> QED
    BY <2>6, <2>8
<1>5. V \subseteq T
  BY <1>4 DEF Units
<1>6. Cardinality(V) <= Cardinality(T) /\ Cardinality(V) \in Nat /\ Cardinality(T) \in Nat
  BY <1>3, <1>5, FS_Subset, FS_CardinalityType
<1> QED
  BY <1>1, <1>2, <1>3, <1>6, FS_CardinalityType, GrainAssumption DEF Total

\* Rounding two sums on their own gives at least the rounded sum.
LEMMA CeilSubadditive ==
  ASSUME NEW x \in Nat, NEW y \in Nat
  PROVE  Ceil(x + y) <= Ceil(x) + Ceil(y)
<1>1. Ceil(y) \in Nat /\ y <= Grain * Ceil(y)
  BY CeilBounds
<1> QED
  BY <1>1, CeilAdd

-----------------------------------------------------------------------------
(* Types *)

\* Observed times are clock values.
LEMMA ObservedType == TypeOK => Observed \subseteq Nat
BY DEF Observed, TypeOK

LEMMA LedgerTypeInit == Init => TypeOK
BY LedgerAssumption, ScopesAssumption DEF Init, TypeOK, Statuses, Tables

LEMMA LedgerTypeStep == TypeOK /\ [Next]_vars => TypeOK'
<1> SUFFICES ASSUME TypeOK, [Next]_vars PROVE TypeOK'
  OBVIOUS
<1> USE LedgerAssumption, ScopesAssumption DEF TypeOK, leaseVars, rowVars
<1>1. CASE Tick
  BY <1>1 DEF Tick
<1>2. ASSUME NEW c \in Call, NEW s \in Scope, NEW b \in Budget, NEW r \in Reservation,
             NEW t \in Observed, Acquire(c, s, b, r, t)
      PROVE  TypeOK'
  <2>1. Floor(b) \in Nat
    BY GrainAssumption DEF Floor
  <2>2. Ceil(r) \in Nat
    BY CeilBounds
  <2>3. t + LeaseTTL \in Nat
    BY ObservedType
  <2>4. ExpireLeases(s, t) \in [Call -> Statuses]
    BY DEF ExpireLeases, Statuses
  <2> QED
    BY <1>2, <2>1, <2>2, <2>3, <2>4 DEF Acquire, Statuses
<1>3. ASSUME NEW s \in Scope, NEW b \in Budget, NEW n \in Budget, NEW t \in Observed,
             RaiseCap(s, b, n, t)
      PROVE  TypeOK'
  <2>1. Floor(n) \in Nat
    BY GrainAssumption DEF Floor
  <2>2. ExpireLeases(s, t) \in [Call -> Statuses]
    BY DEF ExpireLeases, Statuses
  <2> QED
    BY <1>3, <2>1, <2>2 DEF RaiseCap
<1>4. ASSUME NEW c \in Call, Release(c) PROVE TypeOK'
  BY <1>4 DEF Release, Statuses
<1>5. ASSUME NEW c \in Call, NEW x \in Cost, Settle(c, x) PROVE TypeOK'
  BY <1>5, CeilBounds DEF Settle, Statuses
<1>6. ASSUME NEW c \in Call, NEW t \in Observed, Renew(c, t) PROVE TypeOK'
  BY <1>6, ObservedType DEF Renew
<1>7. ASSUME NEW c \in Call, NEW tbl \in Tables \ {"none"}, NEW x \in Cost, LogRow(c, tbl, x)
      PROVE  TypeOK'
  <2>1. Grain * reserved[c] \in Nat
    BY GrainAssumption
  <2> QED
    BY <1>7, <2>1 DEF LogRow
<1>8. CASE UNCHANGED vars
  BY <1>8 DEF vars
<1> QED
  BY <1>1, <1>2, <1>3, <1>4, <1>5, <1>6, <1>7, <1>8 DEF Next

\* Every column of the ledger keeps its type.
THEOREM LedgerTypeCorrect == Spec => []TypeOK
BY LedgerTypeInit, LedgerTypeStep, PTL DEF Spec

-----------------------------------------------------------------------------
(* The invariant the refinement rests on *)

\* A call has a root exactly when it has a reservation, and then the rows it
\* logs are among those its root counts; a cost is covered only by a row.
Bookkeeping ==
  \A c \in Call :
    /\ status[c] = "none" <=> root[c] = NoScope
    /\ \A s \in Scope : root[c] = s => c \in CountedIn[s]
    /\ table[c] = "none" => cost[c] = 0 /\ covered[c] = 0
    /\ covered[c] <= cost[c]

LEMMA BookkeepingInit == Init => Bookkeeping
BY LedgerAssumption, ScopesAssumption DEF Init, Bookkeeping

LEMMA BookkeepingStep == TypeOK /\ Bookkeeping /\ [Next]_vars => Bookkeeping'
<1> SUFFICES ASSUME TypeOK, Bookkeeping, [Next]_vars PROVE Bookkeeping'
  OBVIOUS
<1> USE LedgerAssumption, ScopesAssumption DEF TypeOK, Bookkeeping, leaseVars, rowVars
<1>1. CASE Tick
  BY <1>1 DEF Tick
<1>2. ASSUME NEW c \in Call, NEW s \in Scope, NEW b \in Budget, NEW r \in Reservation,
             NEW t \in Observed, Acquire(c, s, b, r, t)
      PROVE  Bookkeeping'
  <2>1. \A d \in Call : status'[d] = "none" <=> status[d] = "none" /\ d # c
    BY <1>2 DEF Acquire, ExpireLeases, Overdue
  <2>2. \A d \in Call : root'[d] = IF d = c THEN s ELSE root[d]
    BY <1>2 DEF Acquire
  <2> QED
    BY <1>2, <2>1, <2>2 DEF Acquire
<1>3. ASSUME NEW s \in Scope, NEW b \in Budget, NEW n \in Budget, NEW t \in Observed,
             RaiseCap(s, b, n, t)
      PROVE  Bookkeeping'
  <2>1. \A d \in Call : status'[d] = "none" <=> status[d] = "none"
    BY <1>3 DEF RaiseCap, ExpireLeases, Overdue
  <2> QED
    BY <1>3, <2>1 DEF RaiseCap
<1>4. ASSUME NEW c \in Call, Release(c) PROVE Bookkeeping'
  BY <1>4 DEF Release
<1>5. ASSUME NEW c \in Call, NEW x \in Cost, Settle(c, x) PROVE Bookkeeping'
  BY <1>5 DEF Settle
<1>6. ASSUME NEW c \in Call, NEW t \in Observed, Renew(c, t) PROVE Bookkeeping'
  BY <1>6 DEF Renew
<1>7. ASSUME NEW c \in Call, NEW tbl \in Tables \ {"none"}, NEW x \in Cost, LogRow(c, tbl, x)
      PROVE  Bookkeeping'
  <2>1. Grain * reserved[c] \in Nat
    BY GrainAssumption
  <2> QED
    BY <1>7, <2>1 DEF LogRow
<1>8. CASE UNCHANGED vars
  BY <1>8 DEF vars
<1> QED
  BY <1>1, <1>2, <1>3, <1>4, <1>5, <1>6, <1>7, <1>8 DEF Next

-----------------------------------------------------------------------------
(* The ledger implements the gate *)

\* What the gate sees of a call's reservation.
Promised == [c \in Call |-> IF InFlight(c) THEN reserved[c] ELSE 0]

\* The gate's arithmetic is the ledger's.
LEMMA GateArithmetic ==
  /\ \A f, S : Gate!Total(f, S) = Total(f, S)
  /\ \A x : Gate!Ceil(x) = Ceil(x)
<1>1. \A S : Gate!Cardinality(S) = Cardinality(S)
  BY Zenon
  DEF Gate!Cardinality, Cardinality
<1> QED
  BY <1>1 DEF Gate!Total, Gate!Units, Gate!Ceil, Total, Units, Ceil

\* The spend a scope covered is part of the rows it counts, however the two
\* tables are summed and rounded.
LEMMA CoveredWithinSettled ==
  ASSUME TypeOK, Bookkeeping, NEW s \in Scope
  PROVE  /\ Total(covered, {c \in Call : root[c] = s}) \in Nat
         /\ Settled(s) \in Nat
         /\ Ceil(Total(covered, {c \in Call : root[c] = s})) <= Settled(s)
<1> DEFINE A == {c \in Call : root[c] = s}
           L == Rows(s, "llm_calls")
           E == Rows(s, "embeddings")
           B == A \cap (L \cup E)
<1>1. /\ IsFiniteSet(A) /\ IsFiniteSet(L) /\ IsFiniteSet(E)
      /\ IsFiniteSet(L \cup E)
      /\ A \subseteq Call /\ L \subseteq Call /\ E \subseteq Call
  <2>1. A \subseteq Call /\ L \subseteq Call /\ E \subseteq Call /\ (L \cup E) \subseteq Call
    BY LedgerAssumption, ScopesAssumption DEF Rows
  <2>2. \A T \in SUBSET Call : IsFiniteSet(T)
    BY LedgerAssumption, ScopesAssumption, FS_Subset
  <2> HIDE DEF A, L, E
  <2> QED
    BY <2>1, <2>2
<1>2. \A c \in Call : /\ covered[c] \in Nat /\ cost[c] \in Nat
                      /\ covered[c] <= cost[c]
  BY DEF TypeOK, Bookkeeping
<1>3. \A c \in A \ B : covered[c] = 0
  BY DEF TypeOK, Bookkeeping, Rows, Tables
<1> HIDE DEF L, E, A
<1>4. Total(covered, A) = Total(covered, B)
  BY <1>3, TotalOnSupport
<1>5. /\ Total(covered, A) \in Nat
      /\ Total(cost, L) \in Nat /\ Total(cost, E) \in Nat
      /\ Total(cost, L \cup E) \in Nat
  <2>1. \A T \in SUBSET Call : IsFiniteSet(T) =>
          Total(covered, T) \in Nat /\ Total(cost, T) \in Nat
    BY <1>2, TotalType
  <2> QED
    BY <1>1, <2>1
<1>6. Total(covered, B) <= Total(cost, L \cup E)
  BY <1>1, <1>2, TotalMonotone
<1>7. Total(cost, L \cup E) <= Total(cost, L) + Total(cost, E)
  BY <1>1, <1>2, TotalUnion
<1> DEFINE a == Total(covered, A)
           x == Total(cost, L)
           y == Total(cost, E)
<1>8. a \in Nat /\ x \in Nat /\ y \in Nat /\ a <= x + y
  BY <1>4, <1>5, <1>6, <1>7
<1>9. Settled(s) = Ceil(x) + Ceil(y)
  BY DEF Settled, L, E
<1> HIDE DEF a, x, y
<1>10. Ceil(a) <= Ceil(x + y) /\ Ceil(x + y) <= Ceil(x) + Ceil(y)
  BY <1>8, CeilMonotone, CeilSubadditive
<1>11. Ceil(a) \in Nat /\ Ceil(x) \in Nat /\ Ceil(y) \in Nat /\ Ceil(x + y) \in Nat
  BY <1>8, CeilBounds
<1> QED
  BY <1>8, <1>9, <1>10, <1>11 DEF a, A

\* An admission that fits keeps what the gate has committed within the cap.
LEMMA AcquireFitsGate ==
  ASSUME TypeOK, Bookkeeping, TypeOK',
         NEW c \in Call, NEW s \in Scope, NEW b \in Budget, NEW r \in Reservation,
         NEW t \in Observed, Acquire(c, s, b, r, t)
  PROVE  Gate!Committed(s)' <= cap'[s]
<1> DEFINE A == {d \in Call : root[d] = s}
           N == {d \in Call : root'[d] = s}
           V == Live(s, t)
           p == Promised'
<1>1. N = A \cup {c} /\ c \notin A /\ N \ {c} = A /\ c \in N
  BY LedgerAssumption, ScopesAssumption DEF Acquire, TypeOK, Bookkeeping
<1>2. IsFiniteSet(N) /\ IsFiniteSet(A) /\ IsFiniteSet(V) /\ V \subseteq A
  <2>1. N \subseteq Call /\ A \subseteq Call /\ V \subseteq A
    BY DEF Live
  <2> QED
    BY <2>1, LedgerAssumption, ScopesAssumption, FS_Subset
<1>3. \A d \in Call : p[d] \in Nat /\ reserved[d] \in Nat /\ covered[d] \in Nat
  BY DEF Promised, TypeOK
<1>4. p[c] = Ceil(r)
  BY DEF Promised, InFlight, Acquire, TypeOK, rowVars, ExpireLeases
<1>5. \A d \in A : IF d \in V THEN p[d] <= reserved[d] ELSE p[d] = 0
  <2> SUFFICES ASSUME NEW d \in A
               PROVE  IF d \in V THEN p[d] <= reserved[d] ELSE p[d] = 0
    OBVIOUS
  <2>1. d # c /\ d \in Call
    BY <1>1
  <2>2. reserved'[d] = reserved[d]
    BY <2>1 DEF Acquire, TypeOK
  <2>3. status'[d] = IF d \in Overdue(s, t) THEN "expired" ELSE status[d]
    BY <2>1 DEF Acquire, ExpireLeases, TypeOK
  <2>4. p[d] = IF status'[d] = "active" /\ table'[d] = "none" THEN reserved'[d] ELSE 0
    BY <2>1 DEF Promised, InFlight
  <2>5. status'[d] = "active" => d \in V
    <3>1. t \in Nat /\ expires[d] \in Nat
      BY <2>1, ObservedType DEF TypeOK
    <3> QED
      BY <2>1, <2>3, <3>1 DEF Overdue, Live
  <2>6. reserved[d] \in Nat
    BY <2>1 DEF TypeOK
  <2> QED
    BY <2>2, <2>4, <2>5, <2>6
<1> HIDE DEF N, A, V, p
<1>6. /\ Total(p, A) = Total(p, V)
      /\ Total(p, V) <= Total(reserved, V)
  <2>1. V \in SUBSET A /\ V \subseteq Call
    BY <1>2 DEF A
  <2>2. Total(p, A) = Total(p, V)
    BY <1>5, <2>1, TotalOnSupport
  <2>3. \A d \in V : p[d] \in Nat /\ reserved[d] \in Nat /\ p[d] <= reserved[d]
    BY <1>3, <1>5, <2>1
  <2>4. Total(p, V) <= Total(reserved, V)
    BY <1>2, <2>3, TotalMonotone
  <2> QED
    BY <2>2, <2>4
<1>7. Total(p, N) = Total(p, A) + Ceil(r) /\ Total(p, A) \in Nat
  BY <1>1, <1>2, <1>3, <1>4, TotalSplit DEF N
<1>8. Total(covered, N) = Total(covered, A)
  <2>1. covered[c] = 0
    BY DEF Acquire, Bookkeeping
  <2>2. A \in SUBSET N /\ \A d \in N \ A : covered[d] = 0
    BY <1>1, <2>1
  <2> QED
    BY <2>2, TotalOnSupport
<1>9. /\ Total(covered, A) \in Nat /\ Settled(s) \in Nat
      /\ Ceil(Total(covered, A)) <= Settled(s)
      /\ Ceil(Total(covered, A)) \in Nat
  <2>1. Total(covered, A) \in Nat /\ Settled(s) \in Nat
        /\ Ceil(Total(covered, A)) <= Settled(s)
    BY CoveredWithinSettled DEF A
  <2> QED
    BY <2>1, CeilBounds
<1>10. Settled(s) + Total(reserved, V) + Ceil(r) <= cap'[s]
  BY DEF Acquire, Fits, ActiveReserved, V, TypeOK
<1>11. Total(reserved, V) \in Nat /\ Ceil(r) \in Nat /\ cap'[s] \in Nat
  <2>1. \A d \in V : reserved[d] \in Nat
    BY <1>2, <1>3 DEF A
  <2>2. Total(reserved, V) \in Nat
    BY <1>2, <2>1, TotalType
  <2> QED
    BY <2>2, CeilBounds, LedgerAssumption, ScopesAssumption DEF TypeOK
<1>12. Gate!Committed(s)' = Ceil(Total(covered, N)) + Total(p, N)
  <2>1. covered' = covered
    BY DEF Acquire, rowVars
  <2>2. Gate!Admitted(s)' = N
    BY DEF Gate!Admitted, N
  <2>3. Gate!Committed(s)' = Gate!Ceil(Gate!Total(covered', N)) + Gate!Total(p, N)
    BY <2>2 DEF Gate!Committed, p, Promised
  <2> QED
    BY <2>1, <2>3, GateArithmetic
<1> QED
  BY <1>6, <1>7, <1>8, <1>9, <1>10, <1>11, <1>12

LEMMA PromisedType ==
  /\ TypeOK => Promised \in [Call -> Nat]
  /\ TypeOK' => Promised' \in [Call -> Nat]
BY DEF TypeOK, Promised

\* Expiring overdue leases takes promises away and creates none.
LEMMA ExpireLoses ==
  ASSUME NEW s, NEW t, NEW d \in Call, table' = table,
         reserved'[d] = reserved[d], status'[d] = ExpireLeases(s, t)[d]
  PROVE  Promised'[d] \in {0, Promised[d]}
<1>1. status'[d] \in {status[d], "expired"}
  BY DEF ExpireLeases
<1> QED
  BY <1>1 DEF Promised, InFlight

\* Every step of the ledger is a step of the gate, or invisible to it.
LEMMA LedgerStepIsGateStep ==
  ASSUME TypeOK, TypeOK', Bookkeeping, [Next]_vars
  PROVE  [Gate!Next]_(Gate!vars)
<1>1. /\ Promised \in [Call -> Nat] /\ Promised' \in [Call -> Nat]
      /\ covered \in [Call -> Nat]
  BY PromisedType DEF TypeOK
<1>2. ASSUME UNCHANGED <<cap, root, covered>>, Promised' = Promised
      PROVE  UNCHANGED Gate!vars
  BY <1>2 DEF Gate!vars, Promised
<1>3. ASSUME UNCHANGED <<cap, root, covered>>,
             \A d \in Call : Promised'[d] \in {0, Promised[d]}
      PROVE  Gate!GiveBack
  BY <1>1, <1>3 DEF Gate!GiveBack, Gate!OthersMayLose, Promised
<1>4. CASE Tick
  <2>1. Promised' = Promised
    BY <1>4 DEF Tick, Promised, InFlight, leaseVars, rowVars
  <2> QED
    BY <1>2, <1>4, <2>1 DEF Tick, leaseVars, rowVars
<1>5. ASSUME NEW c \in Call, NEW s \in Scope, NEW b \in Budget, NEW r \in Reservation,
             NEW t \in Observed, Acquire(c, s, b, r, t)
      PROVE  Gate!Admit(c, s)
  <2>1. Gate!Committed(s)' <= cap'[s]
    BY <1>5, AcquireFitsGate
  <2>2. root[c] = NoScope /\ root' = [root EXCEPT ![c] = s] /\ covered' = covered
    BY <1>5 DEF Acquire, Bookkeeping, rowVars
  <2>3. /\ cap' = [cap EXCEPT ![s] = cap'[s]] /\ cap'[s] \in Nat
        /\ cap[s] \in {0, cap'[s]}
    BY <1>5 DEF Acquire, TypeOK
  <2>4. \A d \in Call \ {c} : Promised'[d] \in {0, Promised[d]}
    <3>1. /\ table' = table
          /\ \A d \in Call \ {c} : /\ reserved'[d] = reserved[d]
                                   /\ status'[d] = ExpireLeases(s, t)[d]
      BY <1>5 DEF Acquire, rowVars, TypeOK, ExpireLeases
    <3> QED
      BY <3>1, ExpireLoses
  <2> QED
    BY <1>1, <2>1, <2>2, <2>3, <2>4
    DEF Gate!Admit, Gate!SetCap, Gate!OthersMayLose, Promised
<1>6. ASSUME NEW s \in Scope, NEW b \in Budget, NEW n \in Budget, NEW t \in Observed,
             RaiseCap(s, b, n, t)
      PROVE  Gate!RaiseCap(s)
  <2>1. Floor(b) \in Nat /\ Floor(n) \in Nat
    BY GrainAssumption, LedgerAssumption, ScopesAssumption DEF Floor
  <2>2. /\ cap' = [cap EXCEPT ![s] = cap'[s]] /\ cap'[s] \in Nat
        /\ cap[s] > 0 /\ cap'[s] >= cap[s]
    BY <1>6, <2>1 DEF RaiseCap, TypeOK
  <2>3. \A d \in Call : Promised'[d] \in {0, Promised[d]}
    <3>1. /\ table' = table
          /\ \A d \in Call : /\ reserved'[d] = reserved[d]
                             /\ status'[d] = ExpireLeases(s, t)[d]
      BY <1>6 DEF RaiseCap, rowVars
    <3> QED
      BY <3>1, ExpireLoses
  <2> QED
    BY <1>1, <1>6, <2>2, <2>3
    DEF Gate!RaiseCap, Gate!SetCap, Gate!OthersMayLose, Promised, RaiseCap, rowVars
<1>7. ASSUME NEW c \in Call, Release(c) \/ \E x \in Cost : Settle(c, x)
      PROVE  Gate!GiveBack
  <2>1. \A d \in Call : Promised'[d] \in {0, Promised[d]}
    BY <1>7 DEF Release, Settle, Promised, InFlight, rowVars, TypeOK
  <2> QED
    BY <1>3, <1>7, <2>1 DEF Release, Settle, rowVars
<1>8. ASSUME NEW c \in Call, NEW t \in Observed, Renew(c, t)
      PROVE  UNCHANGED Gate!vars
  <2>1. Promised' = Promised
    BY <1>8 DEF Renew, Promised, InFlight, rowVars
  <2> QED
    BY <1>2, <1>8, <2>1 DEF Renew, rowVars
<1>9. ASSUME NEW c \in Call, NEW tbl \in Tables \ {"none"}, NEW x \in Cost,
             LogRow(c, tbl, x)
      PROVE  Gate!Spend(c) \/ UNCHANGED Gate!vars
  <2>1. covered[c] = 0 /\ x \in Nat /\ reserved[c] \in Nat /\ Grain * reserved[c] \in Nat
    BY <1>9, LedgerAssumption, ScopesAssumption, GrainAssumption DEF LogRow, Bookkeeping, TypeOK
  <2>2. UNCHANGED <<cap, root, status, reserved>>
    BY <1>9 DEF LogRow, leaseVars
  <2>3. table[c] = "none" /\ table'[c] # "none" /\ \A d \in Call \ {c} : table'[d] = table[d]
    BY <1>9 DEF LogRow, TypeOK
  <2>4. Promised' = [Promised EXCEPT ![c] = 0]
    BY <2>2, <2>3 DEF Promised, InFlight
  <2>5. CASE status[c] = "active"
    <3>1. covered' = [covered EXCEPT ![c] = covered'[c]]
      BY <1>9 DEF LogRow, TypeOK
    <3>2. covered'[c] \in 0 .. Grain * reserved[c]
      BY <1>9, <2>1, <2>5 DEF LogRow, TypeOK
    <3>3. Promised[c] = reserved[c]
      BY <2>3, <2>5 DEF Promised, InFlight
    <3>4. Gate!Spend(c)
      BY <2>1, <2>2, <2>4, <3>1, <3>2, <3>3 DEF Gate!Spend, Promised
    <3> QED
      BY <3>4
  <2>6. CASE status[c] # "active"
    <3>1. covered' = covered
      BY <1>9, <2>1, <2>6 DEF LogRow, TypeOK
    <3>2. Promised' = Promised
      BY <2>2, <2>3, <2>6 DEF Promised, InFlight
    <3> QED
      BY <1>2, <2>2, <3>1, <3>2
  <2> QED
    BY <2>5, <2>6
<1>10. CASE UNCHANGED vars
  <2>1. Promised' = Promised
    BY <1>10 DEF vars, Promised, InFlight, leaseVars, rowVars
  <2> QED
    BY <1>2, <1>10, <2>1 DEF vars, leaseVars, rowVars
<1> QED
  BY <1>4, <1>5, <1>6, <1>7, <1>8, <1>9, <1>10 DEF Next, Gate!Next

LEMMA LedgerInitIsGateInit == Init => Gate!Init
BY DEF Init, Gate!Init, InFlight

\* Every behaviour of the ledger is a behaviour of the gate.
THEOREM LedgerImplementsGate == Spec => ImplementsGate
<1>1. TypeOK /\ TypeOK' /\ Bookkeeping /\ [Next]_vars => [Gate!Next]_(Gate!vars)
  BY LedgerStepIsGateStep
<1>2. Spec => [](TypeOK /\ Bookkeeping)
  BY LedgerTypeInit, LedgerTypeStep, BookkeepingInit, BookkeepingStep, PTL DEF Spec
<1> QED
  BY <1>1, <1>2, LedgerInitIsGateInit, PTL DEF Spec, ImplementsGate, Gate!Spec

-----------------------------------------------------------------------------
(* The gate keeps its promise *)

\* The gate's commitments, in the ledger's arithmetic.
LEMMA GateCommitted ==
  ASSUME NEW s \in Scope
  PROVE  /\ Gate!Committed(s) =
              Ceil(Total(covered, Gate!Admitted(s))) + Total(Promised, Gate!Admitted(s))
         /\ Gate!Committed(s)' =
              Ceil(Total(covered', Gate!Admitted(s)')) + Total(Promised', Gate!Admitted(s)')
BY GateArithmetic DEF Gate!Committed, Promised

\* The calls of a scope are finitely many, and their amounts are natural numbers.
LEMMA GateAmounts ==
  ASSUME Gate!TypeOK, NEW s \in Scope
  PROVE  /\ IsFiniteSet(Gate!Admitted(s)) /\ Gate!Admitted(s) \subseteq Call
         /\ \A d \in Call : covered[d] \in Nat /\ Promised[d] \in Nat
         /\ Total(covered, Gate!Admitted(s)) \in Nat
         /\ Total(Promised, Gate!Admitted(s)) \in Nat
         /\ Gate!Committed(s) \in Nat /\ cap[s] \in Nat
<1>1. IsFiniteSet(Gate!Admitted(s)) /\ Gate!Admitted(s) \subseteq Call
  BY ScopesAssumption, FS_Subset DEF Gate!Admitted
<1>2. \A d \in Call : covered[d] \in Nat /\ Promised[d] \in Nat
  BY DEF Gate!TypeOK, Promised
<1>3. /\ Total(covered, Gate!Admitted(s)) \in Nat
      /\ Total(Promised, Gate!Admitted(s)) \in Nat
  BY <1>1, <1>2, TotalType
<1>4. Gate!Committed(s) \in Nat
  BY <1>3, CeilBounds, GateCommitted
<1> QED
  BY <1>1, <1>2, <1>3, <1>4 DEF Gate!TypeOK

\* The same after a step.
LEMMA GateAmountsAfter ==
  ASSUME Gate!TypeOK', NEW s \in Scope
  PROVE  /\ \A d \in Call : covered'[d] \in Nat /\ Promised'[d] \in Nat
         /\ Gate!Committed(s)' \in Nat /\ cap'[s] \in Nat
<1>1. IsFiniteSet(Gate!Admitted(s)') /\ Gate!Admitted(s)' \subseteq Call
  BY ScopesAssumption, FS_Subset DEF Gate!Admitted
<1>2. \A d \in Call : covered'[d] \in Nat /\ Promised'[d] \in Nat
  BY DEF Gate!TypeOK, Promised
<1>3. /\ Total(covered', Gate!Admitted(s)') \in Nat
      /\ Total(Promised', Gate!Admitted(s)') \in Nat
  BY <1>1, <1>2, TotalType
<1>4. Gate!Committed(s)' \in Nat
  BY <1>3, CeilBounds, GateCommitted
<1> QED
  BY <1>2, <1>4 DEF Gate!TypeOK

\* A scope's commitments do not grow when its calls stay the same, none has
\* spent more, and none holds a larger promise.
LEMMA CommittedMonotone ==
  ASSUME Gate!TypeOK, Gate!TypeOK', NEW s \in Scope,
         Gate!Admitted(s)' = Gate!Admitted(s), covered' = covered,
         \A d \in Gate!Admitted(s) : Promised'[d] <= Promised[d]
  PROVE  Gate!Committed(s)' <= Gate!Committed(s)
<1> DEFINE A == Gate!Admitted(s)
<1>1. IsFiniteSet(A) /\ A \in SUBSET A /\ A \subseteq Call /\ A' = A
  BY GateAmounts
<1>2. \A d \in A : Promised[d] \in Nat /\ Promised'[d] \in Nat /\ Promised'[d] <= Promised[d]
  BY <1>1, GateAmounts, GateAmountsAfter
<1> HIDE DEF A
<1>3. Total(Promised', A) <= Total(Promised, A) /\ Total(Promised', A) \in Nat
  BY <1>1, <1>2, TotalMonotone, TotalType
<1>4. Total(Promised, A) \in Nat /\ Ceil(Total(covered, A)) \in Nat
  BY GateAmounts, CeilBounds DEF A
<1>5. /\ Gate!Committed(s)' = Ceil(Total(covered, A)) + Total(Promised', A)
      /\ Gate!Committed(s) = Ceil(Total(covered, A)) + Total(Promised, A)
  BY <1>1, GateCommitted DEF A
<1> QED
  BY <1>3, <1>4, <1>5

\* Spending out of a promise never raises what a scope has committed.
LEMMA SpendCommitted ==
  ASSUME Gate!TypeOK, Gate!TypeOK', NEW s \in Scope, NEW c \in Call, Gate!Spend(c)
  PROVE  Gate!Committed(s)' <= Gate!Committed(s)
<1> DEFINE A == Gate!Admitted(s)
<1>1. IsFiniteSet(A) /\ A \subseteq Call /\ A' = A
  BY GateAmounts DEF Gate!Admitted, Gate!Spend
<1>2. \A d \in A : /\ Promised[d] \in Nat /\ Promised'[d] \in Nat
                   /\ covered[d] \in Nat /\ covered'[d] \in Nat
  BY <1>1, GateAmounts, GateAmountsAfter
<1>3. \A d \in Call : d # c => Promised'[d] = Promised[d] /\ covered'[d] = covered[d]
  BY DEF Gate!Spend, Gate!TypeOK, Promised
<1>4. /\ Promised'[c] = 0 /\ covered[c] = 0 /\ covered'[c] <= Grain * Promised[c]
      /\ Promised[c] \in Nat
  BY GrainAssumption, GateAmounts, GateAmountsAfter DEF Gate!Spend, Gate!TypeOK, Promised
<1>5. /\ Gate!Committed(s)' = Ceil(Total(covered', A)) + Total(Promised', A)
      /\ Gate!Committed(s) = Ceil(Total(covered, A)) + Total(Promised, A)
  BY <1>1, GateCommitted
<1> HIDE DEF A
<1>6. CASE c \notin A
  <2>1. \A d \in A : Promised'[d] = Promised[d] /\ covered'[d] = covered[d]
    BY <1>1, <1>3, <1>6
  <2>2. Total(Promised', A) = Total(Promised, A) /\ Total(covered', A) = Total(covered, A)
    BY <2>1, TotalCongruence
  <2> QED
    BY <1>5, <2>2, GateAmounts
<1>7. CASE c \in A
  <2> DEFINE R == A \ {c}
             p == Total(Promised, R)
             x == Total(covered, R)
  <2>1. /\ p \in Nat /\ Total(Promised, A) = p + Promised[c]
        /\ x \in Nat /\ Total(covered, A) = x + covered[c]
    BY <1>1, <1>2, <1>7, TotalSplit
  <2>2. \A d \in R : Promised'[d] = Promised[d] /\ covered'[d] = covered[d]
    BY <1>1, <1>3
  <2>3. Total(Promised', R) = p /\ Total(covered', R) = x
    BY <2>2, TotalCongruence
  <2>4. Total(Promised', A) = p + Promised'[c] /\ Total(covered', A) = x + covered'[c]
    BY <1>1, <1>2, <1>7, <2>3, TotalSplit
  <2>5. x + covered'[c] \in Nat /\ covered'[c] \in Nat
    BY <1>2, <1>7, <2>1
  <2>6. Ceil(x + covered'[c]) <= Ceil(x) + Promised[c]
    BY <1>4, <2>1, <2>5, CeilAdd
  <2>7. Ceil(x + covered'[c]) \in Nat /\ Ceil(x) \in Nat
    BY <2>1, <2>5, CeilBounds
  <2>8. x + covered[c] = x
    BY <1>4, <2>1
  <2> HIDE DEF p, x, R
  <2> QED
    BY <1>4, <1>5, <2>1, <2>4, <2>6, <2>7, <2>8
<1> QED
  BY <1>6, <1>7

LEMMA GateTypeStep == Gate!TypeOK /\ [Gate!Next]_(Gate!vars) => Gate!TypeOK'
<1> SUFFICES ASSUME Gate!TypeOK, [Gate!Next]_(Gate!vars) PROVE Gate!TypeOK'
  OBVIOUS
<1> USE DEF Gate!TypeOK
<1>1. ASSUME NEW c \in Call, NEW s \in Scope, Gate!Admit(c, s) PROVE Gate!TypeOK'
  BY <1>1 DEF Gate!Admit, Gate!SetCap, Gate!OthersMayLose
<1>2. ASSUME NEW c \in Call, Gate!Spend(c) PROVE Gate!TypeOK'
  <2>1. Promised[c] \in Nat /\ covered'[c] \in 0 .. Grain * Promised[c]
    BY <1>2 DEF Gate!Spend, Promised
  <2>2. covered'[c] \in Nat
    BY <2>1, GrainAssumption
  <2> QED
    BY <1>2, <2>2 DEF Gate!Spend
<1>3. CASE Gate!GiveBack
  BY <1>3 DEF Gate!GiveBack, Gate!OthersMayLose
<1>4. ASSUME NEW s \in Scope, Gate!RaiseCap(s) PROVE Gate!TypeOK'
  BY <1>4 DEF Gate!RaiseCap, Gate!SetCap, Gate!OthersMayLose
<1>5. CASE UNCHANGED Gate!vars
  BY <1>5 DEF Gate!vars
<1> QED
  BY <1>1, <1>2, <1>3, <1>4, <1>5 DEF Gate!Next

LEMMA GateCapStep ==
  Gate!TypeOK /\ Gate!CommittedWithinCap /\ [Gate!Next]_(Gate!vars) => Gate!CommittedWithinCap'
<1> SUFFICES ASSUME Gate!TypeOK, Gate!CommittedWithinCap, [Gate!Next]_(Gate!vars),
                    NEW s \in Scope
             PROVE  Gate!Committed(s)' <= cap'[s]
  BY DEF Gate!CommittedWithinCap
<1>1. Gate!TypeOK'
  BY GateTypeStep
<1>2. /\ Gate!Committed(s) \in Nat /\ Gate!Committed(s) <= cap[s] /\ cap[s] \in Nat
      /\ Gate!Committed(s)' \in Nat /\ cap'[s] \in Nat
  BY <1>1, GateAmounts, GateAmountsAfter DEF Gate!CommittedWithinCap
<1>3. ASSUME Gate!OthersMayLose({})
      PROVE  \A d \in Gate!Admitted(s) : Promised'[d] <= Promised[d]
  <2>1. \A d \in Call : Promised'[d] \in {0, Promised[d]} /\ Promised[d] \in Nat
    BY <1>3, GateAmounts DEF Gate!OthersMayLose, Promised
  <2> QED
    BY <2>1 DEF Gate!Admitted
<1>4. ASSUME Gate!OthersMayLose({}), UNCHANGED <<root, covered>>
      PROVE  Gate!Committed(s)' <= Gate!Committed(s)
  <2>1. Gate!Admitted(s)' = Gate!Admitted(s)
    BY <1>4 DEF Gate!Admitted
  <2> QED
    BY <1>1, <1>3, <1>4, <2>1, CommittedMonotone
<1>5. ASSUME NEW c \in Call, NEW t \in Scope, Gate!Admit(c, t)
      PROVE  Gate!Committed(s)' <= cap'[s]
  <2>1. CASE s = t
    BY <1>5, <2>1 DEF Gate!Admit
  <2>2. CASE s # t
    <3>1. Gate!Admitted(s)' = Gate!Admitted(s) /\ c \notin Gate!Admitted(s)
      BY <1>5, <2>2, ScopesAssumption DEF Gate!Admit, Gate!Admitted, Gate!TypeOK
    <3>2. \A d \in Call \ {c} : Promised'[d] \in {0, Promised[d]} /\ Promised[d] \in Nat
      BY <1>5, GateAmounts DEF Gate!Admit, Gate!OthersMayLose, Promised
    <3>3. \A d \in Gate!Admitted(s) : Promised'[d] <= Promised[d]
      BY <3>1, <3>2 DEF Gate!Admitted
    <3>4. covered' = covered
      BY <1>5 DEF Gate!Admit
    <3>5. Gate!Committed(s)' <= Gate!Committed(s)
      BY <1>1, <3>1, <3>3, <3>4, CommittedMonotone
    <3>6. cap'[s] = cap[s]
      BY <1>5, <2>2 DEF Gate!Admit, Gate!SetCap, Gate!TypeOK
    <3> QED
      BY <1>2, <3>5, <3>6
  <2> QED
    BY <2>1, <2>2
<1>6. ASSUME NEW c \in Call, Gate!Spend(c)
      PROVE  Gate!Committed(s)' <= cap'[s]
  <2>1. Gate!Committed(s)' <= Gate!Committed(s)
    BY <1>1, <1>6, SpendCommitted
  <2> QED
    BY <1>2, <1>6, <2>1 DEF Gate!Spend
<1>7. CASE Gate!GiveBack
  BY <1>2, <1>4, <1>7 DEF Gate!GiveBack
<1>8. ASSUME NEW t \in Scope, Gate!RaiseCap(t)
      PROVE  Gate!Committed(s)' <= cap'[s]
  <2>1. cap'[s] >= cap[s]
    BY <1>2, <1>8 DEF Gate!RaiseCap, Gate!SetCap, Gate!TypeOK
  <2> QED
    BY <1>2, <1>4, <1>8, <2>1 DEF Gate!RaiseCap
<1>9. CASE UNCHANGED Gate!vars
  <2>1. /\ Gate!Admitted(s)' = Gate!Admitted(s) /\ Promised' = Promised
        /\ covered' = covered /\ cap' = cap
    BY <1>9 DEF Gate!vars, Gate!Admitted, Promised
  <2>2. Gate!Committed(s)' = Gate!Committed(s)
    BY <2>1, GateCommitted
  <2> QED
    BY <1>2, <2>1, <2>2
<1> QED
  BY <1>5, <1>6, <1>7, <1>8, <1>9 DEF Gate!Next

LEMMA GateInit == Gate!Init => Gate!TypeOK /\ Gate!CommittedWithinCap
<1> SUFFICES ASSUME Gate!Init PROVE Gate!TypeOK /\ Gate!CommittedWithinCap
  OBVIOUS
<1>1. Gate!TypeOK
  BY DEF Gate!Init, Gate!TypeOK
<1>2. ASSUME NEW s \in Scope PROVE Gate!Committed(s) <= cap[s]
  <2>1. Gate!Admitted(s) = {}
    BY ScopesAssumption DEF Gate!Init, Gate!Admitted
  <2>2. \A f : Total(f, {}) = 0
    BY FS_EmptySet DEF Total, Units
  <2>3. Gate!Committed(s) = Ceil(0) + 0
    BY <2>1, <2>2, GateCommitted
  <2>4. Ceil(0) = 0
    <3>1. Ceil(0) \in Nat /\ Grain * Ceil(0) < Grain
      BY CeilBounds, GrainAssumption
    <3>2. Grain * Ceil(0) < Grain * 0 + Grain
      BY <3>1, GrainAssumption
    <3>3. Ceil(0) <= 0
      BY <3>1, <3>2, GrainOrder
    <3> QED
      BY <3>1, <3>3
  <2> QED
    BY <2>3, <2>4 DEF Gate!Init
<1> QED
  BY <1>1, <1>2 DEF Gate!CommittedWithinCap

\* The gate's commitments never exceed a cap, in every behaviour of the gate.
THEOREM GateSafe == Gate!Spec => [](Gate!TypeOK /\ Gate!CommittedWithinCap)
<1>1. Gate!TypeOK /\ Gate!CommittedWithinCap /\ [Gate!Next]_(Gate!vars) =>
        (Gate!TypeOK /\ Gate!CommittedWithinCap)'
  BY GateTypeStep, GateCapStep
<1> QED
  BY GateInit, <1>1, PTL DEF Gate!Spec

\* Covered spend and open reservations of a scope stay within its cap.
THEOREM LedgerCommittedWithinCap == Spec => []CommittedWithinCap
BY GateSafe, LedgerImplementsGate, PTL DEF ImplementsGate, CommittedWithinCap

\* The bookkeeping and the gate's bound hold in every reachable state.
LEMMA LedgerInvariant == Spec => [](TypeOK /\ Bookkeeping /\ CommittedWithinCap)
BY LedgerTypeInit, LedgerTypeStep, BookkeepingInit, BookkeepingStep,
   LedgerCommittedWithinCap, PTL DEF Spec

\* In the ledger's own terms: covered spend and open promises fit the cap.
LEMMA CoveredAndPromised ==
  ASSUME TypeOK, Bookkeeping, CommittedWithinCap, NEW s \in Scope
  PROVE  LET A == {c \in Call : root[c] = s}
         IN  /\ IsFiniteSet(A)
             /\ \A c \in A : covered[c] \in Nat /\ Promised[c] \in Nat
             /\ Total(covered, A) \in Nat /\ Total(Promised, A) \in Nat
             /\ Ceil(Total(covered, A)) + Total(Promised, A) <= cap[s]
<1> DEFINE A == {c \in Call : root[c] = s}
<1>1. IsFiniteSet(A) /\ A \subseteq Call
  BY ScopesAssumption, FS_Subset
<1>2. \A c \in A : covered[c] \in Nat /\ Promised[c] \in Nat
  BY <1>1 DEF TypeOK, Promised
<1>3. Total(covered, A) \in Nat /\ Total(Promised, A) \in Nat
  BY <1>1, <1>2, TotalType
<1>4. Gate!Committed(s) = Ceil(Total(covered, A)) + Total(Promised, A)
  BY GateArithmetic DEF Gate!Committed, Gate!Admitted, Promised
<1> QED
  BY <1>1, <1>2, <1>3, <1>4 DEF CommittedWithinCap, Gate!CommittedWithinCap

\* A scope all of whose rows were covered by its own leases spent at most its
\* budget, in raw money: admission, expiry and rounding leak nothing.
THEOREM LedgerSpendWithinCap == Spec => []SpendWithinCap
<1>1. ASSUME TypeOK, Bookkeeping, CommittedWithinCap
      PROVE  SpendWithinCap
  <2> SUFFICES ASSUME NEW s \in Scope, Conforming(s)
               PROVE  Total(cost, {c \in CountedIn[s] : table[c] # "none"}) <= Grain * cap[s]
    BY DEF SpendWithinCap
  <2> DEFINE R == {c \in CountedIn[s] : table[c] # "none"}
             A == {c \in Call : root[c] = s}
             a == Total(covered, A)
             p == Total(Promised, A)
  <2>1. /\ R \in SUBSET A /\ A \subseteq Call /\ IsFiniteSet(A)
        /\ \A c \in R : cost[c] = covered[c]
    BY <1>1, LedgerAssumption, ScopesAssumption, FS_Subset DEF Conforming, TypeOK
  <2>2. \A c \in A : covered[c] \in Nat /\ Promised[c] \in Nat
    BY <1>1, CoveredAndPromised
  <2>3. a \in Nat /\ p \in Nat
    BY <1>1, CoveredAndPromised
  <2>4. Total(cost, R) <= a
    <3>1. Total(cost, R) = Total(covered, R)
      BY <2>1, TotalCongruence
    <3>2. Total(covered, R) <= a
      BY <2>1, <2>2, TotalMonotone
    <3> QED
      BY <3>1, <3>2
  <2>5. Ceil(a) + p <= cap[s]
    BY <1>1, CoveredAndPromised
  <2>6. Ceil(a) \in Nat /\ a <= Grain * Ceil(a) /\ cap[s] \in Nat
    BY <1>1, <2>3, CeilBounds DEF TypeOK
  <2>7. Total(cost, R) \in Nat
    BY <1>1, <2>1, FS_Subset, TotalType DEF TypeOK
  <2> HIDE DEF a, p, R, A
  <2>8. Ceil(a) <= cap[s]
    BY <2>3, <2>5, <2>6
  <2>9. Grain * Ceil(a) <= Grain * cap[s]
    BY <2>6, <2>8, GrainAssumption
  <2>10. Grain * Ceil(a) \in Nat /\ Grain * cap[s] \in Nat
    BY <2>6, GrainAssumption
  <2>11. Total(cost, R) <= Grain * cap[s]
    BY <2>3, <2>4, <2>6, <2>7, <2>9, <2>10
  <2> QED
    BY <2>11 DEF R
<1> QED
  BY <1>1, LedgerInvariant, PTL

\* A reservation that ended is never revived and its settled cost never rewritten.
THEOREM LedgerEndedIsFinal == Spec => EndedIsFinal
<1>1. ASSUME TypeOK, [Next]_vars, NEW c \in Call, status[c] \notin {"none", "active"}
      PROVE  status'[c] = status[c] /\ settledCost'[c] = settledCost[c]
  <2> USE <1>1 DEF TypeOK, leaseVars, rowVars
  <2>1. ASSUME NEW d \in Call, NEW s \in Scope, NEW b, NEW r, NEW t, Acquire(d, s, b, r, t)
        PROVE  status'[c] = status[c] /\ settledCost'[c] = settledCost[c]
    BY <2>1 DEF Acquire, ExpireLeases, Overdue
  <2>2. ASSUME NEW s \in Scope, NEW b, NEW n, NEW t, RaiseCap(s, b, n, t)
        PROVE  status'[c] = status[c] /\ settledCost'[c] = settledCost[c]
    BY <2>2 DEF RaiseCap, ExpireLeases, Overdue
  <2> QED
    BY <2>1, <2>2 DEF Next, Tick, Release, Settle, Renew, LogRow, vars
<1>2. TypeOK /\ [Next]_vars =>
        [\A c \in Call : status[c] \notin {"none", "active"} =>
           status'[c] = status[c] /\ settledCost'[c] = settledCost[c]]_vars
  BY <1>1
<1> QED
  BY <1>2, LedgerTypeCorrect, PTL DEF Spec, EndedIsFinal

\* A lease only expires when its own expiry time has passed.
THEOREM LedgerExpiredOnlyWhenDue == Spec => ExpiredOnlyWhenDue
<1>1. ASSUME TypeOK, [Next]_vars, NEW c \in Call, status[c] = "active", status'[c] = "expired"
      PROVE  expires[c] <= now
  <2> USE <1>1 DEF TypeOK, leaseVars, rowVars
  <2>1. ASSUME NEW s \in Scope, NEW t \in Observed, status'[c] = ExpireLeases(s, t)[c]
        PROVE  expires[c] <= now
    BY <2>1 DEF ExpireLeases, Overdue, Observed
  <2>2. ASSUME NEW d \in Call, NEW s \in Scope, NEW b, NEW r, NEW t \in Observed,
               Acquire(d, s, b, r, t)
        PROVE  expires[c] <= now
    <3>1. status'[c] = ExpireLeases(s, t)[c]
      BY <2>2 DEF Acquire, ExpireLeases
    <3> QED
      BY <2>1, <3>1
  <2>3. ASSUME NEW s \in Scope, NEW b, NEW n, NEW t \in Observed, RaiseCap(s, b, n, t)
        PROVE  expires[c] <= now
    BY <2>1, <2>3 DEF RaiseCap
  <2> QED
    BY <2>2, <2>3 DEF Next, Tick, Release, Settle, Renew, LogRow, vars
<1>2. TypeOK /\ [Next]_vars =>
        [\A c \in Call : status[c] = "active" /\ status'[c] = "expired" => expires[c] <= now]_vars
  BY <1>1
<1> QED
  BY <1>2, LedgerTypeCorrect, PTL DEF Spec, ExpiredOnlyWhenDue

\* What the snapshot offers is what an admission at the same time grants.
THEOREM LedgerSnapshotAgrees == Spec => []SnapshotAgreesWithAdmission
<1>1. ASSUME TypeOK, Bookkeeping
      PROVE  SnapshotAgreesWithAdmission
  <2> SUFFICES ASSUME NEW s \in Scope, NEW t \in Observed, NEW x \in Reservation
               PROVE  Ceil(x) <= Available(s, t) <=> Fits(s, t, cap[s], Ceil(x))
    BY DEF SnapshotAgreesWithAdmission
  <2>1. Ceil(x) \in Nat /\ Ceil(x) > 0
    <3>1. x \in Nat /\ x > 0
      BY LedgerAssumption
    <3>2. Ceil(x) \in Nat /\ x <= Grain * Ceil(x)
      BY <3>1, CeilBounds
    <3>3. Ceil(x) = 0 => Grain * Ceil(x) = 0
      BY GrainAssumption
    <3> QED
      BY <3>1, <3>2, <3>3
  <2>2. Settled(s) \in Nat
    BY <1>1, CoveredWithinSettled
  <2>3. ActiveReserved(s, t) \in Nat
    <3>1. IsFiniteSet(Live(s, t))
      BY ScopesAssumption, FS_Subset DEF Live
    <3>2. \A c \in Live(s, t) : reserved[c] \in Nat
      BY <1>1 DEF TypeOK, Live
    <3> QED
      BY <3>1, <3>2, TotalType DEF ActiveReserved
  <2>4. cap[s] \in Nat
    BY <1>1 DEF TypeOK
  <2> QED
    BY <2>1, <2>2, <2>3, <2>4 DEF Available, Fits
<1> QED
  BY <1>1, LedgerInvariant, PTL
=============================================================================
