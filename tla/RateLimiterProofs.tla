--------------------------- MODULE RateLimiterProofs ---------------------------
(***************************************************************************)
(* For any number of processes, attempts and providers, any caps and any   *)
(* pattern of cancellations, store failures and crashes, the calls in      *)
(* flight to a provider stay within its shared cap, as long as a lease     *)
(* outlives the longest provider call plus the wait for the write lock.    *)
(***************************************************************************)
EXTENDS RateLimiter, FiniteSetTheorems, TLAPS

USE CoordinationAssumption, LimiterAssumption

-----------------------------------------------------------------------------
(* The shared store by itself *)

RowsOf(p, S) == {a \in S : ProviderOf[a] = p}

\* A set of attempts is finite, and one more or fewer attempts count as such.
LEMMA Counting ==
  ASSUME NEW S, NEW T, S \subseteq T, T \subseteq Attempt
  PROVE  /\ IsFiniteSet(S) /\ IsFiniteSet(T)
         /\ Cardinality(S) \in Nat /\ Cardinality(T) \in Nat
         /\ Cardinality(S) <= Cardinality(T)
         /\ \A a \in Attempt \ T : Cardinality(T \cup {a}) = Cardinality(T) + 1
         /\ \A a \in T : Cardinality(T \ {a}) = Cardinality(T) - 1
<1>1. IsFiniteSet(S) /\ IsFiniteSet(T)
  BY FS_Subset
<1>2. Cardinality(S) \in Nat /\ Cardinality(T) \in Nat
  BY <1>1, FS_CardinalityType
<1>3. Cardinality(S) <= Cardinality(T)
  BY <1>1, FS_Subset
<1>4. \A a \in Attempt \ T : Cardinality(T \cup {a}) = Cardinality(T) + 1
  BY <1>1, FS_AddElement
<1>5. \A a \in T : Cardinality(T \ {a}) = Cardinality(T) - 1
  BY <1>1, FS_RemoveElement
<1> QED
  BY <1>1, <1>2, <1>3, <1>4, <1>5

LEMMA SetRowsType ==
  ASSUME DbTypeOK, NEW S \in SUBSET Attempt, NEW f,
         \A a \in S : f[a] \in -MaxLag .. LeaseTTL, SetRows(S, f)
  PROVE  DbTypeOK'
<1>1. 0 \in -MaxLag .. LeaseTTL
  OBVIOUS
<1>2. left' \in [Attempt -> -MaxLag .. LeaseTTL]
  BY <1>1 DEF SetRows
<1> QED
  BY <1>2 DEF DbTypeOK, SetRows

LEMMA DbTypeStep == DbTypeOK /\ [DbNext]_dbVars => DbTypeOK'
<1> SUFFICES ASSUME DbTypeOK, [DbNext]_dbVars PROVE DbTypeOK'
  OBVIOUS
<1>1. ASSUME NEW a \in Attempt, NEW lag \in 0 .. MaxLag, Claim(a, lag)
      PROVE  DbTypeOK'
  <2>1. LeaseTTL - lag \in -MaxLag .. LeaseTTL
    OBVIOUS
  <2>2. \A b \in Kept(lag) \cup {a} :
          [left EXCEPT ![a] = LeaseTTL - lag][b] \in -MaxLag .. LeaseTTL
    BY <2>1 DEF DbTypeOK, Kept
  <2> QED
    BY <1>1, <2>2, SetRowsType DEF Claim, DbTypeOK, Kept
<1>2. ASSUME NEW a \in Attempt, NEW lag \in 0 .. MaxLag, Refuse(a, lag)
      PROVE  DbTypeOK'
  BY <1>2, SetRowsType DEF Refuse, DbTypeOK, Kept
<1>3. ASSUME NEW a \in Attempt, ReleaseLease(a)
      PROVE  DbTypeOK'
  BY <1>3, SetRowsType DEF ReleaseLease, DbTypeOK
<1>4. ASSUME NEW a \in Attempt, NEW d \in Delay, ReadCooldown(a, d)
      PROVE  DbTypeOK'
  BY <1>4 DEF ReadCooldown, DbTypeOK
<1>5. ASSUME NEW S \in SUBSET Attempt, EndRecording(S)
      PROVE  /\ recording' \subseteq Attempt
             /\ found' \in [Attempt -> 0 .. MaxDelay]
             /\ asked' \in [Attempt -> 0 .. MaxDelay]
  BY <1>5 DEF EndRecording, DbTypeOK
<1>6. ASSUME NEW a \in Attempt, WriteCooldown(a)
      PROVE  DbTypeOK'
  <2>1. Later(found[a], asked[a]) \in 0 .. MaxDelay
    BY DEF DbTypeOK, Later
  <2> QED
    BY <1>5, <1>6, <2>1 DEF WriteCooldown, DbTypeOK
<1>7. ASSUME NEW S \in SUBSET Attempt, DropCooldowns(S)
      PROVE  DbTypeOK'
  BY <1>5, <1>7 DEF DropCooldowns, DbTypeOK
<1>8. CASE DbTick
  <2>1. \A n \in 0 .. MaxDelay : Sooner(n) \in 0 .. MaxDelay
    BY DEF Sooner
  <2>2. left' \in [Attempt -> -MaxLag .. LeaseTTL]
    BY <1>8 DEF DbTick, DbTypeOK
  <2> QED
    BY <1>8, <2>1, <2>2 DEF DbTick, DbTypeOK
<1>9. CASE UNCHANGED dbVars
  BY <1>9 DEF dbVars, DbTypeOK
<1> QED
  BY <1>1, <1>2, <1>3, <1>4, <1>6, <1>7, <1>8, <1>9 DEF DbNext

\* Deleting rows cannot exceed a cap.
LEMMA FewerRows ==
  ASSUME DbTypeOK, RowsWithinCap, rows' \subseteq rows
  PROVE  RowsWithinCap'
<1> SUFFICES ASSUME NEW p \in Provider
             PROVE  Cardinality(RowsOf(p, rows)') <= SharedLimit[p]
  BY DEF RowsWithinCap, RowsOf
<1>1. RowsOf(p, rows)' \subseteq RowsOf(p, rows) /\ RowsOf(p, rows) \subseteq Attempt
  BY DEF RowsOf, DbTypeOK
<1>2. Cardinality(RowsOf(p, rows)) <= SharedLimit[p]
  BY DEF RowsWithinCap, RowsOf
<1> QED
  BY <1>1, <1>2, Counting

LEMMA DbCapStep == DbTypeOK /\ RowsWithinCap /\ [DbNext]_dbVars => RowsWithinCap'
<1> SUFFICES ASSUME DbTypeOK, RowsWithinCap, [DbNext]_dbVars PROVE RowsWithinCap'
  OBVIOUS
<1>1. ASSUME NEW a \in Attempt, NEW lag \in 0 .. MaxLag, Claim(a, lag)
      PROVE  RowsWithinCap'
  <2> SUFFICES ASSUME NEW p \in Provider
               PROVE  Cardinality(RowsOf(p, rows')) <= SharedLimit[p]
    BY DEF RowsWithinCap, RowsOf
  <2>1. rows' = Kept(lag) \cup {a} /\ Kept(lag) \subseteq rows /\ rows \subseteq Attempt
    BY <1>1 DEF Claim, SetRows, Kept, DbTypeOK
  <2>2. CASE p = ProviderOf[a]
    <3>1. RowsOf(p, rows') = Taken(p, lag) \cup {a}
      BY <2>1, <2>2 DEF RowsOf, Taken
    <3>2. a \notin Taken(p, lag) /\ Taken(p, lag) \subseteq Attempt
      BY <1>1, <2>1 DEF Claim, Taken
    <3>3. Cardinality(Taken(p, lag)) < SharedLimit[p]
      BY <1>1, <2>2 DEF Claim, HasRoom
    <3> QED
      BY <3>1, <3>2, <3>3, Counting
  <2>3. CASE p # ProviderOf[a]
    <3>1. RowsOf(p, rows') \subseteq RowsOf(p, rows) /\ RowsOf(p, rows) \subseteq Attempt
      BY <2>1, <2>3 DEF RowsOf
    <3>2. Cardinality(RowsOf(p, rows)) <= SharedLimit[p]
      BY DEF RowsWithinCap, RowsOf
    <3> QED
      BY <3>1, <3>2, Counting
  <2> QED
    BY <2>2, <2>3
<1>2. ASSUME NEW a \in Attempt, NEW lag \in 0 .. MaxLag, Refuse(a, lag)
      PROVE  RowsWithinCap'
  BY <1>2, FewerRows DEF Refuse, SetRows, Kept
<1>3. ASSUME NEW a \in Attempt, ReleaseLease(a)
      PROVE  RowsWithinCap'
  BY <1>3, FewerRows DEF ReleaseLease, SetRows
<1>4. ASSUME rows' = rows
      PROVE  RowsWithinCap'
  BY <1>4, FewerRows
<1> QED
  BY <1>1, <1>2, <1>3, <1>4
  DEF DbNext, DbTick, ReadCooldown, WriteCooldown, DropCooldowns, dbVars

\* The lease table never holds more rows of a provider than its cap, whatever
\* the claims, refusals, releases and registrations of the processes
\* (try_acquire_lease deletes, counts and inserts in one transaction).
THEOREM StoreWithinCap == DbSpec => [](DbTypeOK /\ RowsWithinCap)
<1>1. DbInit => DbTypeOK /\ RowsWithinCap
  <2> SUFFICES ASSUME DbInit PROVE DbTypeOK /\ RowsWithinCap
    OBVIOUS
  <2>1. DbTypeOK
    BY DEF DbInit, DbTypeOK
  <2>2. \A p \in Provider : {a \in rows : ProviderOf[a] = p} = {}
    BY DEF DbInit
  <2> QED
    BY <2>1, <2>2, FS_EmptySet DEF RowsWithinCap
<1>2. DbTypeOK /\ RowsWithinCap /\ [DbNext]_dbVars => (DbTypeOK /\ RowsWithinCap)'
  BY DbTypeStep, DbCapStep
<1> QED
  BY <1>1, <1>2, PTL DEF DbSpec
-----------------------------------------------------------------------------
(* The limiter on top of it *)

\* Every step of the limiter is a step of the store or leaves it alone.
LEMMA StepIsStoreStep == [Next]_vars => [DbNext]_dbVars
<1> SUFFICES ASSUME [Next]_vars PROVE [DbNext]_dbVars
  OBVIOUS
<1>1. ASSUME NEW a \in Attempt, NEW lag \in 0 .. MaxLag,
             TakeLease(a, lag) \/ WaitForLease(a, lag)
      PROVE  [DbNext]_dbVars
  BY <1>1 DEF TakeLease, WaitForLease, DbNext
<1>2. ASSUME NEW a \in Attempt, NEW d \in Delay, Report(a, d)
      PROVE  [DbNext]_dbVars
  BY <1>2 DEF Report, DbNext
<1>3. ASSUME NEW a \in Attempt, Release(a)
      PROVE  [DbNext]_dbVars
  BY <1>3 DEF Release, DbNext
<1>4. ASSUME NEW a \in Attempt, Record(a)
      PROVE  [DbNext]_dbVars
  <2>1. {a} \in SUBSET Attempt
    OBVIOUS
  <2> QED
    BY <1>4, <2>1 DEF Record, DbNext
<1>5. ASSUME NEW p \in Process, Crash(p)
      PROVE  [DbNext]_dbVars
  <2>1. {a \in Attempt : Home[a] = p} \in SUBSET Attempt
    OBVIOUS
  <2> QED
    BY <1>5, <2>1 DEF Crash, DbNext
<1>6. CASE Tick
  BY <1>6 DEF Tick, DbNext
<1>7. ASSUME NEW a \in Attempt,
             \/ Begin(a) \/ PassCooldown(a) \/ SleepThroughCooldown(a)
             \/ TakePermit(a) \/ PollAgain(a) \/ Cancel(a) \/ EndCall(a)
      PROVE  UNCHANGED dbVars
  BY <1>7 DEF Begin, PassCooldown, SleepThroughCooldown, TakePermit, PollAgain, Cancel, EndCall
<1>8. CASE UNCHANGED vars
  BY <1>8 DEF vars
<1> QED
  BY <1>1, <1>2, <1>3, <1>4, <1>5, <1>6, <1>7, <1>8 DEF Next

\* A call in flight under a shared cap has its row, and the row outlives it.
Covered ==
  \A a \in Attempt : pc[a] = "calling" =>
    /\ timer[a] <= MaxCall
    /\ UsesSharedLimit(a) => /\ a \in rows
                             /\ timer[a] + LeaseTTL - MaxLag <= left[a] + MaxCall

\* A lease outlives the longest call and the wait for the write lock.
LeaseOutlivesCall == MaxCall + MaxLag < LeaseTTL

Inv == TypeOK /\ RowsWithinCap /\ PermitsAccounted /\ (LeaseOutlivesCall => Covered)

-----------------------------------------------------------------------------
(* Permits *)

\* An attempt keeps its relation to its semaphore, takes a permit or gives one back.
LEMMA PermitStep ==
  ASSUME TypeOK, PermitsAccounted, NEW a \in Attempt, NEW to \in Points,
         pc' = [pc EXCEPT ![a] = to], up' = up, up[Home[a]],
         \/ (pc[a] \in Held <=> to \in Held) /\ permits' = permits
         \/ /\ pc[a] \notin Held /\ to \in Held
            /\ permits[SemOf(a)] > 0
            /\ permits' = [permits EXCEPT ![SemOf(a)] = @ - 1]
         \/ /\ pc[a] \in Held /\ to \notin Held
            /\ permits' = [permits EXCEPT ![SemOf(a)] = @ + 1]
  PROVE  /\ PermitsAccounted'
         /\ permits' \in [Sem -> Nat]
         /\ \A s \in Sem : permits'[s] <= LocalLimit[s[3]]
<1> DEFINE s == SemOf(a)
<1>1. s \in Sem /\ s[1] = Home[a]
  BY DEF SemOf, Sem
<1>2. \A t \in Sem : Holders(t) \subseteq Attempt /\ IsFiniteSet(Holders(t))
                     /\ Cardinality(Holders(t)) \in Nat
  BY Counting DEF Holders, At
<1>3. \A t \in Sem \ {s} : Holders(t)' = Holders(t)
  BY DEF Holders, At, SemOf, TypeOK
<1>4. permits \in [Sem -> Nat] /\ \A t \in Sem : LocalLimit[t[3]] \in Nat
  BY DEF TypeOK, Sem
<1>5. permits[s] + Cardinality(Holders(s)) = LocalLimit[s[3]]
  BY <1>1 DEF PermitsAccounted
<1>6. /\ permits'[s] + Cardinality(Holders(s)') = LocalLimit[s[3]]
      /\ permits' \in [Sem -> Nat]
      /\ permits'[s] \in Nat /\ permits'[s] <= LocalLimit[s[3]]
      /\ \A t \in Sem \ {s} : permits'[t] = permits[t]
  <2>1. CASE (pc[a] \in Held <=> to \in Held) /\ permits' = permits
    <3>1. Holders(s)' = Holders(s)
      BY <2>1 DEF Holders, At, SemOf, TypeOK
    <3> QED
      BY <1>1, <1>2, <1>4, <1>5, <2>1, <3>1
  <2>2. CASE /\ pc[a] \notin Held /\ to \in Held
             /\ permits[s] > 0
             /\ permits' = [permits EXCEPT ![s] = @ - 1]
    <3>1. Holders(s)' = Holders(s) \cup {a} /\ a \notin Holders(s)
      BY <2>2 DEF Holders, At, SemOf, TypeOK
    <3>2. Cardinality(Holders(s)') = Cardinality(Holders(s)) + 1
      BY <1>1, <1>2, <3>1, Counting
    <3>3. permits'[s] = permits[s] - 1 /\ permits[s] - 1 \in Nat
      BY <1>1, <1>4, <2>2
    <3> QED
      BY <1>1, <1>2, <1>4, <1>5, <2>2, <3>2, <3>3
  <2>3. CASE /\ pc[a] \in Held /\ to \notin Held
             /\ permits' = [permits EXCEPT ![s] = @ + 1]
    <3>1. Holders(s)' = Holders(s) \ {a} /\ a \in Holders(s)
      BY <2>3 DEF Holders, At, SemOf, TypeOK
    <3>2. Cardinality(Holders(s)') = Cardinality(Holders(s)) - 1
      BY <1>1, <1>2, <3>1, Counting
    <3>3. permits'[s] = permits[s] + 1 /\ permits[s] + 1 \in Nat
      BY <1>1, <1>4, <2>3
    <3>4. Cardinality(Holders(s)') \in Nat
      BY <1>1, <1>2, <3>1, Counting
    <3> QED
      BY <1>1, <1>2, <1>4, <1>5, <2>3, <3>2, <3>3, <3>4
  <2> QED
    BY <2>1, <2>2, <2>3
<1>7. \A t \in Sem : permits'[t] <= LocalLimit[t[3]]
  BY <1>6 DEF TypeOK
<1>8. PermitsAccounted'
  <2> SUFFICES ASSUME NEW t \in Sem, up'[t[1]]
               PROVE  permits'[t] + Cardinality(Holders(t)') = LocalLimit[t[3]]
    BY DEF PermitsAccounted
  <2>1. CASE t = s
    BY <1>6, <2>1
  <2>2. CASE t # s
    BY <1>3, <1>6, <2>2 DEF PermitsAccounted
  <2> QED
    BY <2>1, <2>2
<1> QED
  BY <1>6, <1>7, <1>8
-----------------------------------------------------------------------------
(* Every step *)

\* Rows that a claim at an earlier instant keeps are the ones with time left.
LEMMA CoveredKept ==
  ASSUME TypeOK, Covered, LeaseOutlivesCall, NEW lag \in 0 .. MaxLag,
         NEW a \in Attempt, pc[a] = "calling", UsesSharedLimit(a)
  PROVE  a \in Kept(lag)
<1>1. timer[a] \in Nat /\ left[a] \in Int
  BY DEF TypeOK, DbTypeOK
<1>2. a \in rows /\ timer[a] + LeaseTTL - MaxLag <= left[a] + MaxCall
  BY DEF Covered
<1> QED
  BY <1>1, <1>2 DEF Kept, LeaseOutlivesCall

MaxTimer == LeaseTTL + MaxLag + MaxDelay + MaxCall + Poll

\* One attempt moves on: what is left to show of the types of its variables.
LEMMA MoveType ==
  ASSUME TypeOK, DbTypeOK', NEW a \in Attempt, NEW to \in Points,
         pc' = [pc EXCEPT ![a] = to],
         \/ timer' = timer
         \/ \E n \in 0 .. MaxTimer : timer' = [timer EXCEPT ![a] = n],
         limited' \subseteq Attempt, up' = up,
         permits' \in [Sem -> Nat], \A s \in Sem : permits'[s] <= LocalLimit[s[3]]
  PROVE  TypeOK'
<1>1. pc' \in [Attempt -> Points]
  BY DEF TypeOK
<1>2. timer' \in [Attempt -> 0 .. MaxTimer]
  BY DEF TypeOK, MaxTimer
<1> QED
  BY <1>1, <1>2 DEF TypeOK, MaxTimer

\* One attempt moves on without taking a row away from the others.
LEMMA MoveCovered ==
  ASSUME TypeOK, Covered, NEW a \in Attempt, NEW to,
         pc' = [pc EXCEPT ![a] = to], to # "calling",
         \A b \in Attempt \ {a} : timer'[b] = timer[b],
         \A b \in Attempt \ {a} :
           pc[b] = "calling" /\ UsesSharedLimit(b) => b \in rows' /\ left'[b] = left[b]
  PROVE  Covered'
<1> SUFFICES ASSUME NEW b \in Attempt, pc'[b] = "calling"
             PROVE  /\ timer'[b] <= MaxCall
                    /\ UsesSharedLimit(b) =>
                         /\ b \in rows'
                         /\ timer'[b] + LeaseTTL - MaxLag <= left'[b] + MaxCall
  BY DEF Covered, UsesSharedLimit
<1>1. b # a /\ pc[b] = "calling"
  BY DEF TypeOK
<1> QED
  BY <1>1 DEF Covered

LEMMA InvInit == Init => Inv
<1> SUFFICES ASSUME Init PROVE Inv
  OBVIOUS
<1>1. DbTypeOK /\ RowsWithinCap
  <2>1. DbTypeOK
    BY DEF Init, DbInit, DbTypeOK
  <2>2. ASSUME NEW p \in Provider
        PROVE  Cardinality({a \in rows : ProviderOf[a] = p}) <= SharedLimit[p]
    <3>1. {a \in rows : ProviderOf[a] = p} = {}
      BY DEF Init, DbInit
    <3> QED
      BY <3>1, FS_EmptySet
  <2> QED
    BY <2>1, <2>2 DEF RowsWithinCap
<1>2. permits \in [Sem -> Nat] /\ \A s \in Sem : permits[s] = LocalLimit[s[3]]
  BY DEF Init, Sem
<1>3. TypeOK
  BY <1>1, <1>2 DEF Init, TypeOK, Points
<1>4. \A s \in Sem : Holders(s) = {} /\ LocalLimit[s[3]] \in Nat
  BY DEF Init, Holders, At, Held, Sem
<1>5. ASSUME NEW s \in Sem
      PROVE  permits[s] + Cardinality(Holders(s)) = LocalLimit[s[3]]
  <2>1. Cardinality(Holders(s)) = 0
    BY <1>4, FS_EmptySet
  <2> QED
    BY <1>2, <1>4, <2>1
<1>6. Covered
  BY DEF Init, Covered
<1> QED
  BY <1>1, <1>3, <1>5, <1>6 DEF Inv, PermitsAccounted
\* The actions of an attempt that leave the store alone and start no call.
LEMMA QuietMove ==
  ASSUME Inv, NEW a \in Attempt, up' = up, up[Home[a]],
         UNCHANGED dbVars, NEW to \in Points \ {"calling"},
         pc' = [pc EXCEPT ![a] = to],
         \/ timer' = timer
         \/ \E n \in 0 .. MaxTimer : timer' = [timer EXCEPT ![a] = n],
         limited' \subseteq Attempt,
         \/ (pc[a] \in Held <=> to \in Held) /\ permits' = permits
         \/ /\ pc[a] \notin Held /\ to \in Held
            /\ permits[SemOf(a)] > 0
            /\ permits' = [permits EXCEPT ![SemOf(a)] = @ - 1]
  PROVE  Inv'
<1>1. DbTypeOK' /\ RowsWithinCap'
  BY DbTypeStep, DbCapStep DEF Inv, TypeOK
<1>2. /\ PermitsAccounted'
      /\ permits' \in [Sem -> Nat]
      /\ \A s \in Sem : permits'[s] <= LocalLimit[s[3]]
  BY PermitStep DEF Inv
<1>3. TypeOK'
  BY <1>1, <1>2, MoveType DEF Inv
<1>4. \A b \in Attempt \ {a} : timer'[b] = timer[b]
  BY DEF Inv, TypeOK
<1>5. rows' = rows /\ left' = left
  BY DEF dbVars
<1>6. LeaseOutlivesCall => Covered'
  <2> SUFFICES ASSUME LeaseOutlivesCall PROVE Covered'
    OBVIOUS
  <2>1. \A b \in Attempt \ {a} :
          pc[b] = "calling" /\ UsesSharedLimit(b) => b \in rows' /\ left'[b] = left[b]
    BY <1>5 DEF Inv, Covered
  <2> QED
    BY <1>4, <2>1, MoveCovered DEF Inv
<1> QED
  BY <1>1, <1>2, <1>3, <1>6 DEF Inv

LEMMA WaitingSteps ==
  ASSUME Inv, NEW a \in Attempt,
         \/ Begin(a) \/ PassCooldown(a) \/ SleepThroughCooldown(a)
         \/ PollAgain(a) \/ Cancel(a) \/ EndCall(a)
  PROVE  Inv'
<1>1. 0 \in 0 .. MaxTimer /\ Poll \in 0 .. MaxTimer
  BY DEF MaxTimer
<1>2. cooldown[ProviderOf[a]] \in 0 .. MaxTimer
  BY DEF Inv, TypeOK, DbTypeOK, MaxTimer
<1>3. limited \subseteq Attempt
  BY DEF Inv, TypeOK
<1>4. CASE Begin(a)
  BY <1>3, <1>4, QuietMove DEF Begin, Goes, Held, Points
<1>5. CASE PassCooldown(a)
  BY <1>3, <1>5, QuietMove DEF PassCooldown, Goes, Held, Points
<1>6. CASE SleepThroughCooldown(a)
  BY <1>2, <1>3, <1>6, QuietMove DEF SleepThroughCooldown, Goes, Sets, Held, Points
<1>7. CASE PollAgain(a)
  BY <1>1, <1>3, <1>7, QuietMove DEF PollAgain, Goes, Sets, Held, Points
<1>8. CASE Cancel(a)
  <2>1. \E to \in Points \ {"calling"} :
          /\ pc' = [pc EXCEPT ![a] = to]
          /\ pc[a] \in Held <=> to \in Held
    BY <1>8 DEF Cancel, Goes, Held, Points
  <2>2. up[Home[a]] /\ timer' = [timer EXCEPT ![a] = 0]
    BY <1>8 DEF Cancel, Goes, Sets
  <2>3. UNCHANGED <<dbVars, limited, permits, up>>
    BY <1>8 DEF Cancel
  <2> QED
    BY <1>1, <1>3, <2>1, <2>2, <2>3, QuietMove
<1>9. CASE EndCall(a)
  <2>1. limited' \subseteq Attempt
    BY <1>3, <1>9 DEF EndCall
  <2> QED
    BY <1>1, <1>9, <2>1, QuietMove DEF EndCall, Goes, Sets, Held, Points
<1> QED
  BY <1>4, <1>5, <1>6, <1>7, <1>8, <1>9

\* An attempt without a shared cap calls at once, the others poll for a lease.
LEMMA TakePermitStep ==
  ASSUME Inv, NEW a \in Attempt, TakePermit(a)
  PROVE  Inv'
<1>1. UNCHANGED <<dbVars, limited, up>> /\ up[Home[a]] /\ permits[SemOf(a)] > 0
      /\ pc[a] = "queued" /\ permits' = [permits EXCEPT ![SemOf(a)] = @ - 1]
  BY DEF TakePermit, Goes
<1>2. limited' \subseteq Attempt
  BY <1>1 DEF Inv, TypeOK
<1>3. CASE UsesSharedLimit(a)
  <2>1. pc' = [pc EXCEPT ![a] = "leasing"] /\ timer' = timer
    BY <1>3 DEF TakePermit, Goes
  <2> QED
    BY <1>1, <1>2, <2>1, QuietMove DEF Held, Points
<1>4. CASE ~UsesSharedLimit(a)
  <2>1. pc' = [pc EXCEPT ![a] = "calling"] /\ timer' = [timer EXCEPT ![a] = MaxCall]
    BY <1>4 DEF TakePermit, Goes, Sets
  <2>2. DbTypeOK' /\ RowsWithinCap'
    BY <1>1, DbTypeStep, DbCapStep DEF Inv, TypeOK
  <2>3. /\ PermitsAccounted'
        /\ permits' \in [Sem -> Nat]
        /\ \A s \in Sem : permits'[s] <= LocalLimit[s[3]]
    BY <1>1, <2>1, PermitStep DEF Inv, Held, Points
  <2>4. TypeOK'
    <3>1. MaxCall \in 0 .. MaxTimer
      BY DEF MaxTimer
    <3> QED
      BY <1>1, <1>2, <2>1, <2>2, <2>3, <3>1, MoveType DEF Inv, Points
  <2>5. LeaseOutlivesCall => Covered'
    <3> SUFFICES ASSUME LeaseOutlivesCall, NEW b \in Attempt, pc'[b] = "calling"
                 PROVE  /\ timer'[b] <= MaxCall
                        /\ UsesSharedLimit(b) =>
                             /\ b \in rows'
                             /\ timer'[b] + LeaseTTL - MaxLag <= left'[b] + MaxCall
      BY DEF Covered, UsesSharedLimit
    <3>1. rows' = rows /\ left' = left
      BY <1>1 DEF dbVars
    <3>2. CASE b = a
      BY <1>4, <2>1, <3>2 DEF Inv, TypeOK
    <3>3. CASE b # a
      BY <2>1, <3>1, <3>3 DEF Inv, TypeOK, Covered
    <3> QED
      BY <3>2, <3>3
  <2> QED
    BY <2>2, <2>3, <2>4, <2>5 DEF Inv
<1> QED
  BY <1>3, <1>4
\* The store changes, but no other attempt loses its row or its time.
LEMMA StoreMove ==
  ASSUME Inv, [DbNext]_dbVars, NEW a \in Attempt, up' = up, up[Home[a]],
         NEW to \in Points, pc' = [pc EXCEPT ![a] = to],
         \/ timer' = timer
         \/ \E n \in 0 .. MaxTimer : timer' = [timer EXCEPT ![a] = n],
         limited' \subseteq Attempt,
         \/ (pc[a] \in Held <=> to \in Held) /\ permits' = permits
         \/ /\ pc[a] \in Held /\ to \notin Held
            /\ permits' = [permits EXCEPT ![SemOf(a)] = @ + 1],
         \/ ~LeaseOutlivesCall
         \/ /\ to # "calling"
            /\ \A b \in Attempt \ {a} :
                 pc[b] = "calling" /\ UsesSharedLimit(b) => b \in rows' /\ left'[b] = left[b]
         \/ Covered'
  PROVE  Inv'
<1>1. DbTypeOK' /\ RowsWithinCap'
  BY DbTypeStep, DbCapStep DEF Inv, TypeOK
<1>2. /\ PermitsAccounted'
      /\ permits' \in [Sem -> Nat]
      /\ \A s \in Sem : permits'[s] <= LocalLimit[s[3]]
  BY PermitStep DEF Inv
<1>3. TypeOK'
  BY <1>1, <1>2, MoveType DEF Inv
<1>4. \A b \in Attempt \ {a} : timer'[b] = timer[b]
  BY DEF Inv, TypeOK
<1>5. LeaseOutlivesCall => Covered'
  BY <1>4, MoveCovered DEF Inv
<1> QED
  BY <1>1, <1>2, <1>3, <1>5 DEF Inv

LEMMA TakeLeaseStep ==
  ASSUME Inv, [DbNext]_dbVars,
         NEW a \in Attempt, NEW lag \in 0 .. MaxLag, TakeLease(a, lag)
  PROVE  Inv'
<1>1. /\ up[Home[a]] /\ pc[a] = "leasing" /\ pc' = [pc EXCEPT ![a] = "calling"]
      /\ timer' = [timer EXCEPT ![a] = MaxCall]
      /\ UNCHANGED <<limited, permits, up>>
  BY DEF TakeLease, Goes, Sets
<1>2. /\ rows' = Kept(lag) \cup {a}
      /\ left'[a] = LeaseTTL - lag
      /\ \A b \in Kept(lag) \ {a} : left'[b] = left[b]
  BY DEF TakeLease, Claim, SetRows, Kept, Inv, TypeOK, DbTypeOK
<1>3. MaxCall \in 0 .. MaxTimer
  BY DEF MaxTimer
<1>4. LeaseOutlivesCall => Covered'
  <2> SUFFICES ASSUME LeaseOutlivesCall, NEW b \in Attempt, pc'[b] = "calling"
               PROVE  /\ timer'[b] <= MaxCall
                      /\ UsesSharedLimit(b) =>
                           /\ b \in rows'
                           /\ timer'[b] + LeaseTTL - MaxLag <= left'[b] + MaxCall
    BY DEF Covered, UsesSharedLimit
  <2>1. CASE b = a
    <3>1. timer'[b] = MaxCall
      BY <1>1, <2>1 DEF Inv, TypeOK
    <3> QED
      BY <1>2, <2>1, <3>1
  <2>2. CASE b # a
    <3>1. pc[b] = "calling" /\ timer'[b] = timer[b]
      BY <1>1, <2>2 DEF Inv, TypeOK
    <3>2. UsesSharedLimit(b) => b \in Kept(lag)
      BY <3>1, CoveredKept DEF Inv
    <3> QED
      BY <1>2, <2>2, <3>1, <3>2 DEF Inv, Covered
  <2> QED
    BY <2>1, <2>2
<1>5. limited' \subseteq Attempt
  BY <1>1 DEF Inv, TypeOK
<1> QED
  BY <1>1, <1>3, <1>4, <1>5, StoreMove DEF Held, Points

LEMMA WaitForLeaseStep ==
  ASSUME Inv, [DbNext]_dbVars,
         NEW a \in Attempt, NEW lag \in 0 .. MaxLag, WaitForLease(a, lag)
  PROVE  Inv'
<1>1. /\ up[Home[a]] /\ pc[a] = "leasing" /\ pc' = [pc EXCEPT ![a] = "leasing"]
      /\ UNCHANGED <<limited, permits, up>>
  BY DEF WaitForLease, Goes
<1>2. \E n \in 0 .. MaxTimer : timer' = [timer EXCEPT ![a] = n]
  <2>1. PICK b \in Taken(ProviderOf[a], lag) :
          timer' = [timer EXCEPT ![a] = Later(Poll, left[b] + lag)]
    BY DEF WaitForLease, Sets
  <2>2. left[b] \in -MaxLag .. LeaseTTL /\ left[b] + lag > 0
    BY DEF Taken, Kept, Inv, TypeOK, DbTypeOK
  <2>3. Later(Poll, left[b] + lag) \in 0 .. MaxTimer
    BY <2>2 DEF Later, MaxTimer
  <2> QED
    BY <2>1, <2>3
<1>3. /\ rows' = Kept(lag)
      /\ \A b \in Kept(lag) : left'[b] = left[b]
  BY DEF WaitForLease, Refuse, SetRows, Kept, Inv, TypeOK, DbTypeOK
<1>4. ASSUME LeaseOutlivesCall
      PROVE  \A b \in Attempt \ {a} :
               pc[b] = "calling" /\ UsesSharedLimit(b) => b \in rows' /\ left'[b] = left[b]
  BY <1>3, <1>4, CoveredKept DEF Inv
<1>5. limited' \subseteq Attempt
  BY <1>1 DEF Inv, TypeOK
<1> QED
  BY <1>1, <1>2, <1>4, <1>5, StoreMove DEF Held, Points

\* After the call: the row of the attempt itself goes, or a cooldown changes.
LEMMA AfterCallSteps ==
  ASSUME Inv, [DbNext]_dbVars, NEW a \in Attempt,
         Release(a) \/ Record(a) \/ \E d \in Delay : Report(a, d)
  PROVE  Inv'
<1>1. limited \subseteq Attempt
  BY DEF Inv, TypeOK
<1>2. CASE Release(a)
  <2>1. \E to \in {"reporting", "done"} : pc' = [pc EXCEPT ![a] = to]
    BY <1>2 DEF Release, Goes
  <2>2. /\ up[Home[a]] /\ pc[a] = "releasing" /\ UNCHANGED <<timer, up>>
        /\ permits' = [permits EXCEPT ![SemOf(a)] = @ + 1]
        /\ limited' \subseteq Attempt
    BY <1>1, <1>2 DEF Release, Goes
  <2>3. ASSUME LeaseOutlivesCall
        PROVE  \A b \in Attempt \ {a} :
                 pc[b] = "calling" /\ UsesSharedLimit(b) => b \in rows' /\ left'[b] = left[b]
    <3>1. CASE ReleaseLease(a)
      BY <2>3, <3>1 DEF ReleaseLease, SetRows, Inv, Covered
    <3>2. CASE UNCHANGED dbVars
      BY <2>3, <3>2 DEF dbVars, Inv, Covered
    <3> QED
      BY <1>2, <3>1, <3>2 DEF Release
  <2> QED
    BY <2>1, <2>2, <2>3, StoreMove DEF Held, Points
<1>3. CASE Record(a)
  <2>1. /\ up[Home[a]] /\ pc[a] = "recording" /\ UNCHANGED <<timer, limited, permits, up>>
        /\ pc' = [pc EXCEPT ![a] = "done"]
    BY <1>3 DEF Record, Goes
  <2>2. rows' = rows /\ left' = left
    BY <1>3 DEF Record, WriteCooldown, DropCooldowns
  <2>3. ASSUME LeaseOutlivesCall
        PROVE  \A b \in Attempt \ {a} :
                 pc[b] = "calling" /\ UsesSharedLimit(b) => b \in rows' /\ left'[b] = left[b]
    BY <2>2, <2>3 DEF Inv, Covered
  <2> QED
    BY <1>1, <2>1, <2>3, StoreMove DEF Held, Points
<1>4. ASSUME NEW d \in Delay, Report(a, d)
      PROVE  Inv'
  <2>1. /\ up[Home[a]] /\ pc[a] = "reporting" /\ UNCHANGED <<timer, limited, permits, up>>
        /\ pc' = [pc EXCEPT ![a] = "recording"]
    BY <1>4 DEF Report, Goes
  <2>2. rows' = rows /\ left' = left
    BY <1>4 DEF Report, ReadCooldown
  <2>3. ASSUME LeaseOutlivesCall
        PROVE  \A b \in Attempt \ {a} :
                 pc[b] = "calling" /\ UsesSharedLimit(b) => b \in rows' /\ left'[b] = left[b]
    BY <2>2, <2>3 DEF Inv, Covered
  <2> QED
    BY <1>1, <2>1, <2>3, StoreMove DEF Held, Points
<1> QED
  BY <1>2, <1>3, <1>4
\* A dead process has no call in flight; the semaphores of the others are as before.
LEMMA CrashStep ==
  ASSUME Inv, [DbNext]_dbVars, NEW p \in Process, Crash(p)
  PROVE  Inv'
<1>1. DbTypeOK' /\ RowsWithinCap'
  BY DbTypeStep, DbCapStep DEF Inv, TypeOK
<1>2. /\ pc' = [a \in Attempt |-> IF Home[a] = p THEN "gone" ELSE pc[a]]
      /\ timer' = [a \in Attempt |-> IF Home[a] = p THEN 0 ELSE timer[a]]
      /\ up' = [up EXCEPT ![p] = FALSE]
      /\ permits' = permits /\ limited' \subseteq limited
      /\ rows' = rows /\ left' = left
  BY DEF Crash, DropCooldowns
<1>3. TypeOK'
  <2>1. pc' \in [Attempt -> Points]
    BY <1>2 DEF Inv, TypeOK, Points
  <2>2. timer' \in [Attempt -> 0 .. LeaseTTL + MaxLag + MaxDelay + MaxCall + Poll]
    BY <1>2 DEF Inv, TypeOK
  <2>3. limited' \subseteq Attempt
    BY <1>2 DEF Inv, TypeOK
  <2> QED
    BY <1>1, <1>2, <2>1, <2>2, <2>3 DEF Inv, TypeOK
<1>4. PermitsAccounted'
  <2> SUFFICES ASSUME NEW s \in Sem, up'[s[1]]
               PROVE  permits'[s] + Cardinality(Holders(s)') = LocalLimit[s[3]]
    BY DEF PermitsAccounted
  <2>1. s[1] # p /\ up[s[1]]
    BY <1>2 DEF Inv, TypeOK, Sem
  <2>2. Holders(s)' = Holders(s)
    BY <1>2, <2>1 DEF Holders, At, SemOf, Inv, TypeOK
  <2> QED
    BY <1>2, <2>1, <2>2 DEF Inv, PermitsAccounted
<1>5. LeaseOutlivesCall => Covered'
  BY <1>2 DEF Inv, Covered, UsesSharedLimit
<1> QED
  BY <1>1, <1>3, <1>4, <1>5 DEF Inv

\* A call and its row get older together.
LEMMA TickStep ==
  ASSUME Inv, [DbNext]_dbVars, Tick
  PROVE  Inv'
<1>1. DbTypeOK' /\ RowsWithinCap'
  BY DbTypeStep, DbCapStep DEF Inv, TypeOK
<1>2. UNCHANGED <<pc, limited, permits, up, rows>>
  BY DEF Tick, DbTick
<1>3. TypeOK'
  <2>1. \A n \in 0 .. MaxTimer : Sooner(n) \in 0 .. MaxTimer
    BY DEF Sooner, MaxTimer
  <2>2. timer' \in [Attempt -> 0 .. MaxTimer]
    BY <2>1 DEF Tick, Inv, TypeOK, MaxTimer
  <2> QED
    BY <1>1, <1>2, <2>2 DEF Inv, TypeOK, MaxTimer
<1>4. PermitsAccounted'
  BY <1>2 DEF Inv, PermitsAccounted, Holders, At, SemOf
<1>5. LeaseOutlivesCall => Covered'
  <2> SUFFICES ASSUME LeaseOutlivesCall, NEW a \in Attempt, pc[a] = "calling"
               PROVE  /\ timer'[a] <= MaxCall
                      /\ UsesSharedLimit(a) =>
                           /\ a \in rows
                           /\ timer'[a] + LeaseTTL - MaxLag <= left'[a] + MaxCall
    BY <1>2 DEF Covered, UsesSharedLimit
  <2>1. timer[a] \in Nat /\ timer[a] > 0 /\ timer'[a] = timer[a] - 1 /\ left[a] \in Int
    BY DEF Tick, Sooner, Inv, TypeOK, DbTypeOK
  <2>2. left'[a] \in Int /\ left'[a] >= left[a] - 1
    BY <2>1 DEF Tick, DbTick
  <2> QED
    BY <2>1, <2>2 DEF Inv, Covered
<1> QED
  BY <1>1, <1>3, <1>4, <1>5 DEF Inv

LEMMA InvStep ==
  ASSUME Inv, [Next]_vars
  PROVE  Inv'
<1>1. [DbNext]_dbVars
  BY StepIsStoreStep
<1>2. CASE Tick
  BY <1>1, <1>2, TickStep
<1>3. ASSUME NEW p \in Process, Crash(p)
      PROVE  Inv'
  BY <1>1, <1>3, CrashStep
<1>4. ASSUME NEW a \in Attempt, NEW lag \in 0 .. MaxLag,
             TakeLease(a, lag) \/ WaitForLease(a, lag)
      PROVE  Inv'
  BY <1>1, <1>4, TakeLeaseStep, WaitForLeaseStep
<1>5. ASSUME NEW a \in Attempt,
             Release(a) \/ Record(a) \/ \E d \in Delay : Report(a, d)
      PROVE  Inv'
  BY <1>1, <1>5, AfterCallSteps
<1>6. ASSUME NEW a \in Attempt,
             \/ Begin(a) \/ PassCooldown(a) \/ SleepThroughCooldown(a)
             \/ PollAgain(a) \/ Cancel(a) \/ EndCall(a)
      PROVE  Inv'
  BY <1>6, WaitingSteps
<1>7. ASSUME NEW a \in Attempt, TakePermit(a)
      PROVE  Inv'
  BY <1>7, TakePermitStep
<1>8. CASE UNCHANGED vars
  BY <1>8 DEF vars, dbVars, Inv, TypeOK, DbTypeOK, RowsWithinCap, PermitsAccounted,
              Holders, At, SemOf, Covered, UsesSharedLimit
<1> QED
  BY <1>2, <1>3, <1>4, <1>5, <1>6, <1>7, <1>8 DEF Next

-----------------------------------------------------------------------------
(* Theorems *)

\* A call in flight has a row, so there are at most as many as rows.
LEMMA InvMeansCap == Inv /\ LeaseOutlivesCall => CallsWithinSharedCap
<1> SUFFICES ASSUME Inv, LeaseOutlivesCall, NEW p \in Provider, SharedLimit[p] > 0
             PROVE  Cardinality({a \in At({"calling"}) : ProviderOf[a] = p}) <= SharedLimit[p]
  BY DEF CallsWithinSharedCap
<1> DEFINE C == {a \in At({"calling"}) : ProviderOf[a] = p}
<1>1. C \subseteq RowsOf(p, rows)
  BY DEF Inv, Covered, UsesSharedLimit, At, RowsOf
<1>2. RowsOf(p, rows) \subseteq Attempt
  BY DEF RowsOf, Inv, TypeOK, DbTypeOK
<1>3. Cardinality(RowsOf(p, rows)) <= SharedLimit[p]
  BY DEF Inv, RowsWithinCap, RowsOf
<1>4. /\ Cardinality(C) \in Nat /\ Cardinality(RowsOf(p, rows)) \in Nat
      /\ Cardinality(C) <= Cardinality(RowsOf(p, rows))
  BY <1>1, <1>2, Counting
<1> QED
  BY <1>3, <1>4

LEMMA InvAlways == Spec => []Inv
<1>1. Inv /\ [Next]_vars => Inv'
  BY InvStep
<1> QED
  BY InvInit, <1>1, PTL DEF Spec

\* When a lease outlives the longest provider call plus the wait for the write
\* lock, the calls in flight to a provider stay within its shared cap, over all
\* processes, through cancellations, failed store accesses and crashes.
THEOREM LimiterKeepsSharedCap ==
  ASSUME LeaseOutlivesCall
  PROVE  Spec => []CallsWithinSharedCap
<1>1. Inv => CallsWithinSharedCap
  BY InvMeansCap
<1> QED
  BY InvAlways, <1>1, PTL

\* Every permit of a living process is free, held, or was lost by a cancellation
\* in the wait for a lease.
THEOREM LimiterAccountsForPermits == Spec => []PermitsAccounted
<1>1. Inv => PermitsAccounted
  BY DEF Inv
<1> QED
  BY InvAlways, <1>1, PTL

\* The attempts, timers and semaphores keep their types, and no semaphore is
\* worth more than its limit.
THEOREM LimiterTypeCorrect == Spec => []TypeOK
<1>1. Inv => TypeOK
  BY DEF Inv
<1> QED
  BY InvAlways, <1>1, PTL
=============================================================================
