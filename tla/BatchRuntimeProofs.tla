--------------------------- MODULE BatchRuntimeProofs ---------------------------
(***************************************************************************)
(* Proofs about BatchRuntime, for any number of items and permits, any     *)
(* errors and any faults: the semaphore loses no permit, items reach       *)
(* their call in the order of the messages, and the batch is aborted only  *)
(* after a window of identical errors.                                     *)
(***************************************************************************)
EXTENDS BatchRuntime, FiniteSetTheorems, TLAPS

Running == At({"running"})

\* What the steps of a task do to the semaphore, and what is known of its queue:
\* the tasks that wait, in the order of their items, before all that are new.
Shape ==
  /\ pc \in [Item -> {"new", "waiting", "running"} \cup Over]
  /\ queue \in Seq(Item)
  /\ permits \in Int

QueueHoldsWaiters ==
  \A i \in Item : pc[i] = "waiting" <=> \E m \in 1 .. Len(queue) : queue[m] = i

QueueInOrder ==
  \A m, n \in 1 .. Len(queue) : m < n => queue[m] < queue[n]

NewComeLast ==
  \A i, j \in Item : i < j /\ pc[i] = "new" => pc[j] = "new"

Inv ==
  /\ Shape /\ QueueHoldsWaiters /\ QueueInOrder /\ NewComeLast
  /\ PermitsConserved /\ ItemsStartInOrder

-----------------------------------------------------------------------------

LEMMA ItemsFinite ==
  /\ Item \subseteq Int
  /\ \A S : S \subseteq Item => IsFiniteSet(S) /\ Cardinality(S) \in Nat
<1>1. IsFiniteSet(Item)
  BY BatchAssumption, FS_Interval DEF Item
<1> QED
  BY <1>1, FS_Subset, FS_CardinalityType, BatchAssumption DEF Item

\* A task that starts to run takes a permit.
LEMMA OneMore ==
  ASSUME Shape, PermitsConserved, NEW i \in Item, pc[i] # "running",
         pc' = [pc EXCEPT ![i] = "running"], permits' = permits - 1
  PROVE  PermitsConserved'
<1>1. Running' = Running \cup {i} /\ i \notin Running
  BY DEF Shape, Running, At
<1>2. Cardinality(Running') = Cardinality(Running) + 1
  BY <1>1, ItemsFinite, FS_AddElement DEF Running, At
<1> QED
  BY <1>2, ItemsFinite, BatchAssumption DEF PermitsConserved, Shape, Running, At

\* A task that ends its call gives its permit back.
LEMMA OneLess ==
  ASSUME Shape, PermitsConserved, NEW i \in Item, pc[i] = "running", NEW to \in Over,
         Leave(i, to)
  PROVE  PermitsConserved'
<1>1. Running' = Running \ {i} /\ i \in Running
  BY DEF Shape, Running, At, Leave, Over
<1>2. IsFiniteSet(Running)
  BY ItemsFinite DEF Running, At
<1>3. Cardinality(Running') = Cardinality(Running) - 1
  BY <1>1, <1>2, FS_RemoveElement
<1> QED
  BY <1>3, ItemsFinite, BatchAssumption DEF PermitsConserved, Shape, Running, At, Leave

\* The running tasks stay the same.
LEMMA SameRunning ==
  ASSUME PermitsConserved, permits' = permits,
         \A j \in Item : pc'[j] = "running" <=> pc[j] = "running"
  PROVE  PermitsConserved'
<1>1. Running' = Running
  BY DEF Running, At
<1> QED
  BY <1>1 DEF PermitsConserved, Running

-----------------------------------------------------------------------------

LEMMA InvInit == Init => Inv
<1> SUFFICES ASSUME Init PROVE Inv
  OBVIOUS
<1>1. Running = {}
  BY DEF Init, Running, At
<1>2. PermitsConserved
  <2>1. Cardinality(Running) = 0
    BY <1>1, FS_EmptySet
  <2> QED
    BY <2>1, BatchAssumption DEF Init, PermitsConserved, Running
<1> QED
  BY <1>2, BatchAssumption
     DEF Init, Inv, Shape, QueueHoldsWaiters, QueueInOrder, NewComeLast, ItemsStartInOrder

\* A first turn that does not wait: the task is skipped or calls at once.
LEMMA FirstTurn ==
  ASSUME Inv, NEW i \in Item, Skip(i) \/ Enter(i)
  PROVE  Inv'
<1>1. \A j \in Item : j < i => pc[j] # "new"
  BY ItemsFinite DEF Skip, Enter, First, At
<1>2. pc[i] = "new" /\ queue' = queue
  BY DEF Skip, Enter, First
<1>3. PermitsConserved'
  <2>1. CASE Skip(i)
    BY <2>1, <1>2, SameRunning DEF Skip, Inv, Shape
  <2>2. CASE Enter(i)
    BY <2>2, <1>2, OneMore DEF Enter, Inv
  <2> QED
    BY <2>1, <2>2
<1>4. Shape' /\ QueueHoldsWaiters' /\ QueueInOrder'
  BY <1>2 DEF Skip, Enter, Inv, Shape, Over, QueueHoldsWaiters, QueueInOrder
<1>5. NewComeLast'
  BY <1>1, <1>2, ItemsFinite DEF Skip, Enter, Inv, Shape, NewComeLast
<1>6. ItemsStartInOrder'
  <2>1. CASE Skip(i)
    BY <2>1, <1>2 DEF Skip, Inv, Shape, ItemsStartInOrder
  <2>2. CASE Enter(i)
    <3>1. \A j \in Item : pc[j] # "waiting"
      BY <2>2 DEF Enter, Inv, QueueHoldsWaiters
    <3> QED
      BY <2>2, <3>1, <1>1, ItemsFinite DEF Enter, Inv, Shape, ItemsStartInOrder
  <2> QED
    BY <2>1, <2>2
<1> QED
  BY <1>3, <1>4, <1>5, <1>6 DEF Inv

\* A first turn that joins the queue: everything in it comes before.
LEMMA WaitStep ==
  ASSUME Inv, NEW i \in Item, Wait(i)
  PROVE  Inv'
<1>1. \A j \in Item : j < i => pc[j] # "new"
  BY ItemsFinite DEF Wait, First, At
<1>2. pc[i] = "new" /\ pc' = [pc EXCEPT ![i] = "waiting"] /\ permits' = permits
  BY DEF Wait, First
<1>3. /\ Len(queue') = Len(queue) + 1
      /\ queue' \in Seq(Item)
      /\ queue'[Len(queue) + 1] = i
      /\ \A m \in 1 .. Len(queue) : queue'[m] = queue[m]
      /\ Len(queue) \in Nat
  BY DEF Wait, Inv, Shape
<1>4. Shape'
  BY <1>2, <1>3 DEF Inv, Shape
<1>5. PermitsConserved'
  BY <1>2, SameRunning DEF Inv, Shape
<1>6. QueueHoldsWaiters'
  <2>1. ASSUME NEW j \in Item
        PROVE  (\E m \in 1 .. Len(queue') : queue'[m] = j) <=>
                 (j = i \/ \E m \in 1 .. Len(queue) : queue[m] = j)
    BY <1>3
  <2> QED
    BY <2>1, <1>2 DEF Inv, Shape, QueueHoldsWaiters
<1>7. QueueInOrder'
  <2>1. \A m \in 1 .. Len(queue) : queue[m] \in Item /\ queue[m] < i
    <3>1. ASSUME NEW m \in 1 .. Len(queue)
          PROVE  queue[m] \in Item /\ queue[m] < i
      <4>0. queue[m] \in Item
        BY DEF Inv, Shape
      <4>1. queue[m] \in Item /\ pc[queue[m]] = "waiting"
        BY <4>0 DEF Inv, QueueHoldsWaiters
      <4>2. ~(i < queue[m]) /\ i # queue[m]
        BY <4>1, <1>2 DEF Inv, NewComeLast
      <4>3. i \in Int /\ queue[m] \in Int
        BY <4>0, ItemsFinite
      <4> QED
        BY <4>0, <4>2, <4>3
    <3> QED
      BY <3>1
  <2> QED
    BY <2>1, <1>3 DEF Inv, QueueInOrder
<1>8. NewComeLast'
  BY <1>1, <1>2, ItemsFinite DEF Inv, Shape, NewComeLast
<1>9. ItemsStartInOrder'
  BY <1>2 DEF Inv, Shape, ItemsStartInOrder
<1> QED
  BY <1>4, <1>5, <1>6, <1>7, <1>8, <1>9 DEF Inv

\* The head of the queue is the earliest item that has not reached its call.
LEMMA WakeStep ==
  ASSUME Inv, NEW i \in Item, Wake(i)
  PROVE  Inv'
<1>1. /\ Len(queue) \in Nat /\ Len(queue) > 0
      /\ queue[1] = i
      /\ Len(queue') = Len(queue) - 1
      /\ queue' \in Seq(Item)
      /\ \A m \in 1 .. Len(queue) - 1 : queue'[m] = queue[m + 1]
  BY DEF Wake, Inv, Shape
<1>2. pc' = [pc EXCEPT ![i] = "running"] /\ permits' = permits - 1
  BY DEF Wake
<1>3. pc[i] = "waiting"
  BY <1>1 DEF Inv, QueueHoldsWaiters
<1>4. \A m \in 2 .. Len(queue) : queue[m] \in Item /\ i < queue[m]
  BY <1>1 DEF Inv, Shape, QueueInOrder
<1>5. Shape'
  BY <1>1, <1>2 DEF Inv, Shape
<1>6. PermitsConserved'
  BY <1>2, <1>3, OneMore DEF Inv
<1>7. QueueHoldsWaiters'
  <2>1. ASSUME NEW j \in Item
        PROVE  (\E m \in 1 .. Len(queue') : queue'[m] = j) <=>
                 \E m \in 2 .. Len(queue) : queue[m] = j
    <3>1. ASSUME NEW m \in 1 .. Len(queue'), queue'[m] = j
          PROVE  m + 1 \in 2 .. Len(queue) /\ queue[m + 1] = j
      BY <3>1, <1>1
    <3>2. ASSUME NEW m \in 2 .. Len(queue), queue[m] = j
          PROVE  m - 1 \in 1 .. Len(queue') /\ queue'[m - 1] = j
      BY <3>2, <1>1
    <3> QED
      BY <3>1, <3>2
  <2>2. ASSUME NEW j \in Item, j # i
        PROVE  (\E m \in 2 .. Len(queue) : queue[m] = j) <=>
                 \E m \in 1 .. Len(queue) : queue[m] = j
    BY <2>2, <1>1
  <2>3. ~ \E m \in 2 .. Len(queue) : queue[m] = i
    BY <1>4, ItemsFinite
  <2> QED
    BY <2>1, <2>2, <2>3, <1>2 DEF Inv, Shape, QueueHoldsWaiters
<1>8. QueueInOrder'
  BY <1>1 DEF Inv, QueueInOrder
<1>9. NewComeLast'
  BY <1>2, <1>3 DEF Inv, Shape, NewComeLast
<1>10. ItemsStartInOrder'
  <2>1. ASSUME NEW j \in Item, j < i PROVE pc[j] \notin {"new", "waiting"}
    <3>1. pc[j] # "new"
      BY <2>1, <1>3 DEF Inv, NewComeLast
    <3>2. pc[j] # "waiting"
      <4>1. ~ \E m \in 1 .. Len(queue) : queue[m] = j
        BY <2>1, <1>1, <1>4, ItemsFinite
      <4> QED
        BY <4>1 DEF Inv, QueueHoldsWaiters
    <3> QED
      BY <3>1, <3>2
  <2> QED
    BY <2>1, <1>2 DEF Inv, Shape, ItemsStartInOrder
<1> QED
  BY <1>5, <1>6, <1>7, <1>8, <1>9, <1>10 DEF Inv

\* However an item ends, it leaves the semaphore in the same way.
LEMMA LeaveStep ==
  ASSUME Inv, NEW i \in Item, pc[i] = "running", NEW to \in Over, Leave(i, to)
  PROVE  Inv'
<1>1. PermitsConserved'
  BY OneLess DEF Inv
<1>2. pc' = [pc EXCEPT ![i] = to] /\ queue' = queue /\ permits' = permits + 1
  BY DEF Leave
<1> QED
  BY <1>1, <1>2
     DEF Inv, Shape, Over, QueueHoldsWaiters, QueueInOrder, NewComeLast, ItemsStartInOrder

LEMMA CancelStep ==
  ASSUME Inv, CancelAll
  PROVE  Inv'
<1>1. /\ pc' = [i \in Item |-> IF pc[i] \in Over THEN pc[i] ELSE "cancelled"]
      /\ queue' = <<>>
      /\ permits' = permits + Cardinality(Running)
  BY DEF CancelAll, Running
<1>2. \A i \in Item : pc'[i] \in Over
  BY <1>1 DEF Over
<1>3. Running' = {}
  BY <1>2 DEF Running, At, Over
<1>4. PermitsConserved'
  <2>1. Cardinality(Running') = 0
    BY <1>3, FS_EmptySet
  <2> QED
    BY <2>1, <1>1, ItemsFinite, BatchAssumption DEF Inv, Shape, PermitsConserved, Running, At
<1>5. Shape'
  BY <1>1, ItemsFinite DEF Inv, Shape, Over, Running, At
<1> QED
  BY <1>1, <1>2, <1>4, <1>5
     DEF Inv, Over, QueueHoldsWaiters, QueueInOrder, NewComeLast, ItemsStartInOrder

LEMMA InvStep == Inv /\ [Next]_vars => Inv'
<1> SUFFICES ASSUME Inv, [Next]_vars PROVE Inv'
  OBVIOUS
<1>1. ASSUME NEW i \in Item, Skip(i) \/ Enter(i) PROVE Inv'
  BY <1>1, FirstTurn
<1>2. ASSUME NEW i \in Item, Wait(i) PROVE Inv'
  BY <1>2, WaitStep
<1>3. ASSUME NEW i \in Item, Wake(i) PROVE Inv'
  BY <1>3, WakeStep
<1>4. ASSUME NEW i \in Item, NEW told \in BOOLEAN,
             Succeed(i) \/ SucceedThenFail(i, told) \/ TimeOut(i, told) \/ Raises(i, told)
      PROVE  Inv'
  <2>1. pc[i] = "running" /\ \E to \in Over : Leave(i, to)
    BY <1>4 DEF Succeed, SucceedThenFail, TimeOut, Raises, Fail, MayEnd, Over
  <2> QED
    BY <2>1, LeaveStep
<1>5. CASE CancelAll
  BY <1>5, CancelStep
<1>6. CASE Return \/ Raise \/ UNCHANGED vars
  <2>1. UNCHANGED <<pc, queue, permits>>
    BY <1>6 DEF Return, Raise, vars
  <2> QED
    BY <2>1 DEF Inv, Shape, QueueHoldsWaiters, QueueInOrder, NewComeLast, PermitsConserved,
                ItemsStartInOrder, At
<1> QED
  BY <1>1, <1>2, <1>3, <1>4, <1>5, <1>6 DEF Next

LEMMA InvAlways == Spec => []Inv
BY InvInit, InvStep, PTL DEF Spec

\* Through time-outs, hooks that raise and cancellations, every permit is free or
\* held by a running item (`async with sem`).
THEOREM BatchConservesPermits == Spec => []PermitsConserved
<1>1. Inv => PermitsConserved
  BY DEF Inv
<1> QED
  BY <1>1, InvAlways, PTL

\* No item reaches its call before an earlier one (`async with sem`).
THEOREM BatchStartsInOrder == Spec => []ItemsStartInOrder
<1>1. Inv => ItemsStartInOrder
  BY DEF Inv
<1> QED
  BY <1>1, InvAlways, PTL

-----------------------------------------------------------------------------
(* The window of errors and the abort *)

Ok == <<"ok">>

\* What the tracker may be told.
Events == {Ok, <<"hook">>} \cup {<<"raised", e>> : e \in Error} \cup {<<"timeout", i>> : i \in Item}

\* The window h is the end of the history l, and no success is in it.
Ends(h, l) ==
  /\ h \in Seq(Events \ {Ok}) /\ l \in Seq(Events)
  /\ Len(h) <= Len(l)
  /\ \A k \in 1 .. Len(h) : h[k] = l[Len(l) - Len(h) + k]

\* A window of identical errors ends at the n-th entry of the history l.
StagnatesAt(l, n) ==
  /\ l[n] # Ok
  /\ \A k \in n - Window + 1 .. n : l[k] = l[n]

Stagnated(l) == \E n \in Window .. Len(l) : StagnatesAt(l, n)

TrackerInv == Ends(hashes, log) /\ (aborted => Stagnated(log))

\* The last n entries of a sequence, or all of them.
LEMMA LastNEntries ==
  ASSUME NEW S, NEW s \in Seq(S), NEW n \in Nat \ {0}
  PROVE  /\ LastN(s, n) \in Seq(S)
         /\ Len(LastN(s, n)) = IF Len(s) > n THEN n ELSE Len(s)
         /\ \A k \in 1 .. Len(LastN(s, n)) : LastN(s, n)[k] = s[Len(s) - Len(LastN(s, n)) + k]
<1>1. CASE Len(s) > n
  <2> DEFINE m == Len(s) - n + 1
             u == SubSeq(s, m, Len(s))
  <2>1. m \in 1 .. Len(s) /\ Len(s) \in Nat
    BY <1>1
  <2>2. u \in Seq(S) /\ Len(u) = n /\ \A k \in 1 .. Len(u) : u[k] = s[m + k - 1]
    BY <1>1, <2>1
  <2>3. LastN(s, n) = u
    BY <1>1 DEF LastN
  <2>4. \A k \in 1 .. n : m + k - 1 = Len(s) - n + k
    BY <2>1
  <2> HIDE DEF u
  <2> QED
    BY <1>1, <2>2, <2>3, <2>4
<1>2. CASE ~(Len(s) > n)
  BY <1>2 DEF LastN
<1> QED
  BY <1>1, <1>2

\* One more error, cut to the window, is again the end of the history.
LEMMA OneMoreError ==
  ASSUME NEW h, NEW l, Ends(h, l), NEW e \in Events \ {Ok}
  PROVE  Ends(LastN(Append(h, e), Window), Append(l, e))
<1> DEFINE g == Append(h, e)
           w == LastN(g, Window)
           m == Append(l, e)
<1>1. /\ g \in Seq(Events \ {Ok}) /\ Len(g) = Len(h) + 1
      /\ m \in Seq(Events) /\ Len(m) = Len(l) + 1
      /\ Len(h) \in Nat /\ Len(l) \in Nat /\ Len(h) <= Len(l)
  BY DEF Ends
<1>2. \A k \in 1 .. Len(g) : g[k] = m[Len(m) - Len(g) + k]
  <2> TAKE k \in 1 .. Len(g)
  <2>1. CASE k = Len(g)
    BY <1>1, <2>1
  <2>2. CASE k \in 1 .. Len(h)
    <3>1. g[k] = h[k] /\ h[k] = l[Len(l) - Len(h) + k]
      BY <1>1, <2>2 DEF Ends
    <3>2. Len(m) - Len(g) + k = Len(l) - Len(h) + k /\ Len(l) - Len(h) + k \in 1 .. Len(l)
      BY <1>1, <2>2
    <3>3. m[Len(l) - Len(h) + k] = l[Len(l) - Len(h) + k]
      BY <1>1, <3>2 DEF Ends
    <3> QED
      BY <3>1, <3>2, <3>3
  <2> QED
    BY <1>1, <2>1, <2>2
<1>3. /\ w \in Seq(Events \ {Ok})
      /\ Len(w) \in Nat /\ Len(w) <= Len(g)
      /\ \A k \in 1 .. Len(w) : w[k] = g[Len(g) - Len(w) + k]
  <2>1. Window \in Nat \ {0}
    BY BatchAssumption
  <2> HIDE DEF g
  <2>2. /\ w \in Seq(Events \ {Ok})
        /\ Len(w) = IF Len(g) > Window THEN Window ELSE Len(g)
        /\ \A k \in 1 .. Len(w) : w[k] = g[Len(g) - Len(w) + k]
    BY <1>1, <2>1, LastNEntries
  <2> HIDE DEF w
  <2>3. Len(g) \in Nat
    BY <1>1
  <2>4. Len(w) = IF Len(g) > Window THEN Window ELSE Len(g)
    BY <2>2
  <2>5. Len(w) \in Nat /\ Len(w) <= Len(g)
    BY <2>1, <2>3, <2>4
  <2> QED
    BY <2>2, <2>5
<1> HIDE DEF g, w, m
<1>4. \A k \in 1 .. Len(w) : w[k] = m[Len(m) - Len(w) + k]
  <2> TAKE k \in 1 .. Len(w)
  <2>1. Len(g) - Len(w) + k \in 1 .. Len(g)
    BY <1>1, <1>3
  <2>2. Len(m) - Len(g) + (Len(g) - Len(w) + k) = Len(m) - Len(w) + k
    BY <1>1, <1>3
  <2> QED
    BY <1>2, <1>3, <2>1, <2>2
<1>5. Len(w) <= Len(m)
  BY <1>1, <1>3
<1>6. Ends(w, m)
  BY <1>1, <1>3, <1>4, <1>5 DEF Ends
<1> QED
  BY <1>6 DEF g, w, m

\* A window that is stagnant is one that ends with the history.
LEMMA StagnantEnds ==
  ASSUME NEW h, NEW l, Ends(h, l), Len(h) <= Window, Stagnant(h)
  PROVE  Stagnated(l)
<1>1. /\ Len(h) = Window /\ Window \in Nat \ {0}
      /\ Len(l) \in Nat /\ Window <= Len(l)
  BY BatchAssumption DEF Ends, Stagnant
<1>2. \A k \in 1 .. Window : h[k] = l[Len(l) - Window + k] /\ h[k] # Ok /\ h[k] = h[Window]
  BY <1>1 DEF Ends, Stagnant
<1>3. l[Len(l)] = h[Window] /\ l[Len(l)] # Ok
  BY <1>1, <1>2
<1>4. ASSUME NEW k \in Len(l) - Window + 1 .. Len(l)
      PROVE  l[k] = l[Len(l)]
  <2>1. k - (Len(l) - Window) \in 1 .. Window
        /\ Len(l) - Window + (k - (Len(l) - Window)) = k
    BY <1>1, <1>4
  <2> QED
    BY <1>2, <1>3, <2>1
<1> QED
  BY <1>1, <1>3, <1>4 DEF Stagnated, StagnatesAt

\* A history that goes on keeps the windows in it.
LEMMA HistoryGrows ==
  ASSUME NEW l \in Seq(Events), NEW m \in Seq(Events), Len(l) <= Len(m),
         \A k \in 1 .. Len(l) : m[k] = l[k], Stagnated(l)
  PROVE  Stagnated(m)
<1>1. PICK n \in Window .. Len(l) : StagnatesAt(l, n)
  BY DEF Stagnated
<1>2. /\ n \in Window .. Len(m) /\ n \in 1 .. Len(l)
      /\ \A k \in n - Window + 1 .. n : k \in 1 .. Len(l)
  BY BatchAssumption
<1>3. StagnatesAt(m, n)
  BY <1>1, <1>2 DEF StagnatesAt
<1> QED
  BY <1>2, <1>3 DEF Stagnated

\* record_error, after the window h and the history l.
LEMMA FailsKeeps ==
  ASSUME NEW i, NEW h, NEW l, NEW e \in Events \ {Ok}, NEW told \in BOOLEAN,
         Ends(h, l), aborted => Stagnated(l),
         Fails(i, h, e, told), log' = Append(l, e)
  PROVE  TrackerInv'
<1>1. Ends(hashes', log')
  BY OneMoreError DEF Fails
<1>2. Stagnated(l) => Stagnated(log')
  <2>1. /\ l \in Seq(Events) /\ log' \in Seq(Events)
        /\ Len(l) <= Len(log') /\ \A k \in 1 .. Len(l) : log'[k] = l[k]
    BY DEF Ends
  <2> QED
    BY <2>1, HistoryGrows
<1>3. Stagnant(hashes') => Stagnated(log')
  <2>1. Append(h, e) \in Seq(Events \ {Ok})
    BY DEF Ends
  <2>2. Window \in Nat \ {0}
    BY BatchAssumption
  <2>3. Len(LastN(Append(h, e), Window)) <= Window
    <3> DEFINE g == Append(h, e)
    <3>1. g \in Seq(Events \ {Ok}) /\ Len(g) \in Nat
      BY <2>1
    <3> HIDE DEF g
    <3>2. Len(LastN(g, Window)) = IF Len(g) > Window THEN Window ELSE Len(g)
      BY <2>2, <3>1, LastNEntries
    <3> QED
      BY <2>2, <3>1, <3>2 DEF g
  <2> QED
    BY <1>1, <2>3, StagnantEnds DEF Fails
<1>4. aborted' => aborted \/ Stagnant(hashes')
  BY DEF Fails
<1> QED
  BY <1>1, <1>2, <1>3, <1>4 DEF TrackerInv

\* The empty window after a success.
LEMMA SuccessKeeps ==
  ASSUME TrackerInv
  PROVE  /\ Ends(<<>>, Append(log, Ok))
         /\ aborted => Stagnated(Append(log, Ok))
<1> DEFINE m == Append(log, Ok)
<1>1. /\ log \in Seq(Events) /\ m \in Seq(Events) /\ Len(log) <= Len(m)
      /\ \A k \in 1 .. Len(log) : m[k] = log[k]
  BY DEF TrackerInv, Ends, Events
<1>2. <<>> \in Seq(Events \ {Ok}) /\ Len(<<>>) = 0 /\ Len(m) \in Nat
  BY <1>1
<1>3. aborted => Stagnated(m)
  BY <1>1, HistoryGrows DEF TrackerInv
<1> HIDE DEF m
<1>4. Ends(<<>>, m)
  BY <1>1, <1>2 DEF Ends
<1> QED
  BY <1>3, <1>4 DEF m

LEMMA ErrorEvents ==
  /\ <<"hook">> \in Events \ {Ok}
  /\ \A e \in Error : <<"raised", e>> \in Events \ {Ok}
  /\ \A i \in Item : <<"timeout", i>> \in Events \ {Ok}
<1>1. /\ <<"hook">>[1] = "hook" /\ Ok[1] = "ok"
      /\ \A x : <<"raised", x>>[1] = "raised" /\ <<"timeout", x>>[1] = "timeout"
  BY DEF Ok
<1>2. \A x : <<"raised", x>> # Ok /\ <<"timeout", x>> # Ok
  BY <1>1
<1> QED
  BY <1>1, <1>2 DEF Events

LEMMA TrackerStep == TrackerInv /\ [Next]_vars => TrackerInv'
<1> SUFFICES ASSUME TrackerInv, [Next]_vars PROVE TrackerInv'
  OBVIOUS
<1>1. ASSUME NEW i \in Item, Succeed(i) PROVE TrackerInv'
  BY <1>1, SuccessKeeps DEF Succeed, Complete, TrackerInv, Ok
<1>2. ASSUME NEW i \in Item, NEW told \in BOOLEAN, SucceedThenFail(i, told)
      PROVE  TrackerInv'
  <2>1. log' = Append(Append(log, Ok), <<"hook">>)
    <3>1. log \in Seq(Events)
      BY DEF TrackerInv, Ends
    <3>2. \A a, b : log \o <<a, b>> = Append(Append(log, a), b)
      BY <3>1
    <3> QED
      BY <1>2, <3>2 DEF SucceedThenFail, Ok
  <2>2. Fails(i, <<>>, <<"hook">>, told)
    BY <1>2 DEF SucceedThenFail
  <2> QED
    BY <2>1, <2>2, SuccessKeeps, FailsKeeps, ErrorEvents
<1>3. ASSUME NEW i \in Item, NEW told \in BOOLEAN, NEW e \in Events \ {Ok}, Fail(i, e, told)
      PROVE  TrackerInv'
  <2>1. Fails(i, hashes, e, told) /\ log' = Append(log, e)
    BY <1>3 DEF Fail
  <2> QED
    BY <2>1, FailsKeeps DEF TrackerInv
<1>4. ASSUME NEW i \in Item, NEW told \in BOOLEAN, TimeOut(i, told) \/ Raises(i, told)
      PROVE  TrackerInv'
  BY <1>3, <1>4, ErrorEvents DEF TimeOut, Raises
<1>5. ASSUME UNCHANGED <<hashes, log, aborted>> PROVE TrackerInv'
  BY <1>5 DEF TrackerInv
<1> QED
  BY <1>1, <1>2, <1>4, <1>5
     DEF Next, Skip, Enter, Wait, Wake, Return, Raise, CancelAll, vars, tracker

\* The batch is aborted only after a full window of identical errors with no
\* success in between, whatever the order in which items end and whichever of
\* their hooks raise (record_error).
THEOREM BatchAbortMeansStagnation == Spec => []AbortMeansStagnation
<1>1. Init => TrackerInv
  BY DEF Init, TrackerInv, Ends
<1>2. TrackerInv => AbortMeansStagnation
  BY DEF TrackerInv, Stagnated, StagnatesAt, Ok, AbortMeansStagnation
<1> QED
  BY <1>1, <1>2, TrackerStep, PTL DEF Spec
=============================================================================
