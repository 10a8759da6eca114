------------------------------ MODULE BatchRuntime ------------------------------
(***************************************************************************)
(* acall_llm_batch of llm_client/execution/batch_runtime.py: one task per  *)
(* item on one event loop, a semaphore that bounds the items in flight,    *)
(* the progress tracker, and the abort flag it raises after a window of    *)
(* identical errors.                                                       *)
(*                                                                         *)
(* A step is what a task does between two awaits.  gather() schedules all  *)
(* tasks at once, so a call that has to wait for anything ends only after  *)
(* every task had its first turn.                                          *)
(***************************************************************************)
EXTENDS Integers, FiniteSets, Sequences

CONSTANTS Items,             \* number of messages lists
          MaxConcurrent,     \* max_concurrent
          Window,            \* stagnation_window
          Error,             \* type and message of the errors calls raise
          Fault              \* the faults that may happen

Faults == {"timeout", "on_complete", "on_error", "cancel"}

ASSUME BatchAssumption ==
  /\ Items \in Nat \ {0}
  /\ MaxConcurrent \in Nat \ {0}
  /\ Window \in Nat \ {0}
  /\ Fault \subseteq Faults

Item == 1 .. Items

VARIABLES abortOn,      \* abort_on_stagnation
          collect,      \* return_exceptions
          pc,           \* where the task of an item stands
          queue,        \* tasks that wait for the semaphore, in order
          permits,      \* value of the semaphore
          aborted,      \* _stagnation_abort
          completed,    \* tracker.completed
          errored,      \* tracker.errored
          hashes,       \* tracker._error_hashes
          batch,        \* how the batch call stands with its caller
          log           \* history: what the tracker was told, in order

tracker == <<completed, errored, hashes, log>>
vars    == <<abortOn, collect, pc, queue, permits, aborted, tracker, batch>>

Init ==
  /\ abortOn \in BOOLEAN /\ collect \in BOOLEAN
  /\ pc = [i \in Item |-> "new"]
  /\ queue = <<>>
  /\ permits = MaxConcurrent
  /\ aborted = FALSE
  /\ completed = 0 /\ errored = 0
  /\ hashes = <<>> /\ log = <<>>
  /\ batch = "open"

At(P) == {i \in Item : pc[i] \in P}

Over == {"ok", "failed", "skipped", "cancelled"}

-----------------------------------------------------------------------------
(* Starting an item *)

\* i is the next task to have its first turn.
First(i) == pc[i] = "new" /\ \A j \in At({"new"}) : i <= j

\* The flag is tested once, before the semaphore.
Skip(i) ==
  /\ First(i) /\ aborted
  /\ pc' = [pc EXCEPT ![i] = "skipped"]
  /\ UNCHANGED <<abortOn, collect, queue, permits, aborted, tracker, batch>>

Enter(i) ==
  /\ First(i) /\ ~aborted
  /\ permits > 0 /\ queue = <<>>
  /\ pc' = [pc EXCEPT ![i] = "running"]
  /\ permits' = permits - 1
  /\ UNCHANGED <<abortOn, collect, queue, aborted, tracker, batch>>

Wait(i) ==
  /\ First(i) /\ ~aborted
  /\ permits = 0 \/ queue # <<>>
  /\ pc' = [pc EXCEPT ![i] = "waiting"]
  /\ queue' = Append(queue, i)
  /\ UNCHANGED <<abortOn, collect, permits, aborted, tracker, batch>>

\* A released permit goes to the task that waited longest; it calls at once.
Wake(i) ==
  /\ permits > 0
  /\ queue # <<>> /\ i = Head(queue)
  /\ pc' = [pc EXCEPT ![i] = "running"]
  /\ queue' = Tail(queue)
  /\ permits' = permits - 1
  /\ UNCHANGED <<abortOn, collect, aborted, tracker, batch>>

-----------------------------------------------------------------------------
(* Ending an item *)

\* The call of i may end: every task had its turn, or i ended within its own.
MayEnd(i) ==
  /\ pc[i] = "running"
  /\ \/ At({"new"}) = {}
     \/ \A j \in Item : pc[j] # "new" => j <= i

LastN(s, n) == IF Len(s) > n THEN SubSeq(s, Len(s) - n + 1, Len(s)) ELSE s

Stagnant(h) == Len(h) >= Window /\ \A m, n \in 1 .. Len(h) : h[m] = h[n]

\* Mutant: a success does not end the run of errors.
CompleteKeepsErrors(i) ==
  /\ completed' = completed + 1
  /\ UNCHANGED <<errored, hashes>>
  /\ log' = Append(log, <<"ok">>)

\* record_completion
Complete(i) ==
  /\ completed' = completed + 1
  /\ hashes' = <<>>
  /\ log' = Append(log, <<"ok">>)
  /\ UNCHANGED errored

\* record_error, on top of the hashes h; the flag is raised unless the error
\* hook raises first.
Fails(i, h, e, told) ==
  /\ errored' = errored + 1
  /\ hashes' = LastN(Append(h, e), Window)
  /\ aborted' = (aborted \/ (told /\ abortOn /\ Stagnant(hashes')))

\* Mutant: the permit is given back on success only.
LeaveOnSuccess(i, to) ==
  /\ pc' = [pc EXCEPT ![i] = to]
  /\ permits' = IF to = "ok" THEN permits + 1 ELSE permits
  /\ UNCHANGED <<abortOn, collect, queue, batch>>

Leave(i, to) ==
  /\ pc' = [pc EXCEPT ![i] = to]
  /\ permits' = permits + 1
  /\ UNCHANGED <<abortOn, collect, queue, batch>>

Succeed(i) ==
  /\ MayEnd(i)
  /\ Complete(i)
  /\ Leave(i, "ok")
  /\ UNCHANGED aborted

\* on_item_complete or on_batch_progress raises after the item was counted: the
\* same handler counts it once more, as an error.
SucceedThenFail(i, told) ==
  /\ "on_complete" \in Fault
  /\ told \/ "on_error" \in Fault
  /\ MayEnd(i)
  /\ completed' = completed + 1
  /\ Fails(i, <<>>, <<"hook">>, told)
  /\ log' = log \o <<<<"ok">>, <<"hook">>>>
  /\ Leave(i, "failed")

\* The item ends in the error e.
Fail(i, e, told) ==
  /\ told \/ "on_error" \in Fault
  /\ MayEnd(i)
  /\ Fails(i, hashes, e, told)
  /\ log' = Append(log, e)
  /\ Leave(i, "failed")
  /\ UNCHANGED completed

Raises(i, told) == \E e \in Error : Fail(i, <<"raised", e>>, told)

\* wait_for cancels the call; the message names the item, so no two are identical.
TimeOut(i, told) ==
  /\ "timeout" \in Fault
  /\ At({"new"}) = {}
  /\ Fail(i, <<"timeout", i>>, told)

-----------------------------------------------------------------------------
(* The batch call *)

\* gather() has the results of all items, exceptions among them if asked for.
Return ==
  /\ batch = "open"
  /\ At(Over) = Item
  /\ collect \/ At({"ok"}) = Item
  /\ batch' = "returned"
  /\ UNCHANGED <<abortOn, collect, pc, queue, permits, aborted, tracker>>

\* Otherwise it raises the first exception, and the other tasks go on; the hook
\* that is told of the end of the batch may raise as well.
Raise ==
  /\ batch = "open"
  /\ \/ ~collect /\ At({"failed", "skipped"}) # {}
     \/ "on_complete" \in Fault /\ At(Over) = Item
  /\ batch' = "raised"
  /\ UNCHANGED <<abortOn, collect, pc, queue, permits, aborted, tracker>>

\* The caller is cancelled, or its event loop ends: so are the tasks.
CancelAll ==
  /\ "cancel" \in Fault
  /\ batch \in {"open", "raised"}
  /\ batch' = IF batch = "open" THEN "cancelled" ELSE batch
  /\ pc' = [i \in Item |-> IF pc[i] \in Over THEN pc[i] ELSE "cancelled"]
  /\ queue' = <<>>
  /\ permits' = permits + Cardinality(At({"running"}))
  /\ UNCHANGED <<abortOn, collect, aborted, tracker>>

Next ==
  \/ \E i \in Item :
       \/ Skip(i) \/ Enter(i) \/ Wait(i) \/ Wake(i)
       \/ Succeed(i)
       \/ \E told \in BOOLEAN :
            SucceedThenFail(i, told) \/ TimeOut(i, told) \/ Raises(i, told)
  \/ Return \/ Raise \/ CancelAll

\* The event loop runs its tasks, and calls end.
Fairness ==
  /\ \A i \in Item :
       /\ WF_vars(Skip(i) \/ Enter(i) \/ Wait(i))
       /\ WF_vars(Wake(i))
       /\ WF_vars(Succeed(i) \/ Raises(i, TRUE))
  /\ WF_vars(Return \/ Raise)

Spec == Init /\ [][Next]_vars

FairSpec == Spec /\ Fairness

-----------------------------------------------------------------------------
(* Properties *)

\* However items end - result, error, time-out, a hook that raises, cancellation -
\* every permit is free or held by exactly one running item, so never more than
\* max_concurrent calls run (`async with sem`).
PermitsConserved == permits + Cardinality(At({"running"})) = MaxConcurrent

\* Items reach their call in the order of the messages: nobody overtakes a task
\* that waits for the semaphore (`async with sem`).
ItemsStartInOrder ==
  \A i, j \in Item : i < j /\ pc[i] \in {"new", "waiting"} => pc[j] # "running"

\* The batch is aborted only after a window of identical errors without a success
\* in between, wherever in the batch they came from (record_error).
AbortMeansStagnation ==
  aborted => \E n \in Window .. Len(log) :
               /\ log[n] # <<"ok">>
               /\ \A k \in n - Window + 1 .. n : log[k] = log[n]

\* Every item comes to an end and the caller gets an answer, whatever other items
\* did (gather over tasks that each leave the semaphore).
BatchEnds == <>(At(Over) = Item /\ batch # "open")

\* Once the batch is aborted no further item is called (abort_on_stagnation).
AbortStopsTheRest ==
  [][aborted => At({"running"})' \subseteq At({"running"})]_vars
=============================================================================
