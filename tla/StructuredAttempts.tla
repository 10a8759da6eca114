--------------------------- MODULE StructuredAttempts ---------------------------
(***************************************************************************)
(* One structured call (call_llm_structured and acall_llm_structured) of   *)
(* llm_client/execution/structured_runtime.py on the shared retry kernel:  *)
(* three ways to ask a model for an answer that fits a schema, the durable *)
(* history of the attempts, the ledger of what they cost, and the rows     *)
(* that end the call.                                                      *)
(*                                                                         *)
(* The history is what observability/selected_attempts.py reads back: its  *)
(* _validate_history is Selected below.                                    *)
(***************************************************************************)
EXTENDS RetryKernel, FiniteSets, Sequences, SequencesExt

CONSTANTS Offers,      \* Offers[m]: the paths model m may be asked on
          Schema,      \* Schema[m][p]: hash of the schema sent on path p
          Option,      \* what callers ask for: deadline, timeout, strictness
          Fault,       \* the faults that may happen
          MaxRaised    \* bound on the writes, callbacks and pricings that raise

Paths  == {"responses", "native", "instructor"}
Faults == {"store", "artifact", "price", "setup", "on_error", "on_retry",
           "on_fallback", "after_call", "route", "cancel"}

Model == 1 .. Models

ASSUME AttemptAssumption ==
  /\ Offers \in [Model -> (SUBSET Paths) \ {{}}]
  /\ DOMAIN Schema = Model
  /\ Option \subseteq [deadline : BOOLEAN, timed : BOOLEAN, strict : BOOLEAN]
  /\ Fault \subseteq Faults
  /\ MaxRaised \in Nat

VARIABLES timed,       \* an attempt has a timeout of its own
          strict,      \* require_native_json_schema
          path,        \* the path the current model is asked on
          reply,       \* what the provider answered the current attempt
          validated,   \* attempt_validated
          ordinal,     \* next_structured_attempt_ordinal
          pending,     \* the current attempt awaits its recovery decision
          events,      \* structured_attempts rows of the call
          asked,       \* history: attempts handed to the provider
          observed,    \* attempts _AttemptCostLedger has a price of
          rows,        \* terminal rows of the call
          result,      \* the cost evidence the caller gets
          raised       \* history: writes, callbacks and pricings that raised

options == <<timed, strict>>
cost    == <<asked, observed>>
answer  == <<rows, result>>
vars == <<control, clock, options, path, reply, validated, ordinal, pending,
          events, cost, answer, raised>>

NoResult == [cost |-> {}, covers |-> FALSE, cached |-> FALSE]

Init ==
  /\ KernelInit
  /\ \E o \in Option : deadline = o.deadline /\ timed = o.timed /\ strict = o.strict
  /\ path = "native" /\ reply = "none" /\ validated = FALSE
  /\ ordinal = 0 /\ pending = FALSE /\ events = <<>>
  /\ asked = {} /\ observed = {}
  /\ rows = <<>> /\ result = NoResult
  /\ raised = 0

-----------------------------------------------------------------------------
(* Events, costs and rows *)

Event(n, type, decision) ==
  [n |-> n, model |-> model, path |-> path, type |-> type, decision |-> decision]

Current == ordinal - 1

Happened(type) == Event(Current, type, "none")

Write(new) == events' = events \o new /\ UNCHANGED raised

\* A write, a callback or a computation of kind f raises.  (on_error is not
\* bounded by MaxRaised: raising, it takes the call to its next model.)
Breaks(f) ==
  /\ f \in Fault
  /\ f = "on_error" \/ raised < MaxRaised
  /\ raised' = raised + 1

\* record_structured_attempt_event raises: what was written before it stays,
\* and the event itself too when only its lifecycle row was refused.
WriteFails(new) ==
  /\ Breaks("store")
  /\ \E kept \in 0 .. Len(new) : events' = events \o SubSeq(new, 1, kept)

\* Mutant: one priced attempt is taken for all of them.
CoversWhenSeen == observed # {}

Covers == ordinal > 0 /\ observed = 0 .. Current

\* _AttemptCostLedger.apply, and failure_result when nothing has a price.
Priced == [cost |-> observed, covers |-> Covers, cached |-> FALSE]
Failed == IF observed = {} THEN NoResult ELSE Priced

Row(ok) == [ok |-> ok, model |-> model, path |-> path]

-----------------------------------------------------------------------------
(* Entering a model *)

StartModel ==
  /\ TryModel
  /\ UNCHANGED <<clock, options, path, reply, validated, ordinal, pending, events,
                 cost, answer, raised>>

\* A cached answer ends the call: its row is written, no attempt is made, and
\* what it says of its own cost is kept.
AnswerFromCache ==
  /\ at = "entering"
  /\ Goto("success")
  /\ rows' = Append(rows, [Row(TRUE) EXCEPT !.path = "responses"])
  /\ \E c \in BOOLEAN : result' = [cost |-> {}, covers |-> c, cached |-> TRUE]
  /\ UNCHANGED <<clock, options, path, reply, validated, ordinal, pending, events,
                 cost, raised>>

\* before_call and what is prepared ahead of the attempts may raise; a strict
\* call refuses a model without native schemas.
EnterPath ==
  /\ at = "entering"
  /\ \E p \in Offers[model] :
       /\ path' = p
       /\ IF strict /\ p = "instructor"
          THEN Raise("caught", "fatal") ELSE Goto("attempt")
  /\ pending' = FALSE
  /\ UNCHANGED <<clock, options, reply, validated, ordinal, events, cost, answer, raised>>

EnterFails ==
  /\ at = "entering"
  /\ Breaks("setup")
  /\ Raise("caught", "fatal")
  /\ UNCHANGED <<clock, options, path, reply, validated, ordinal, pending, events,
                 cost, answer>>

-----------------------------------------------------------------------------
(* One attempt *)

Begin ==
  /\ at = "attempt" /\ ~late
  /\ ordinal' = ordinal + 1
  /\ pending' = FALSE /\ validated' = FALSE /\ reply' = "none"
  /\ LET started == <<Event(ordinal, "started", "none")>> IN
     \/ Goto("asking") /\ Write(started)
     \/ WriteFails(started) /\ \E e \in Ordinary : Raise("failed", e)
  /\ UNCHANGED <<clock, options, path, cost, answer>>

TooLate ==
  /\ NoAttempt
  /\ UNCHANGED <<clock, options, path, reply, validated, ordinal, pending, events,
                 cost, answer, raised>>

\* _effective_attempt_timeout finds no time left.  On the instructor path it
\* is called outside the attempt's try block.
NoTimeToAsk ==
  /\ at = "asking" /\ late
  /\ Raise(IF path = "instructor" THEN "failed" ELSE "broken", "deadline")
  /\ UNCHANGED <<clock, options, path, reply, validated, ordinal, pending, events,
                 cost, answer, raised>>

Ask ==
  /\ at = "asking" /\ ~late
  /\ Goto("waiting")
  /\ asked' = asked \cup {Current}
  /\ UNCHANGED <<clock, options, path, reply, validated, ordinal, pending, events,
                 observed, answer, raised>>

Answered(r) ==
  /\ at = "waiting"
  /\ r = "invalid" => path # "instructor"
  /\ Goto("answered") /\ reply' = r
  /\ UNCHANGED <<clock, options, path, validated, ordinal, pending, events, cost,
                 answer, raised>>

\* The provider refuses or fails, answers without content, or answers what
\* the library between (LiteLLM, Instructor) already finds invalid.  The
\* native path turns a rejected schema into _NativeSchemaFallback.
Refused(r, e) ==
  /\ at = "waiting"
  /\ e = "schema" => path = "native"
  /\ r = "rejected" => path # "responses"
  /\ Raise("broken", e) /\ reply' = r
  /\ UNCHANGED <<clock, options, path, validated, ordinal, pending, events, cost,
                 answer, raised>>

\* Mutant: only the timeout of the attempt ends the wait.
TimeOutUncapped ==
  /\ at = "waiting" /\ timed
  /\ \E e \in Ordinary : Raise("broken", e)
  /\ UNCHANGED <<clock, options, path, reply, validated, ordinal, pending, events,
                 cost, answer, raised>>

\* The wait ends and the answer, which may still be paid for, is dropped.
TimeOut ==
  /\ at = "waiting"
  /\ \/ timed /\ \E e \in Ordinary : Raise("broken", e)
     \/ late /\ Raise("broken", "deadline")
  /\ UNCHANGED <<clock, options, path, reply, validated, ordinal, pending, events,
                 cost, answer, raised>>

\* The events of an attempt that failed before its response was accepted.
FailureEvents ==
  IF reply = "rejected"
  THEN <<Happened("received"), Happened("validation_failed")>>
  ELSE <<Happened("execution_failed")>>

RecordFailure ==
  /\ at = "broken"
  /\ \/ /\ Goto("failed") /\ Write(FailureEvents) /\ pending' = TRUE
        /\ observed' = IF reply = "rejected" /\ path = "instructor"
                       THEN observed \cup {Current} ELSE observed
     \/ /\ WriteFails(FailureEvents)
        /\ \E e \in Ordinary : Raise("failed", e)
        /\ UNCHANGED pending
        /\ \/ UNCHANGED observed
           \/ /\ reply = "rejected" /\ path = "instructor"
              /\ Len(events') > Len(events)
              /\ observed' = observed \cup {Current}
     \/ /\ reply = "rejected" /\ Breaks("artifact")
        /\ IF path = "native" THEN Raise("failed", "final")
           ELSE \E e \in Ordinary : Raise("failed", e)
        /\ UNCHANGED <<events, pending, observed>>
  /\ reply' = "none"
  /\ UNCHANGED <<clock, options, path, validated, ordinal, asked, answer>>

\* Before the received event is stored the attempt can still fail like one
\* that got no response; Instructor's response has been accepted already.
Receive ==
  /\ at = "answered"
  /\ LET received == <<Happened("received")>> IN
     \/ Goto("received") /\ Write(received)
     \/ /\ WriteFails(received)
        /\ IF path = "instructor" THEN Raise("failed", "final")
           ELSE \E e \in Ordinary : Raise("broken", e)
     \/ Breaks("artifact") /\ Raise("failed", "final") /\ UNCHANGED events
     \/ path = "instructor" /\ Raise("failed", "final") /\ UNCHANGED <<events, raised>>
  /\ UNCHANGED <<clock, options, path, reply, validated, ordinal, pending, cost, answer>>

PriceFails ==
  /\ at = "received"
  /\ Breaks("price")
  /\ IF path = "native" THEN Raise("broken", "fatal") ELSE Raise("failed", "final")
  /\ UNCHANGED <<clock, options, path, reply, validated, ordinal, pending, events,
                 cost, answer>>

Validate ==
  /\ at = "received" /\ reply = "valid"
  /\ observed' = observed \cup {Current}
  /\ validated' = TRUE
  /\ \/ Goto("finalizing") /\ Write(<<Happened("validated")>>)
     \/ WriteFails(<<Happened("validated")>>) /\ Raise("failed", "final")
  /\ UNCHANGED <<clock, options, path, reply, ordinal, pending, asked, answer>>

Invalidate ==
  /\ at = "received" /\ reply = "invalid"
  /\ observed' = observed \cup {Current}
  /\ \/ /\ Write(<<Happened("validation_failed")>>)
        /\ Raise("failed", "retryable") /\ pending' = TRUE
     \/ /\ WriteFails(<<Happened("validation_failed")>>)
        /\ IF path = "responses" THEN Raise("failed", "final")
           ELSE \E e \in Ordinary : Raise("broken", e)
        /\ UNCHANGED pending
  /\ reply' = "none"
  /\ UNCHANGED <<clock, options, path, validated, ordinal, asked, answer>>

\* after_call, the cache, the success row; last, on the native path, the
\* route observation.
Finalize ==
  /\ at = "finalizing"
  /\ Goto("returned")
  /\ rows' = Append(rows, Row(TRUE))
  /\ UNCHANGED <<clock, options, path, reply, validated, ordinal, pending, events,
                 cost, result, raised>>

\* Mutant: the row of the success is written before after_call.
FinalizeFailsAfterRow ==
  /\ at = "finalizing"
  /\ Raise("failed", "final")
  /\ Breaks("after_call") /\ rows' = Append(rows, Row(TRUE))
  /\ UNCHANGED <<clock, options, path, reply, validated, ordinal, pending, events,
                 cost, result>>

FinalizeFails ==
  /\ at = "finalizing"
  /\ Raise("failed", "final")
  /\ \/ Breaks("after_call") /\ UNCHANGED rows
     \/ path = "native" /\ Breaks("route") /\ rows' = Append(rows, Row(TRUE))
     \/ path = "instructor" /\ UNCHANGED <<rows, raised>>   \* a failed finish reason
  /\ UNCHANGED <<clock, options, path, reply, validated, ordinal, pending, events,
                 cost, result>>

-----------------------------------------------------------------------------
(* What the kernel makes of a failed attempt *)

\* Mutant: a decision that gives up on a model is not turned into a fallback.
DecisionBare(d) ==
  IF pending THEN <<Event(Current, "recovery_decided", d)>> ELSE <<>>

\* Mutant: any decision on a model that is not the last is a fallback.
DecisionByModel(d) ==
  IF pending THEN <<Event(Current, "recovery_decided",
                      IF model < Models THEN "fallback" ELSE d)>>
  ELSE <<>>

\* _record_*_recovery: an attempt whose failure was recorded gets its decision.
Decision(d) ==
  IF ~pending THEN <<>>
  ELSE <<Event(Current, "recovery_decided",
           IF d = "exhausted" /\ (model < Models \/ (error = "schema" /\ ~strict))
           THEN "fallback" ELSE d)>>

Decide(d) == Write(Decision(d)) /\ pending' = FALSE

Aside == <<clock, options, path, reply, validated, ordinal, cost, answer>>

RotateKey == HookRetry /\ Decide(IF late THEN "exhausted" ELSE "retry") /\ UNCHANGED Aside
StopTrying == GiveUp /\ Decide("exhausted") /\ UNCHANGED Aside
RunOut     == NoTimeToRetry /\ Decide("exhausted") /\ UNCHANGED Aside
TryAgain   == Retry /\ Decide("retry") /\ UNCHANGED Aside
PassOn     == PassDeadline /\ UNCHANGED <<Aside, events, pending, raised>>

\* Mutant: an exception of the hook replaces a final failure on every path.
OnErrorUnwraps ==
  /\ at = "failed" /\ error \notin {"deadline", "schema"}
  /\ Breaks("on_error")
  /\ Raise("caught", "fatal")
  /\ UNCHANGED <<Aside, events, pending>>

\* hooks.on_error raises before anything is decided.  The responses and native
\* paths keep a final failure final, the instructor path does not.
OnErrorRaises ==
  /\ at = "failed" /\ error \notin {"deadline", "schema"}
  /\ Breaks("on_error")
  /\ Raise("caught", IF error = "final" /\ path # "instructor" THEN "final" ELSE "fatal")
  /\ UNCHANGED <<Aside, events, pending>>

DecisionLost ==
  /\ at = "failed" /\ error # "deadline" /\ pending
  /\ \E d \in {"retry", "exhausted"} :
       /\ d = "retry" => error \in Ordinary /\ attempt < MaxRetries /\ ~late
       /\ WriteFails(Decision(d))
  /\ Raise("caught", "fatal")
  /\ pending' = FALSE
  /\ UNCHANGED Aside

\* on_retry raises, after the decision was written or, when the key was
\* rotated, before.
OnRetryRaises ==
  /\ at = "failed" /\ error \in Ordinary /\ attempt < MaxRetries
  /\ Breaks("on_retry")
  /\ Raise("caught", "fatal")
  /\ \/ UNCHANGED events
     \/ error = "retryable" /\ ~late /\ events' = events \o Decision("retry")
  /\ pending' = FALSE
  /\ UNCHANGED Aside

\* The caller gets the answer with the cost of all its attempts, or nothing.
Accept ==
  /\ Return
  /\ result' = IF late THEN result ELSE Priced
  /\ UNCHANGED <<clock, options, path, reply, validated, ordinal, cost, rows, events,
                 pending, raised>>

-----------------------------------------------------------------------------
(* Leaving a model *)

\* A rejected schema: the same model is asked again through Instructor, or a
\* strict call fails on it.
Downgrade ==
  /\ at = "caught" /\ error = "schema"
  /\ IF strict
     THEN /\ Raise("caught", "fatal")
          /\ UNCHANGED path
     ELSE /\ at' = "attempt" /\ attempt' = 0 /\ path' = "instructor"
          /\ error' = "none"
          /\ UNCHANGED model
  /\ UNCHANGED <<clock, options, reply, validated, ordinal, pending, events, cost,
                 answer, raised>>

FallBack ==
  /\ NextModel
  /\ validated' = FALSE
  /\ UNCHANGED <<clock, options, path, reply, ordinal, cost, answer, events, pending, raised>>

OnFallbackRaises ==
  /\ at = "caught" /\ error \in Ordinary /\ model < Models /\ ~late
  /\ Breaks("on_fallback")
  /\ Raise("reporting", "fatal")
  /\ UNCHANGED <<Aside, events, pending>>

LeaveChain == Surrender /\ UNCHANGED <<Aside, events, pending, raised>>

\* The caller gets the cost of the attempts with the error, and the error its row.
Report ==
  /\ at = "reporting"
  /\ Goto("failure")
  /\ rows' = Append(rows, Row(FALSE)) /\ result' = Failed
  /\ UNCHANGED <<clock, options, path, reply, validated, ordinal, pending, events,
                 cost, raised>>

\* A cancellation of the task passes every handler: none of them catches it.
Cancel ==
  /\ "cancel" \in Fault
  /\ at = "waiting" \/ (at = "attempt" /\ attempt > 0)
  /\ Goto("cancelled")
  /\ UNCHANGED <<Aside, events, pending, raised>>

DeadlinePasses ==
  /\ Elapse
  /\ UNCHANGED <<options, path, reply, validated, ordinal, pending, events, cost,
                 answer, raised>>

-----------------------------------------------------------------------------

\* The steps of the runtime itself, which it takes without waiting for anyone.
Work ==
  \/ StartModel \/ AnswerFromCache \/ EnterPath \/ EnterFails
  \/ Begin \/ TooLate \/ NoTimeToAsk \/ Ask \/ TimeOut
  \/ RecordFailure \/ Receive \/ PriceFails \/ Validate \/ Invalidate
  \/ Finalize \/ FinalizeFails
  \/ RotateKey \/ StopTrying \/ RunOut \/ TryAgain \/ PassOn
  \/ OnErrorRaises \/ DecisionLost \/ OnRetryRaises \/ Accept
  \/ Downgrade \/ FallBack \/ OnFallbackRaises \/ LeaveChain \/ Report

Provider ==
  \/ \E r \in {"valid", "invalid"} : Answered(r)
  \/ \E r \in {"none", "rejected"}, e \in Ordinary \cup {"schema"} : Refused(r, e)

Next == Work \/ Provider \/ DeadlinePasses \/ Cancel

Spec == Init /\ [][Next]_vars

\* The runtime goes on, its timeouts fire and time passes; no provider has to
\* answer.
FairSpec == Spec /\ WF_vars(Work) /\ WF_vars(DeadlinePasses)

-----------------------------------------------------------------------------
(* What a reader of the history accepts: _validate_history *)

Positions(n) == {i \in DOMAIN events : events[i].n = n}

\* The events of attempt n.  (They are next to each other wherever this is
\* read: Selected refuses a history whose ordinals are not in order.)
Of(n) == SubSeq(events, Min(Positions(n)), Max(Positions(n)))

Types(n) == [i \in DOMAIN Of(n) |-> Of(n)[i].type]

FailureShapes ==
  {<<"started", "received", "validation_failed", "recovery_decided">>,
   <<"started", "execution_failed", "recovery_decided">>}

\* The decision of attempt n agrees with the attempt that came next.
Follows(n) ==
  LET d == Last(Of(n)).decision  m == Head(Of(n)).model  next == Head(Of(n + 1)).model IN
  /\ d = "retry" => next = m
  /\ d = "fallback" => next # m
  /\ d # "exhausted"

Selected ==
  /\ Cardinality({i \in DOMAIN events : events[i].type = "validated"}) = 1
  /\ LET last == Last(events) IN
     /\ last.type = "validated"
     /\ \A i, j \in DOMAIN events : i < j => events[i].n <= events[j].n
     /\ {events[i].n : i \in DOMAIN events} = 0 .. last.n
     /\ Types(last.n) = <<"started", "received", "validated">>
     /\ \A n \in 0 .. last.n :
          \A i, j \in DOMAIN Of(n) :
            Of(n)[i].model = Of(n)[j].model /\ Of(n)[i].path = Of(n)[j].path
     /\ \A n \in 0 .. last.n - 1 : Types(n) \in FailureShapes /\ Follows(n)

\* get_runtime_selected_attempt_receipt: one terminal row, which is the
\* selected attempt's.
Receipt ==
  /\ Selected
  /\ Len(rows) = 1
  /\ LET row == rows[1]  last == Last(events) IN
     row.ok /\ row.model = last.model /\ row.path = last.path

OneSchema ==
  Cardinality({Schema[events[i].model][events[i].path] : i \in DOMAIN events}) <= 1

-----------------------------------------------------------------------------
(* Properties *)

EventTypes == {"started", "received", "validation_failed", "validated",
               "execution_failed", "recovery_decided"}

EventRecord == [n : Nat, model : Model, path : Paths, type : EventTypes,
                decision : {"none", "retry", "fallback", "exhausted"}]

RowRecord == [ok : BOOLEAN, model : Model, path : Paths]

\* Every variable keeps its type; a price is only recorded of an attempt that
\* was asked.
TypeOK ==
  /\ at \in Over \cup {"model", "entering", "attempt", "asking", "waiting", "broken",
                       "answered", "received", "finalizing", "returned", "failed",
                       "caught", "reporting"}
  /\ model \in Model /\ attempt \in 0 .. MaxRetries
  /\ error \in Errors \cup {"none"}
  /\ deadline \in BOOLEAN /\ late \in BOOLEAN /\ (late => deadline)
  /\ timed \in BOOLEAN /\ strict \in BOOLEAN
  /\ path \in Paths
  /\ reply \in {"none", "valid", "invalid", "rejected"}
  /\ validated \in BOOLEAN /\ pending \in BOOLEAN /\ raised \in Nat
  /\ ordinal \in Nat
  /\ events \in Seq(EventRecord) /\ rows \in Seq(RowRecord)
  /\ asked \subseteq 0 .. Current /\ observed \subseteq asked
  /\ result \in [cost : SUBSET (0 .. Current), covers : BOOLEAN, cached : BOOLEAN]

\* A model was asked on its native path and then through Instructor.
Downgraded ==
  \E i, j \in DOMAIN events :
    /\ events[i].model = events[j].model
    /\ events[i].path = "native" /\ events[j].path = "instructor"

\* A call that succeeded on a fresh answer leaves a history the reader of
\* receipts accepts, whatever failed before on however many models: as long as
\* no write or callback raised, all its attempts sent one schema and none was a
\* downgrade.  (That one is recorded as a fallback and keeps the model, which
\* the reader refuses also where the two paths send the same schema.)
ReceiptAccepted ==
  at = "success" /\ ~result.cached /\ raised = 0 /\ OneSchema /\ ~Downgraded => Receipt

\* When the caller is told that a cost covers every attempt, no generation was
\* asked for that the cost leaves out: not one that timed out and is paid for
\* when the provider ends it, after the call.
CoverageIsExact ==
  ~result.cached /\ result.covers => asked \subseteq result.cost

\* A call that is over has one terminal row.  A second one, of the error,
\* follows the row of the success only when the deadline passed between them
\* or the native path's route observation raised.
OneTerminalRow ==
  /\ at = "success" => Len(rows) = 1 /\ rows[1].ok
  /\ at = "failure" =>
       /\ ~Last(rows).ok
       /\ Len(rows) > 1 => Len(rows) = 2 /\ (late \/ (raised > 0 /\ rows[1].path = "native"))

\* A response that validated is terminal: nothing the call does with it
\* afterwards, whatever raises, makes it start an attempt or turn to another
\* model.  (On the instructor path a raising on_error hook does: there the
\* promise is of the calls in which no callback raised.)
ValidatedIsFinal ==
  [][validated /\ (raised' = 0 \/ path # "instructor")
       => ordinal' = ordinal /\ model' = model]_vars

\* The decision on record for an attempt is the one the kernel acts on: a next
\* attempt is on the same model and path after "retry", on another one after
\* "fallback", and never after "exhausted".
DecisionKept ==
  [][ordinal' > ordinal /\ raised' = 0 /\ ordinal > 0 =>
       LET before == Last(events)  next == Last(events') IN
       /\ before.type = "recovery_decided"
       /\ before.decision # "exhausted"
       /\ before.decision = "retry" <=> (next.model = before.model /\ next.path = before.path)]_vars

\* A call with a deadline, or whose attempts have timeouts, ends even if no
\* provider ever answers.
CallEnds == (deadline \/ timed) ~> at \in Over
=============================================================================
