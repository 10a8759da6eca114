------------------------ MODULE StructuredAttemptsProofs ------------------------
(***************************************************************************)
(* What holds of a structured call for every chain of models, number of    *)
(* retries and set of faults: what its results and rows say of its cost    *)
(* and its end, that a validated answer is final, that the kernel acts on  *)
(* the decision it recorded, and that the history a call leaves, when      *)
(* nothing raised on the way, is one the reader of receipts accepts.       *)
(***************************************************************************)
EXTENDS StructuredAttempts, SequenceTheorems, FiniteSetTheorems, TLAPS

-----------------------------------------------------------------------------
(* The inductive invariant *)

\* An attempt is under way, so it has an ordinal.
Busy == {"asking", "waiting", "broken", "answered", "received", "finalizing",
         "returned", "failed"}

HasOrdinal == at \in Busy => ordinal > 0

\* The caller has no result before the call is over.
NothingYet == at \notin Over => result = NoResult

\* Where a call can stand after a response of its validated: on its way to the
\* end, with an error that neither loop of the kernel continues after.
ValidatedStands ==
  /\ validated =>
       /\ ~pending
       /\ \/ at \in {"finalizing", "returned"} \cup Over
          \/ at = "failed" /\ error = "final"
          \/ at \in {"caught", "reporting"} /\ error \in {"final", "deadline"}
          \/ at \in {"caught", "reporting"} /\ error = "fatal"
             /\ path = "instructor" /\ raised > 0
  /\ at \in {"finalizing", "returned"} => validated

\* Only a failure on record waits for a decision.
PendingStands == at \in Busy \ {"failed"} => ~pending

\* What is priced was asked.
AskedStands ==
  /\ at = "asking" => reply = "none"
  /\ at \in {"waiting", "answered", "received"} => Current \in asked
  /\ at = "broken" /\ reply = "rejected" => Current \in asked

\* Before the end there is at most one row, that of the success, and only an
\* error that ends the call comes after it.
Overtaken == late \/ (raised > 0 /\ rows[1].path = "native")

RowsStand ==
  /\ at \in {"returned", "success"} => Len(rows) = 1 /\ rows[1].ok
  /\ at = "failed" =>
       \/ rows = <<>>
       \/ Len(rows) = 1 /\ error = "final" /\ validated /\ Overtaken /\ path = "native"
  /\ at \in {"caught", "reporting"} =>
       \/ rows = <<>>
       \/ Len(rows) = 1 /\ error \in {"final", "deadline"} /\ Overtaken
  /\ at = "failure" =>
       /\ Len(rows) \in {1, 2} /\ ~rows[Len(rows)].ok
       /\ Len(rows) = 2 => Overtaken
  /\ at \notin Over \cup {"returned", "failed", "caught", "reporting"} => rows = <<>>

Inv ==
  /\ TypeOK /\ HasOrdinal /\ NothingYet
  /\ ValidatedStands /\ PendingStands /\ AskedStands /\ RowsStand

-----------------------------------------------------------------------------
(* Lemmas about the history *)

\* Writing well-typed events keeps the history well-typed, whether the write
\* succeeds or stops half way.
LEMMA WriteType ==
  ASSUME NEW new \in Seq(EventRecord), events \in Seq(EventRecord),
         Write(new) \/ WriteFails(new)
  PROVE  events' \in Seq(EventRecord)
<1>1. CASE Write(new)
  BY <1>1 DEF Write
<1>2. CASE WriteFails(new)
  <2>1. PICK kept \in 0 .. Len(new) : events' = events \o SubSeq(new, 1, kept)
    BY <1>2 DEF WriteFails
  <2>2. SubSeq(new, 1, kept) \in Seq(EventRecord)
    <3>1. \A i \in 1 .. kept : new[i] \in EventRecord
      BY <2>1, ElementOfSeq
    <3>2. kept <= Len(new) /\ kept \in Nat /\ Len(new) \in Nat
      BY <2>1
    <3> QED BY <3>1, <3>2, SubSeqProperties, SeqDef
  <2> QED BY <2>1, <2>2, ConcatProperties
<1> QED BY <1>1, <1>2

\* The events of an attempt, once it has an ordinal.
LEMMA EventType ==
  ASSUME TypeOK,
         NEW n \in Nat, NEW t \in EventTypes,
         NEW d \in {"none", "retry", "fallback", "exhausted"}
  PROVE  <<Event(n, t, d)>> \in Seq(EventRecord)
<1>1. Event(n, t, d) \in EventRecord
  BY DEF TypeOK, Event, EventRecord
<1> QED BY <1>1

LEMMA HappenedType ==
  ASSUME TypeOK, ordinal > 0, NEW t \in EventTypes
  PROVE  <<Happened(t)>> \in Seq(EventRecord)
<1>1. Current \in Nat
  BY DEF TypeOK, Current
<1> QED BY <1>1, EventType DEF Happened

LEMMA FailureType ==
  ASSUME TypeOK, ordinal > 0
  PROVE  FailureEvents \in Seq(EventRecord)
<1>1. /\ <<Happened("received")>> \in Seq(EventRecord)
      /\ <<Happened("validation_failed")>> \in Seq(EventRecord)
      /\ <<Happened("execution_failed")>> \in Seq(EventRecord)
  BY HappenedType DEF EventTypes
<1> QED BY <1>1 DEF FailureEvents

LEMMA DecisionType ==
  ASSUME TypeOK, ordinal > 0, NEW d \in {"retry", "exhausted"}
  PROVE  Decision(d) \in Seq(EventRecord)
<1>1. Current \in Nat
  BY DEF TypeOK, Current
<1>2. \A x \in {"retry", "fallback", "exhausted"} :
        <<Event(Current, "recovery_decided", x)>> \in Seq(EventRecord)
  BY <1>1, EventType DEF EventTypes
<1> QED BY <1>2 DEF Decision

LEMMA EventsType ==
  ASSUME Inv, [Next]_vars
  PROVE  events' \in Seq(EventRecord)
<1> USE KernelAssumption, AttemptAssumption
<1>0. TypeOK /\ HasOrdinal /\ events \in Seq(EventRecord)
  BY DEF Inv, TypeOK
<1>1. CASE Begin
  <2>1. ordinal \in Nat /\ "started" \in EventTypes
    BY <1>0 DEF TypeOK, EventTypes
  <2>2. <<Event(ordinal, "started", "none")>> \in Seq(EventRecord)
    BY <1>0, <2>1, EventType
  <2>3. Write(<<Event(ordinal, "started", "none")>>) \/ WriteFails(<<Event(ordinal, "started", "none")>>)
    BY <1>1 DEF Begin
  <2> QED BY <1>0, <2>2, <2>3, WriteType
<1>2. CASE RecordFailure
  <2>1. ordinal > 0
    BY <1>0, <1>2 DEF RecordFailure, HasOrdinal, Busy
  <2>2. CASE UNCHANGED events
    BY <1>0, <2>2
  <2>3. CASE Write(FailureEvents) \/ WriteFails(FailureEvents)
    BY <1>0, <2>1, <2>3, FailureType, WriteType
  <2> QED BY <1>2, <2>2, <2>3 DEF RecordFailure
<1>3. CASE Receive
  <2>1. ordinal > 0 /\ "received" \in EventTypes
    BY <1>0, <1>3 DEF Receive, HasOrdinal, Busy, EventTypes
  <2>2. CASE UNCHANGED events
    BY <1>0, <2>2
  <2>3. CASE Write(<<Happened("received")>>) \/ WriteFails(<<Happened("received")>>)
    BY <1>0, <2>1, <2>3, HappenedType, WriteType
  <2> QED BY <1>3, <2>2, <2>3 DEF Receive
<1>4. CASE Validate
  <2>1. ordinal > 0 /\ "validated" \in EventTypes
    BY <1>0, <1>4 DEF Validate, HasOrdinal, Busy, EventTypes
  <2>2. Write(<<Happened("validated")>>) \/ WriteFails(<<Happened("validated")>>)
    BY <1>4 DEF Validate
  <2> QED BY <1>0, <2>1, <2>2, HappenedType, WriteType
<1>5. CASE Invalidate
  <2>1. ordinal > 0 /\ "validation_failed" \in EventTypes
    BY <1>0, <1>5 DEF Invalidate, HasOrdinal, Busy, EventTypes
  <2>2. Write(<<Happened("validation_failed")>>) \/ WriteFails(<<Happened("validation_failed")>>)
    BY <1>5 DEF Invalidate
  <2> QED BY <1>0, <2>1, <2>2, HappenedType, WriteType
<1>6. CASE RotateKey \/ StopTrying \/ RunOut \/ TryAgain
  <2>1. at = "failed" /\ \E d \in {"retry", "exhausted"} : Write(Decision(d))
    BY <1>6 DEF RotateKey, StopTrying, RunOut, TryAgain, Decide, HookRetry, GiveUp,
                NoTimeToRetry, Retry
  <2>2. ordinal > 0
    BY <1>0, <2>1 DEF HasOrdinal, Busy
  <2> QED BY <1>0, <2>1, <2>2, DecisionType, WriteType
<1>7. CASE DecisionLost
  <2>1. at = "failed" /\ \E d \in {"retry", "exhausted"} : WriteFails(Decision(d))
    BY <1>7 DEF DecisionLost
  <2>2. ordinal > 0
    BY <1>0, <2>1 DEF HasOrdinal, Busy
  <2> QED BY <1>0, <2>1, <2>2, DecisionType, WriteType
<1>8. CASE OnRetryRaises
  <2>1. ordinal > 0
    BY <1>0, <1>8 DEF OnRetryRaises, HasOrdinal, Busy
  <2>2. Decision("retry") \in Seq(EventRecord)
    BY <1>0, <2>1, DecisionType
  <2>3. UNCHANGED events \/ events' = events \o Decision("retry")
    BY <1>8 DEF OnRetryRaises
  <2>4. \A new \in Seq(EventRecord) : events \o new \in Seq(EventRecord)
    BY <1>0
  <2> QED BY <1>0, <2>2, <2>3, <2>4
<1>9. CASE UNCHANGED events
  BY <1>0, <1>9
<1>10. StartModel \/ AnswerFromCache \/ EnterPath \/ EnterFails \/ TooLate \/ NoTimeToAsk
       \/ Ask \/ TimeOut \/ PriceFails \/ Finalize \/ FinalizeFails \/ PassOn
       \/ OnErrorRaises \/ Accept \/ Downgrade \/ FallBack \/ OnFallbackRaises
       \/ LeaveChain \/ Report \/ Provider \/ Cancel \/ DeadlinePasses
       \/ UNCHANGED vars => UNCHANGED events
  BY DEF StartModel, AnswerFromCache, EnterPath, EnterFails, TooLate, NoTimeToAsk, Ask,
         TimeOut, PriceFails, Finalize, FinalizeFails, PassOn, OnErrorRaises, Accept,
         Downgrade, FallBack, OnFallbackRaises, LeaveChain, Report, Provider, Answered,
         Refused, Cancel, DeadlinePasses, vars
<1>11. CASE Work
  BY <1>1, <1>2, <1>3, <1>4, <1>5, <1>6, <1>7, <1>8, <1>9, <1>10, <1>11 DEF Work
<1>12. CASE Provider \/ DeadlinePasses \/ Cancel \/ UNCHANGED vars
  BY <1>9, <1>10, <1>12
<1>13. Next \/ UNCHANGED vars
  OBVIOUS
<1> QED BY <1>11, <1>12, <1>13 DEF Next

-----------------------------------------------------------------------------
(* Every step keeps the invariant *)

\* The parts of TypeOK that the steps below treat on their own.
Places ==
  /\ at \in Over \cup {"model", "entering", "attempt", "asking", "waiting", "broken",
                       "answered", "received", "finalizing", "returned", "failed",
                       "caught", "reporting"}
  /\ model \in Model /\ attempt \in 0 .. MaxRetries
  /\ error \in Errors \cup {"none"}
  /\ raised \in Nat /\ ordinal \in Nat

Flags ==
  /\ deadline \in BOOLEAN /\ late \in BOOLEAN /\ (late => deadline)
  /\ timed \in BOOLEAN /\ strict \in BOOLEAN
  /\ path \in Paths
  /\ reply \in {"none", "valid", "invalid", "rejected"}
  /\ validated \in BOOLEAN /\ pending \in BOOLEAN

Prices == asked \subseteq 0 .. Current /\ observed \subseteq asked

ResultType ==
  result \in [cost : SUBSET (0 .. Current), covers : BOOLEAN, cached : BOOLEAN]

LEMMA TypeParts ==
  TypeOK <=> /\ Places /\ Flags /\ Prices /\ ResultType
             /\ events \in Seq(EventRecord) /\ rows \in Seq(RowRecord)
BY DEF TypeOK, Places, Flags, Prices, ResultType

LEMMA InitInv == Init => Inv
<1> SUFFICES ASSUME Init PROVE Inv
  OBVIOUS
<1> USE KernelAssumption, AttemptAssumption DEF Init, KernelInit, NoResult, Current
<1>1. Places
  BY DEF Places, Model, Errors, Over
<1>2. Flags
  BY DEF Flags, Paths
<1>5. Prices /\ ResultType
  BY DEF Prices, ResultType
<1>3. events \in Seq(EventRecord) /\ rows \in Seq(RowRecord)
  OBVIOUS
<1>4. HasOrdinal /\ NothingYet /\ ValidatedStands /\ PendingStands /\ AskedStands /\ RowsStand
  BY DEF HasOrdinal, NothingYet, ValidatedStands, PendingStands, AskedStands, RowsStand, Busy, Over
<1> QED BY <1>1, <1>2, <1>3, <1>4, <1>5, TypeParts DEF Inv

LEMMA PlacesStep ==
  ASSUME Inv, [Next]_vars
  PROVE  Places'
<1> USE KernelAssumption, TypeParts
<1> USE DEF Inv, Places, Model, Errors, Ordinary, Over
<1>1. CASE StartModel
  BY <1>1 DEF StartModel, TryModel, Goto, Raise, clock, control, options, cost,
          answer, Current
<1>2. CASE AnswerFromCache
  BY <1>2 DEF AnswerFromCache, Goto, Row, clock, control, options, cost, answer,
          Current
<1>3. CASE EnterPath
  BY <1>3 DEF EnterPath, Goto, Raise, clock, control, options, cost, answer, Current
<1>4. CASE EnterFails
  BY <1>4 DEF EnterFails, Breaks, Raise, clock, control, options, cost, answer,
          Current
<1>5. CASE Begin
  BY <1>5 DEF Begin, Goto, Raise, Write, WriteFails, Breaks, clock, control, options,
          cost, answer, Current
<1>6. CASE TooLate
  BY <1>6 DEF TooLate, NoAttempt, Raise, clock, control, options, cost, answer,
          Current
<1>7. CASE NoTimeToAsk
  BY <1>7 DEF NoTimeToAsk, Raise, clock, control, options, cost, answer, Current
<1>8. CASE Ask
  BY <1>8 DEF Ask, Goto, clock, control, options, cost, answer, Current
<1>9. CASE TimeOut
  BY <1>9 DEF TimeOut, Raise, clock, control, options, cost, answer, Current
<1>10. CASE RecordFailure
  BY <1>10 DEF RecordFailure, Goto, Raise, Write, WriteFails, Breaks, clock, control,
          options, cost, answer, Current
<1>11. CASE Receive
  BY <1>11 DEF Receive, Goto, Raise, Write, WriteFails, Breaks, clock, control,
          options, cost, answer, Current
<1>12. CASE PriceFails
  BY <1>12 DEF PriceFails, Breaks, Raise, clock, control, options, cost, answer,
          Current
<1>13. CASE Validate
  BY <1>13 DEF Validate, Goto, Raise, Write, WriteFails, Breaks, clock, control,
          options, cost, answer, Current
<1>14. CASE Invalidate
  BY <1>14 DEF Invalidate, Raise, Write, WriteFails, Breaks, clock, control, options,
          cost, answer, Current
<1>15. CASE Finalize
  BY <1>15 DEF Finalize, Goto, Row, clock, control, options, cost, answer, Current
<1>16. CASE FinalizeFails
  BY <1>16 DEF FinalizeFails, Raise, Breaks, Row, clock, control, options, cost,
          answer, Current
<1>17. CASE RotateKey
  BY <1>17 DEF RotateKey, HookRetry, NextAttempt, Raise, Decide, Write, Aside, clock,
          control, options, cost, answer, Current
<1>18. CASE StopTrying
  BY <1>18 DEF StopTrying, GiveUp, Raise, Decide, Write, Aside, clock, control,
          options, cost, answer, Current
<1>19. CASE RunOut
  BY <1>19 DEF RunOut, NoTimeToRetry, Raise, Decide, Write, Aside, clock, control,
          options, cost, answer, Current
<1>20. CASE TryAgain
  BY <1>20 DEF TryAgain, Retry, NextAttempt, Decide, Write, Aside, clock, control,
          options, cost, answer, Current
<1>21. CASE PassOn
  BY <1>21 DEF PassOn, PassDeadline, Raise, Aside, clock, control, options, cost,
          answer, Current
<1>22. CASE OnErrorRaises
  BY <1>22 DEF OnErrorRaises, Breaks, Raise, Aside, clock, control, options, cost,
          answer, Current
<1>23. CASE DecisionLost
  BY <1>23 DEF DecisionLost, WriteFails, Breaks, Raise, Aside, clock, control,
          options, cost, answer, Current
<1>24. CASE OnRetryRaises
  BY <1>24 DEF OnRetryRaises, Breaks, Raise, Aside, clock, control, options, cost,
          answer, Current
<1>25. CASE Accept
  BY <1>25 DEF Accept, Return, Goto, Raise, Priced, Covers, clock, control, options,
          cost, answer, Current
<1>26. CASE Downgrade
  BY <1>26 DEF Downgrade, Raise, clock, control, options, cost, answer, Current
<1>27. CASE FallBack
  BY <1>27 DEF FallBack, NextModel, clock, control, options, cost, answer, Current
<1>28. CASE OnFallbackRaises
  BY <1>28 DEF OnFallbackRaises, Breaks, Raise, Aside, clock, control, options, cost,
          answer, Current
<1>29. CASE LeaveChain
  BY <1>29 DEF LeaveChain, Surrender, Raise, Aside, clock, control, options, cost,
          answer, Current
<1>30. CASE Report
  BY <1>30 DEF Report, Goto, Row, Failed, Priced, Covers, clock, control, options,
          cost, answer, Current
<1>31. CASE Provider
  BY <1>31 DEF Provider, Answered, Refused, Goto, Raise, clock, control, options,
          cost, answer, Current
<1>32. CASE DeadlinePasses
  BY <1>32 DEF DeadlinePasses, Elapse, clock, control, options, cost, answer, Current
<1>33. CASE Cancel
  BY <1>33 DEF Cancel, Goto, Aside, clock, control, options, cost, answer, Current
<1>34. CASE UNCHANGED vars
  BY <1>34 DEF vars, clock, control, options, cost, answer, Current
<1>35. CASE Work
  BY <1>1, <1>2, <1>3, <1>4, <1>5, <1>6, <1>7, <1>8, <1>9, <1>10, <1>11,
     <1>12, <1>13, <1>14, <1>15, <1>16, <1>17, <1>18, <1>19, <1>20, <1>21,
     <1>22, <1>23, <1>24, <1>25, <1>26, <1>27, <1>28, <1>29, <1>30, <1>35 DEF Work
<1>36. Next \/ UNCHANGED vars
  OBVIOUS
<1> QED BY <1>35, <1>31, <1>32, <1>33, <1>34, <1>36 DEF Next

LEMMA FlagsStep ==
  ASSUME Inv, [Next]_vars
  PROVE  Flags'
<1> USE TypeParts
<1> USE DEF Inv, Flags, Paths, Model
<1>1. CASE StartModel
  BY <1>1 DEF StartModel, TryModel, Goto, Raise, clock, control, options, cost,
          answer, Current
<1>2. CASE AnswerFromCache
  BY <1>2 DEF AnswerFromCache, Goto, Row, clock, control, options, cost, answer,
          Current
<1>3. CASE EnterPath
  <2>1. model \in Model
    BY DEF Places
  <2>2. Offers[model] \subseteq Paths
    BY <2>1, AttemptAssumption
  <2> QED BY <1>3, <2>2 DEF EnterPath, Goto, Raise, clock, control, options, cost, answer
<1>4. CASE EnterFails
  BY <1>4 DEF EnterFails, Breaks, Raise, clock, control, options, cost, answer,
          Current
<1>5. CASE Begin
  BY <1>5 DEF Begin, Goto, Raise, Write, WriteFails, Breaks, clock, control, options,
          cost, answer, Current
<1>6. CASE TooLate
  BY <1>6 DEF TooLate, NoAttempt, Raise, clock, control, options, cost, answer,
          Current
<1>7. CASE NoTimeToAsk
  BY <1>7 DEF NoTimeToAsk, Raise, clock, control, options, cost, answer, Current
<1>8. CASE Ask
  BY <1>8 DEF Ask, Goto, clock, control, options, cost, answer, Current
<1>9. CASE TimeOut
  BY <1>9 DEF TimeOut, Raise, clock, control, options, cost, answer, Current
<1>10. CASE RecordFailure
  BY <1>10 DEF RecordFailure, Goto, Raise, Write, WriteFails, Breaks, clock, control,
          options, cost, answer, Current
<1>11. CASE Receive
  BY <1>11 DEF Receive, Goto, Raise, Write, WriteFails, Breaks, clock, control,
          options, cost, answer, Current
<1>12. CASE PriceFails
  BY <1>12 DEF PriceFails, Breaks, Raise, clock, control, options, cost, answer,
          Current
<1>13. CASE Validate
  BY <1>13 DEF Validate, Goto, Raise, Write, WriteFails, Breaks, clock, control,
          options, cost, answer, Current
<1>14. CASE Invalidate
  BY <1>14 DEF Invalidate, Raise, Write, WriteFails, Breaks, clock, control, options,
          cost, answer, Current
<1>15. CASE Finalize
  BY <1>15 DEF Finalize, Goto, Row, clock, control, options, cost, answer, Current
<1>16. CASE FinalizeFails
  BY <1>16 DEF FinalizeFails, Raise, Breaks, Row, clock, control, options, cost,
          answer, Current
<1>17. CASE RotateKey
  BY <1>17 DEF RotateKey, HookRetry, NextAttempt, Raise, Decide, Write, Aside, clock,
          control, options, cost, answer, Current
<1>18. CASE StopTrying
  BY <1>18 DEF StopTrying, GiveUp, Raise, Decide, Write, Aside, clock, control,
          options, cost, answer, Current
<1>19. CASE RunOut
  BY <1>19 DEF RunOut, NoTimeToRetry, Raise, Decide, Write, Aside, clock, control,
          options, cost, answer, Current
<1>20. CASE TryAgain
  BY <1>20 DEF TryAgain, Retry, NextAttempt, Decide, Write, Aside, clock, control,
          options, cost, answer, Current
<1>21. CASE PassOn
  BY <1>21 DEF PassOn, PassDeadline, Raise, Aside, clock, control, options, cost,
          answer, Current
<1>22. CASE OnErrorRaises
  BY <1>22 DEF OnErrorRaises, Breaks, Raise, Aside, clock, control, options, cost,
          answer, Current
<1>23. CASE DecisionLost
  BY <1>23 DEF DecisionLost, WriteFails, Breaks, Raise, Aside, clock, control,
          options, cost, answer, Current
<1>24. CASE OnRetryRaises
  BY <1>24 DEF OnRetryRaises, Breaks, Raise, Aside, clock, control, options, cost,
          answer, Current
<1>25. CASE Accept
  BY <1>25 DEF Accept, Return, Goto, Raise, Priced, Covers, clock, control, options,
          cost, answer, Current
<1>26. CASE Downgrade
  BY <1>26 DEF Downgrade, Raise, clock, control, options, cost, answer, Current
<1>27. CASE FallBack
  BY <1>27 DEF FallBack, NextModel, clock, control, options, cost, answer, Current
<1>28. CASE OnFallbackRaises
  BY <1>28 DEF OnFallbackRaises, Breaks, Raise, Aside, clock, control, options, cost,
          answer, Current
<1>29. CASE LeaveChain
  BY <1>29 DEF LeaveChain, Surrender, Raise, Aside, clock, control, options, cost,
          answer, Current
<1>30. CASE Report
  BY <1>30 DEF Report, Goto, Row, Failed, Priced, Covers, clock, control, options,
          cost, answer, Current
<1>31. CASE Provider
  BY <1>31 DEF Provider, Answered, Refused, Goto, Raise, clock, control, options,
          cost, answer, Current
<1>32. CASE DeadlinePasses
  BY <1>32 DEF DeadlinePasses, Elapse, clock, control, options, cost, answer, Current
<1>33. CASE Cancel
  BY <1>33 DEF Cancel, Goto, Aside, clock, control, options, cost, answer, Current
<1>34. CASE UNCHANGED vars
  BY <1>34 DEF vars, clock, control, options, cost, answer, Current
<1>35. CASE Work
  BY <1>1, <1>2, <1>3, <1>4, <1>5, <1>6, <1>7, <1>8, <1>9, <1>10, <1>11,
     <1>12, <1>13, <1>14, <1>15, <1>16, <1>17, <1>18, <1>19, <1>20, <1>21,
     <1>22, <1>23, <1>24, <1>25, <1>26, <1>27, <1>28, <1>29, <1>30, <1>35 DEF Work
<1>36. Next \/ UNCHANGED vars
  OBVIOUS
<1> QED BY <1>35, <1>31, <1>32, <1>33, <1>34, <1>36 DEF Next

LEMMA PricesStep ==
  ASSUME Inv, [Next]_vars
  PROVE  Prices'
<1>0. Prices /\ ordinal \in Nat /\ HasOrdinal /\ AskedStands
  BY TypeParts DEF Inv, Places
<1> USE <1>0 DEF Prices, HasOrdinal, Busy, AskedStands, Current
<1>1. CASE Begin
  BY <1>1 DEF Begin, cost
<1>2. CASE Ask
  BY <1>2 DEF Ask
<1>3. CASE RecordFailure
  BY <1>3 DEF RecordFailure
<1>4. CASE Validate
  BY <1>4 DEF Validate
<1>5. CASE Invalidate
  BY <1>5 DEF Invalidate
<1>6. CASE UNCHANGED <<ordinal, asked, observed>>
  BY <1>6
<1>7. StartModel \/ AnswerFromCache \/ EnterPath \/ EnterFails \/ TooLate \/
      NoTimeToAsk \/ TimeOut \/ Receive \/ PriceFails \/ Finalize \/
      FinalizeFails \/ RotateKey \/ StopTrying \/ RunOut \/ TryAgain \/ PassOn \/
      OnErrorRaises \/ DecisionLost \/ OnRetryRaises \/ Accept \/ Downgrade \/
      FallBack \/ OnFallbackRaises \/ LeaveChain \/ Report \/ Provider \/ Cancel \/
      DeadlinePasses \/ UNCHANGED vars => UNCHANGED <<ordinal, asked, observed>>
  BY DEF StartModel, AnswerFromCache, EnterPath, EnterFails, TooLate, NoTimeToAsk,
         TimeOut, Receive, PriceFails, Finalize, FinalizeFails, RotateKey,
         StopTrying, RunOut, TryAgain, PassOn, OnErrorRaises, DecisionLost,
         OnRetryRaises, Accept, Downgrade, FallBack, OnFallbackRaises, LeaveChain,
         Report, Provider, Cancel, DeadlinePasses, Answered, Refused, Aside, cost,
         answer, vars
<1>8. CASE Work
  BY <1>1, <1>2, <1>3, <1>4, <1>5, <1>6, <1>7, <1>8 DEF Work
<1>9. CASE Provider \/ DeadlinePasses \/ Cancel \/ UNCHANGED vars
  BY <1>6, <1>7, <1>9
<1>10. Next \/ UNCHANGED vars
  OBVIOUS
<1> QED BY <1>8, <1>9, <1>10 DEF Next

LEMMA ResultStep ==
  ASSUME Inv, [Next]_vars
  PROVE  ResultType'
<1>0. Prices /\ ordinal \in Nat /\ ResultType
  BY TypeParts DEF Inv, Places
<1> USE <1>0 DEF Prices, ResultType, Current
<1>1. CASE Begin
  BY <1>1 DEF Begin, answer
<1>2. CASE AnswerFromCache
  BY <1>2 DEF AnswerFromCache
<1>3. CASE Accept
  BY <1>3 DEF Accept, Priced, Covers
<1>4. CASE Report
  BY <1>4 DEF Report, Failed, Priced, Covers, NoResult
<1>5. CASE UNCHANGED <<ordinal, result>>
  BY <1>5
<1>6. StartModel \/ EnterPath \/ EnterFails \/ TooLate \/ NoTimeToAsk \/ Ask \/
      TimeOut \/ RecordFailure \/ Receive \/ PriceFails \/ Validate \/
      Invalidate \/ Finalize \/ FinalizeFails \/ RotateKey \/ StopTrying \/
      RunOut \/ TryAgain \/ PassOn \/ OnErrorRaises \/ DecisionLost \/
      OnRetryRaises \/ Downgrade \/ FallBack \/ OnFallbackRaises \/ LeaveChain \/
      Provider \/ Cancel \/ DeadlinePasses \/ UNCHANGED vars => UNCHANGED <<ordinal, result>>
  BY DEF StartModel, EnterPath, EnterFails, TooLate, NoTimeToAsk, Ask, TimeOut,
         RecordFailure, Receive, PriceFails, Validate, Invalidate, Finalize,
         FinalizeFails, RotateKey, StopTrying, RunOut, TryAgain, PassOn,
         OnErrorRaises, DecisionLost, OnRetryRaises, Downgrade, FallBack,
         OnFallbackRaises, LeaveChain, Provider, Cancel, DeadlinePasses, Answered,
         Refused, Aside, cost, answer, vars
<1>7. CASE Work
  BY <1>1, <1>2, <1>3, <1>4, <1>5, <1>6, <1>7 DEF Work
<1>8. CASE Provider \/ DeadlinePasses \/ Cancel \/ UNCHANGED vars
  BY <1>5, <1>6, <1>8
<1>9. Next \/ UNCHANGED vars
  OBVIOUS
<1> QED BY <1>7, <1>8, <1>9 DEF Next

\* The rows the call writes are well-typed.
LEMMA RowType ==
  ASSUME TypeOK, NEW ok \in BOOLEAN
  PROVE  /\ Append(rows, Row(ok)) \in Seq(RowRecord)
         /\ Append(rows, [Row(ok) EXCEPT !.path = "responses"]) \in Seq(RowRecord)
<1>1. Row(ok) \in RowRecord /\ [Row(ok) EXCEPT !.path = "responses"] \in RowRecord
  BY DEF TypeOK, Row, RowRecord, Paths
<1> QED BY <1>1 DEF TypeOK

LEMMA RowsTypeStep ==
  ASSUME Inv, [Next]_vars
  PROVE  rows' \in Seq(RowRecord)
<1>0. /\ rows \in Seq(RowRecord)
      /\ Append(rows, Row(TRUE)) \in Seq(RowRecord)
      /\ Append(rows, Row(FALSE)) \in Seq(RowRecord)
      /\ Append(rows, [Row(TRUE) EXCEPT !.path = "responses"]) \in Seq(RowRecord)
  BY RowType DEF Inv, TypeOK
<1>1. CASE AnswerFromCache
  BY <1>0, <1>1 DEF AnswerFromCache
<1>2. CASE Finalize
  BY <1>0, <1>2 DEF Finalize
<1>3. CASE FinalizeFails
  BY <1>0, <1>3 DEF FinalizeFails
<1>4. CASE Report
  BY <1>0, <1>4 DEF Report
<1>5. CASE UNCHANGED rows
  BY <1>0, <1>5
<1>6. StartModel \/ EnterPath \/ EnterFails \/ Begin \/ TooLate \/ NoTimeToAsk \/
      Ask \/ TimeOut \/ RecordFailure \/ Receive \/ PriceFails \/ Validate \/
      Invalidate \/ RotateKey \/ StopTrying \/ RunOut \/ TryAgain \/ PassOn \/
      OnErrorRaises \/ DecisionLost \/ OnRetryRaises \/ Accept \/ Downgrade \/
      FallBack \/ OnFallbackRaises \/ LeaveChain \/ Provider \/ Cancel \/
      DeadlinePasses \/ UNCHANGED vars => UNCHANGED rows
  BY DEF StartModel, EnterPath, EnterFails, Begin, TooLate, NoTimeToAsk, Ask,
         TimeOut, RecordFailure, Receive, PriceFails, Validate, Invalidate,
         RotateKey, StopTrying, RunOut, TryAgain, PassOn, OnErrorRaises,
         DecisionLost, OnRetryRaises, Accept, Downgrade, FallBack, OnFallbackRaises,
         LeaveChain, Provider, Cancel, DeadlinePasses, Answered, Refused, Aside,
         cost, answer, vars
<1>7. CASE Work
  BY <1>1, <1>2, <1>3, <1>4, <1>5, <1>6, <1>7 DEF Work
<1>8. CASE Provider \/ DeadlinePasses \/ Cancel \/ UNCHANGED vars
  BY <1>5, <1>6, <1>8
<1>9. Next \/ UNCHANGED vars
  OBVIOUS
<1> QED BY <1>7, <1>8, <1>9 DEF Next

LEMMA TypeStep ==
  ASSUME Inv, [Next]_vars
  PROVE  TypeOK'
<1>1. Places' /\ Flags' /\ Prices' /\ ResultType' /\ events' \in Seq(EventRecord) /\ rows' \in Seq(RowRecord)
  BY PlacesStep, FlagsStep, PricesStep, ResultStep, EventsType, RowsTypeStep
<1> QED BY <1>1 DEF TypeOK, Places, Flags, Prices, ResultType

LEMMA PlaceStep ==
  ASSUME Inv, [Next]_vars
  PROVE  HasOrdinal' /\ NothingYet' /\ PendingStands' /\ ValidatedStands' /\ AskedStands'
<1> USE KernelAssumption, AttemptAssumption
<1> USE DEF Inv, TypeOK, HasOrdinal, Busy, Ordinary, Over, NothingYet, PendingStands,
            ValidatedStands, AskedStands
<1>1. CASE StartModel
  BY <1>1 DEF StartModel, TryModel, Goto, Raise, clock, control, options, cost,
          answer, Current
<1>2. CASE AnswerFromCache
  BY <1>2 DEF AnswerFromCache, Goto, Row, clock, control, options, cost, answer,
          Current
<1>3. CASE EnterPath
  BY <1>3 DEF EnterPath, Goto, Raise, clock, control, options, cost, answer, Current
<1>4. CASE EnterFails
  BY <1>4 DEF EnterFails, Breaks, Raise, clock, control, options, cost, answer,
          Current
<1>5. CASE Begin
  BY <1>5 DEF Begin, Goto, Raise, Write, WriteFails, Breaks, clock, control, options,
          cost, answer, Current
<1>6. CASE TooLate
  BY <1>6 DEF TooLate, NoAttempt, Raise, clock, control, options, cost, answer,
          Current
<1>7. CASE NoTimeToAsk
  BY <1>7 DEF NoTimeToAsk, Raise, clock, control, options, cost, answer, Current
<1>8. CASE Ask
  BY <1>8 DEF Ask, Goto, clock, control, options, cost, answer, Current
<1>9. CASE TimeOut
  BY <1>9 DEF TimeOut, Raise, clock, control, options, cost, answer, Current
<1>10. CASE RecordFailure
  BY <1>10 DEF RecordFailure, Goto, Raise, Write, WriteFails, Breaks, clock, control,
          options, cost, answer, Current
<1>11. CASE Receive
  BY <1>11 DEF Receive, Goto, Raise, Write, WriteFails, Breaks, clock, control,
          options, cost, answer, Current
<1>12. CASE PriceFails
  BY <1>12 DEF PriceFails, Breaks, Raise, clock, control, options, cost, answer,
          Current
<1>13. CASE Validate
  BY <1>13 DEF Validate, Goto, Raise, Write, WriteFails, Breaks, clock, control,
          options, cost, answer, Current
<1>14. CASE Invalidate
  BY <1>14 DEF Invalidate, Raise, Write, WriteFails, Breaks, clock, control, options,
          cost, answer, Current
<1>15. CASE Finalize
  BY <1>15 DEF Finalize, Goto, Row, clock, control, options, cost, answer, Current
<1>16. CASE FinalizeFails
  BY <1>16 DEF FinalizeFails, Raise, Breaks, Row, clock, control, options, cost,
          answer, Current
<1>17. CASE RotateKey
  BY <1>17 DEF RotateKey, HookRetry, NextAttempt, Raise, Decide, Write, Aside, clock,
          control, options, cost, answer, Current
<1>18. CASE StopTrying
  BY <1>18 DEF StopTrying, GiveUp, Raise, Decide, Write, Aside, clock, control,
          options, cost, answer, Current
<1>19. CASE RunOut
  BY <1>19 DEF RunOut, NoTimeToRetry, Raise, Decide, Write, Aside, clock, control,
          options, cost, answer, Current
<1>20. CASE TryAgain
  BY <1>20 DEF TryAgain, Retry, NextAttempt, Decide, Write, Aside, clock, control,
          options, cost, answer, Current
<1>21. CASE PassOn
  BY <1>21 DEF PassOn, PassDeadline, Raise, Aside, clock, control, options, cost,
          answer, Current
<1>22. CASE OnErrorRaises
  BY <1>22 DEF OnErrorRaises, Breaks, Raise, Aside, clock, control, options, cost,
          answer, Current
<1>23. CASE DecisionLost
  BY <1>23 DEF DecisionLost, WriteFails, Breaks, Raise, Aside, clock, control,
          options, cost, answer, Current
<1>24. CASE OnRetryRaises
  BY <1>24 DEF OnRetryRaises, Breaks, Raise, Aside, clock, control, options, cost,
          answer, Current
<1>25. CASE Accept
  BY <1>25 DEF Accept, Return, Goto, Raise, Priced, Covers, clock, control, options,
          cost, answer, Current
<1>26. CASE Downgrade
  BY <1>26 DEF Downgrade, Raise, clock, control, options, cost, answer, Current
<1>27. CASE FallBack
  BY <1>27 DEF FallBack, NextModel, clock, control, options, cost, answer, Current
<1>28. CASE OnFallbackRaises
  BY <1>28 DEF OnFallbackRaises, Breaks, Raise, Aside, clock, control, options, cost,
          answer, Current
<1>29. CASE LeaveChain
  BY <1>29 DEF LeaveChain, Surrender, Raise, Aside, clock, control, options, cost,
          answer, Current
<1>30. CASE Report
  BY <1>30 DEF Report, Goto, Row, Failed, Priced, Covers, clock, control, options,
          cost, answer, Current
<1>31. CASE Provider
  BY <1>31 DEF Provider, Answered, Refused, Goto, Raise, clock, control, options,
          cost, answer, Current
<1>32. CASE DeadlinePasses
  BY <1>32 DEF DeadlinePasses, Elapse, clock, control, options, cost, answer, Current
<1>33. CASE Cancel
  BY <1>33 DEF Cancel, Goto, Aside, clock, control, options, cost, answer, Current
<1>34. CASE UNCHANGED vars
  BY <1>34 DEF vars, clock, control, options, cost, answer, Current
<1>35. CASE Work
  BY <1>1, <1>2, <1>3, <1>4, <1>5, <1>6, <1>7, <1>8, <1>9, <1>10, <1>11,
     <1>12, <1>13, <1>14, <1>15, <1>16, <1>17, <1>18, <1>19, <1>20, <1>21,
     <1>22, <1>23, <1>24, <1>25, <1>26, <1>27, <1>28, <1>29, <1>30, <1>35 DEF Work
<1>36. Next \/ UNCHANGED vars
  OBVIOUS
<1> QED BY <1>35, <1>31, <1>32, <1>33, <1>34, <1>36 DEF Next

LEMMA RowsStep ==
  ASSUME Inv, [Next]_vars
  PROVE  RowsStand'
<1> USE DEF Inv, TypeOK, Ordinary, Over, RowsStand, Overtaken, ValidatedStands, PendingStands, Busy
<1>1. CASE StartModel
  BY <1>1 DEF StartModel, TryModel, Goto, Raise, clock, control, options, cost,
          answer, Current
<1>2. CASE AnswerFromCache
  BY <1>2 DEF AnswerFromCache, Goto, Row, clock, control, options, cost, answer,
          Current
<1>3. CASE EnterPath
  BY <1>3 DEF EnterPath, Goto, Raise, clock, control, options, cost, answer, Current
<1>4. CASE EnterFails
  BY <1>4 DEF EnterFails, Breaks, Raise, clock, control, options, cost, answer,
          Current
<1>5. CASE Begin
  BY <1>5 DEF Begin, Goto, Raise, Write, WriteFails, Breaks, clock, control, options,
          cost, answer, Current
<1>6. CASE TooLate
  BY <1>6 DEF TooLate, NoAttempt, Raise, clock, control, options, cost, answer,
          Current
<1>7. CASE NoTimeToAsk
  BY <1>7 DEF NoTimeToAsk, Raise, clock, control, options, cost, answer, Current
<1>8. CASE Ask
  BY <1>8 DEF Ask, Goto, clock, control, options, cost, answer, Current
<1>9. CASE TimeOut
  BY <1>9 DEF TimeOut, Raise, clock, control, options, cost, answer, Current
<1>10. CASE RecordFailure
  BY <1>10 DEF RecordFailure, Goto, Raise, Write, WriteFails, Breaks, clock, control,
          options, cost, answer, Current
<1>11. CASE Receive
  BY <1>11 DEF Receive, Goto, Raise, Write, WriteFails, Breaks, clock, control,
          options, cost, answer, Current
<1>12. CASE PriceFails
  BY <1>12 DEF PriceFails, Breaks, Raise, clock, control, options, cost, answer,
          Current
<1>13. CASE Validate
  BY <1>13 DEF Validate, Goto, Raise, Write, WriteFails, Breaks, clock, control,
          options, cost, answer, Current
<1>14. CASE Invalidate
  BY <1>14 DEF Invalidate, Raise, Write, WriteFails, Breaks, clock, control, options,
          cost, answer, Current
<1>15. CASE Finalize
  BY <1>15 DEF Finalize, Goto, Row, clock, control, options, cost, answer, Current
<1>16. CASE FinalizeFails
  BY <1>16 DEF FinalizeFails, Raise, Breaks, Row, clock, control, options, cost,
          answer, Current
<1>17. CASE RotateKey
  BY <1>17 DEF RotateKey, HookRetry, NextAttempt, Raise, Decide, Write, Aside, clock,
          control, options, cost, answer, Current
<1>18. CASE StopTrying
  BY <1>18 DEF StopTrying, GiveUp, Raise, Decide, Write, Aside, clock, control,
          options, cost, answer, Current
<1>19. CASE RunOut
  BY <1>19 DEF RunOut, NoTimeToRetry, Raise, Decide, Write, Aside, clock, control,
          options, cost, answer, Current
<1>20. CASE TryAgain
  BY <1>20 DEF TryAgain, Retry, NextAttempt, Decide, Write, Aside, clock, control,
          options, cost, answer, Current
<1>21. CASE PassOn
  BY <1>21 DEF PassOn, PassDeadline, Raise, Aside, clock, control, options, cost,
          answer, Current
<1>22. CASE OnErrorRaises
  BY <1>22 DEF OnErrorRaises, Breaks, Raise, Aside, clock, control, options, cost,
          answer, Current
<1>23. CASE DecisionLost
  BY <1>23 DEF DecisionLost, WriteFails, Breaks, Raise, Aside, clock, control,
          options, cost, answer, Current
<1>24. CASE OnRetryRaises
  BY <1>24 DEF OnRetryRaises, Breaks, Raise, Aside, clock, control, options, cost,
          answer, Current
<1>25. CASE Accept
  BY <1>25 DEF Accept, Return, Goto, Raise, Priced, Covers, clock, control, options,
          cost, answer, Current
<1>26. CASE Downgrade
  BY <1>26 DEF Downgrade, Raise, clock, control, options, cost, answer, Current
<1>27. CASE FallBack
  BY <1>27 DEF FallBack, NextModel, clock, control, options, cost, answer, Current
<1>28. CASE OnFallbackRaises
  BY <1>28 DEF OnFallbackRaises, Breaks, Raise, Aside, clock, control, options, cost,
          answer, Current
<1>29. CASE LeaveChain
  BY <1>29 DEF LeaveChain, Surrender, Raise, Aside, clock, control, options, cost,
          answer, Current
<1>30. CASE Report
  BY <1>30 DEF Report, Goto, Row, Failed, Priced, Covers, clock, control, options,
          cost, answer, Current
<1>31. CASE Provider
  BY <1>31 DEF Provider, Answered, Refused, Goto, Raise, clock, control, options,
          cost, answer, Current
<1>32. CASE DeadlinePasses
  BY <1>32 DEF DeadlinePasses, Elapse, clock, control, options, cost, answer, Current
<1>33. CASE Cancel
  BY <1>33 DEF Cancel, Goto, Aside, clock, control, options, cost, answer, Current
<1>34. CASE UNCHANGED vars
  BY <1>34 DEF vars, clock, control, options, cost, answer, Current
<1>35. CASE Work
  BY <1>1, <1>2, <1>3, <1>4, <1>5, <1>6, <1>7, <1>8, <1>9, <1>10, <1>11,
     <1>12, <1>13, <1>14, <1>15, <1>16, <1>17, <1>18, <1>19, <1>20, <1>21,
     <1>22, <1>23, <1>24, <1>25, <1>26, <1>27, <1>28, <1>29, <1>30, <1>35 DEF Work
<1>36. Next \/ UNCHANGED vars
  OBVIOUS
<1> QED BY <1>35, <1>31, <1>32, <1>33, <1>34, <1>36 DEF Next

LEMMA NextInv == Inv /\ [Next]_vars => Inv'
BY TypeStep, PlaceStep, RowsStep DEF Inv

LEMMA AlwaysInv == Spec => []Inv
BY InitInv, NextInv, PTL DEF Spec

-----------------------------------------------------------------------------
(* Theorems *)

\* Types, for every chain of models and number of retries.
THEOREM AttemptsTypeCorrect == Spec => []TypeOK
<1>1. Inv => TypeOK
  BY DEF Inv
<1> QED BY <1>1, AlwaysInv, PTL

\* A cost that is said to cover every attempt leaves out none that a provider
\* was asked for, also not one that is paid for after the call.
LEMMA PricedCovers ==
  ASSUME Inv, Covers
  PROVE  asked \subseteq observed
BY DEF Inv, TypeOK, Covers

LEMMA CoverageStep ==
  Inv /\ CoverageIsExact /\ [Next]_vars => CoverageIsExact'
<1> SUFFICES ASSUME Inv, CoverageIsExact, [Next]_vars
             PROVE  CoverageIsExact'
  OBVIOUS
<1>1. CASE Accept
  BY <1>1, PricedCovers DEF Accept, Return, Goto, Raise, Priced, CoverageIsExact, Inv,
     NothingYet, NoResult, Over, cost
<1>2. CASE Report
  BY <1>2, PricedCovers DEF Report, Failed, Priced, NoResult, CoverageIsExact, cost
<1>3. CASE AnswerFromCache
  BY <1>3 DEF AnswerFromCache, CoverageIsExact
<1>4. CASE Ask
  BY <1>4 DEF Ask, Inv, NothingYet, NoResult, Over, CoverageIsExact, answer
<1>5. CASE UNCHANGED <<result, asked>>
  BY <1>5 DEF CoverageIsExact
<1>6. StartModel \/ EnterPath \/ EnterFails \/ Begin \/ TooLate \/ NoTimeToAsk \/ TimeOut
      \/ RecordFailure \/ Receive \/ PriceFails \/ Validate \/ Invalidate \/ Finalize
      \/ FinalizeFails \/ RotateKey \/ StopTrying \/ RunOut \/ TryAgain \/ PassOn
      \/ OnErrorRaises \/ DecisionLost \/ OnRetryRaises \/ Downgrade \/ FallBack
      \/ OnFallbackRaises \/ LeaveChain \/ Provider \/ Cancel \/ DeadlinePasses
      \/ UNCHANGED vars => UNCHANGED <<result, asked>>
  BY DEF StartModel, EnterPath, EnterFails, Begin, TooLate, NoTimeToAsk, TimeOut,
         RecordFailure, Receive, PriceFails, Validate, Invalidate, Finalize, FinalizeFails,
         RotateKey, StopTrying, RunOut, TryAgain, PassOn, OnErrorRaises, DecisionLost,
         OnRetryRaises, Downgrade, FallBack, OnFallbackRaises, LeaveChain, Provider,
         Answered, Refused, Cancel, DeadlinePasses, Aside, cost, answer, vars
<1>7. CASE Work
  BY <1>1, <1>2, <1>3, <1>4, <1>5, <1>6, <1>7 DEF Work
<1>8. CASE Provider \/ DeadlinePasses \/ Cancel \/ UNCHANGED vars
  BY <1>5, <1>6, <1>8
<1>9. Next \/ UNCHANGED vars
  OBVIOUS
<1> QED BY <1>7, <1>8, <1>9 DEF Next

THEOREM AttemptsCoverageIsExact == Spec => []CoverageIsExact
<1>1. Init => CoverageIsExact
  BY DEF Init, CoverageIsExact, NoResult
<1> QED BY <1>1, AlwaysInv, CoverageStep, PTL DEF Spec

\* A call that is over has one terminal row, or that of the success and, when
\* the deadline passed between them or the route observation raised, that of
\* the error.
THEOREM AttemptsOneTerminalRow == Spec => []OneTerminalRow
<1>1. Inv => OneTerminalRow
  BY DEF Inv, TypeOK, RowsStand, Overtaken, OneTerminalRow, Over, Last
<1> QED BY <1>1, AlwaysInv, PTL

\* After a response validated the call starts no attempt and turns to no other
\* model, whatever raises (on the instructor path: when nothing raises).
THEOREM AttemptsValidatedIsFinal == Spec => ValidatedIsFinal
<1> DEFINE Final == validated /\ (raised' = 0 \/ path # "instructor")
                      => ordinal' = ordinal /\ model' = model
<1>1. Inv /\ [Next]_vars => [Final]_vars
  <2> SUFFICES ASSUME Inv, Next, validated, raised' = 0 \/ path # "instructor"
               PROVE  ordinal' = ordinal /\ model' = model
    OBVIOUS
  <2>1. at \notin {"model", "entering", "attempt", "asking", "waiting", "broken",
                   "answered", "received"}
    BY DEF Inv, ValidatedStands, Over
  <2>2. ~Begin
    BY <2>1 DEF Begin
  <2>3. ~FallBack
    <3> SUFFICES ASSUME FallBack PROVE FALSE
      OBVIOUS
    <3>1. at = "caught" /\ error \in Ordinary /\ UNCHANGED raised
      BY DEF FallBack, NextModel
    <3>2. raised \in Nat
      BY DEF Inv, TypeOK
    <3> QED BY <3>1, <3>2 DEF Inv, ValidatedStands, Over, Ordinary
  <2>4. UNCHANGED <<ordinal, model>> \/ Begin \/ FallBack
    BY DEF Next, Work, StartModel, TryModel, AnswerFromCache, EnterPath, EnterFails,
           TooLate, NoAttempt, NoTimeToAsk, Ask, TimeOut, RecordFailure, Receive,
           PriceFails, Validate, Invalidate, Finalize, FinalizeFails, RotateKey,
           HookRetry, NextAttempt, StopTrying, GiveUp, RunOut, NoTimeToRetry, TryAgain,
           Retry, PassOn, PassDeadline, OnErrorRaises, DecisionLost, OnRetryRaises,
           Accept, Return, Downgrade, OnFallbackRaises, LeaveChain, Surrender, Report,
           Provider, Answered, Refused, Cancel, DeadlinePasses, Elapse, Goto, Raise,
           Aside, control
  <2> QED BY <2>2, <2>3, <2>4
<1> QED BY <1>1, AlwaysInv, PTL DEF Spec, ValidatedIsFinal

-----------------------------------------------------------------------------
(* The history of the attempts *)

\* How one event follows another: within an attempt, or from the decision on
\* an attempt to the one it leads to.
Failing == {"validation_failed", "execution_failed"}

Same(a, b) == a.n = b.n /\ a.model = b.model /\ a.path = b.path

Obeys(a, b) ==
  /\ b.n = a.n + 1
  /\ \/ a.decision = "retry" /\ b.model = a.model /\ b.path = a.path
     \/ a.decision = "fallback" /\ b.model > a.model
     \/ a.decision = "fallback" /\ b.model = a.model /\ a.path = "native" /\ b.path = "instructor"

Link(a, b) ==
  \/ a.type = "started" /\ b.type \in {"received", "execution_failed"} /\ Same(a, b)
  \/ a.type = "received" /\ b.type \in {"validated", "validation_failed"} /\ Same(a, b)
  \/ a.type \in Failing /\ b.type = "recovery_decided" /\ Same(a, b)
  \/ a.type = "recovery_decided" /\ b.type = "started" /\ Obeys(a, b)

\* A history that no failing write has torn.
History(s) ==
  /\ Len(s) > 0 => s[1].type = "started" /\ s[1].n = 0
  /\ \A i \in 1 .. Len(s) - 1 : Link(s[i], s[i + 1])
  /\ \A i, j \in 1 .. Len(s) : i < j => s[i].n <= s[j].n
  /\ \A i \in 1 .. Len(s) : \A n \in 0 .. s[i].n :
       \E k \in 1 .. Len(s) : s[k].n = n /\ s[k].type = "started"

\* Where the call can stand when e is the last event of its history.
Won(e) == rows = <<[ok |-> TRUE, model |-> e.model, path |-> e.path]>>

Tip(e) ==
  /\ e.n = Current
  /\ at \in Busy => e.model = model /\ e.path = path
  /\ at \in {"asking", "waiting", "answered", "broken"} => e.type = "started"
  /\ at = "received" => e.type = "received"
  /\ at \in {"finalizing", "returned"} => e.type = "validated"
  /\ at = "returned" => Won(e)
  /\ at = "success" /\ ~result.cached => e.type = "validated" /\ Won(e)
  /\ at = "failed" /\ pending => e.type \in Failing
  /\ at \in {"model", "entering", "attempt"} => e.type = "recovery_decided"
  /\ at \in {"model", "entering"} => e.decision = "fallback" /\ e.model < model
  /\ at = "attempt" => Obeys(e, [n |-> ordinal, model |-> model, path |-> path])
  /\ at = "caught" /\ error \in Ordinary \cup {"schema"} /\ model < Models =>
       e.type = "recovery_decided" /\ e.decision = "fallback" /\ e.model <= model
  /\ at = "caught" /\ error = "schema" /\ ~strict =>
       /\ e.type = "recovery_decided" /\ e.decision = "fallback"
       /\ e.model = model /\ e.path = "native"

\* Only the native path downgrades, a failure without a record is not repaired,
\* and a fresh answer is that of an attempt.
Repairs ==
  /\ at \in {"broken", "failed", "caught"} /\ error = "schema" => path = "native"
  /\ at = "failed" /\ ~pending => error \in {"deadline", "final"}
  /\ at = "success" /\ ~result.cached => ordinal > 0

HistoryStands ==
  raised = 0 =>
    /\ History(events) /\ Repairs
    /\ events = <<>> <=> ordinal = 0
    /\ ordinal > 0 => Tip(events[Len(events)])

\* A history grows by an event that follows its last one.
LEMMA HistoryBegins ==
  ASSUME NEW e \in EventRecord, e.type = "started", e.n = 0
  PROVE  History(<<e>>)
BY DEF History

LEMMA HistoryGrows ==
  ASSUME NEW s \in Seq(EventRecord), Len(s) > 0, History(s),
         NEW e \in EventRecord, Link(s[Len(s)], e)
  PROVE  /\ s \o <<e>> \in Seq(EventRecord) /\ s \o <<e>> # <<>>
         /\ (s \o <<e>>)[Len(s \o <<e>>)] = e
         /\ History(s \o <<e>>)
<1> DEFINE t == s \o <<e>>
           N == Len(s)
<1>1. /\ N \in Nat /\ t \in Seq(EventRecord) /\ Len(t) = N + 1
      /\ \A i \in 1 .. N : t[i] = s[i]
      /\ t[N + 1] = e
  OBVIOUS
<1>2. /\ \A i \in 1 .. N : s[i] \in EventRecord
      /\ \A i \in 1 .. N : s[i].n \in Nat
      /\ e.n \in Nat
  <2>1. \A x \in EventRecord : x.n \in Nat
    BY DEF EventRecord
  <2>2. \A i \in 1 .. N : s[i] \in EventRecord
    BY ElementOfSeq
  <2> QED BY <2>1, <2>2
<1> HIDE DEF t
<1>3. e.n \in {s[N].n, s[N].n + 1} /\ (e.n = s[N].n + 1 => e.type = "started")
  BY <1>1, <1>2 DEF Link, Same, Obeys
<1>4. t[1].type = "started" /\ t[1].n = 0
  BY <1>1 DEF History
<1>5. \A i \in 1 .. N : Link(t[i], t[i + 1])
  <2> TAKE i \in 1 .. N
  <2>1. CASE i = N
    BY <2>1, <1>1
  <2>2. CASE i # N
    <3>1. i \in 1 .. N - 1 /\ t[i] = s[i] /\ t[i + 1] = s[i + 1]
      BY <2>2, <1>1
    <3> QED BY <3>1 DEF History
  <2> QED BY <2>1, <2>2
<1>6. \A i, j \in 1 .. N + 1 : i < j => t[i].n <= t[j].n
  <2>1. \A i \in 1 .. N : s[i].n <= s[N].n
    BY <1>1, <1>2 DEF History
  <2> TAKE i, j \in 1 .. N + 1
  <2> HAVE i < j
  <2>2. i \in 1 .. N /\ t[i] = s[i]
    BY <1>1
  <2>3. CASE j = N + 1
    BY <2>1, <2>2, <2>3, <1>1, <1>2, <1>3
  <2>4. CASE j # N + 1
    <3>1. j \in 1 .. N /\ t[j] = s[j]
      BY <2>4, <1>1
    <3> QED BY <2>2, <3>1 DEF History
  <2> QED BY <2>3, <2>4
<1>7. \A i \in 1 .. N + 1 : \A n \in 0 .. t[i].n :
        \E k \in 1 .. N + 1 : t[k].n = n /\ t[k].type = "started"
  <2> TAKE i \in 1 .. N + 1
  <2> TAKE n \in 0 .. t[i].n
  <2>1. ASSUME NEW h \in 1 .. N, n \in 0 .. s[h].n
        PROVE  \E k \in 1 .. N + 1 : t[k].n = n /\ t[k].type = "started"
    <3>1. PICK k \in 1 .. N : s[k].n = n /\ s[k].type = "started"
      BY <2>1 DEF History
    <3> QED BY <3>1, <1>1
  <2>2. CASE i \in 1 .. N
    BY <2>1, <2>2, <1>1
  <2>3. CASE i = N + 1 /\ n <= s[N].n
    BY <2>1, <2>3, <1>1, <1>2
  <2>4. CASE i = N + 1 /\ ~(n <= s[N].n)
    <3>1. n = e.n /\ e.type = "started"
      BY <2>4, <1>1, <1>2, <1>3
    <3> QED BY <3>1, <1>1
  <2> QED BY <2>2, <2>3, <2>4, <1>1, <1>2
<1>8. History(t)
  BY <1>1, <1>4, <1>5, <1>6, <1>7 DEF History
<1> QED BY <1>1, <1>8 DEF t

\* Nothing that raised is forgotten.
LEMMA RaisedGrows ==
  ASSUME Inv, [Next]_vars, raised' = 0
  PROVE  raised = 0
<1>1. raised \in Nat
  BY DEF Inv, TypeOK
<1>2. raised' = raised \/ raised' = raised + 1
  BY DEF Next, Work, StartModel, AnswerFromCache, EnterPath, EnterFails, Begin, TooLate,
         NoTimeToAsk, Ask, TimeOut, RecordFailure, Receive, PriceFails, Validate,
         Invalidate, Finalize, FinalizeFails, RotateKey, StopTrying, RunOut, TryAgain,
         PassOn, OnErrorRaises, DecisionLost, OnRetryRaises, Accept, Downgrade, FallBack,
         OnFallbackRaises, LeaveChain, Report, Provider, Answered, Refused, Cancel,
         DeadlinePasses, Decide, Write, WriteFails, Breaks, vars
<1> QED BY <1>1, <1>2

LEMMA NothingRaised ==
  ASSUME Inv, [Next]_vars, raised' = 0, NEW f
  PROVE  ~Breaks(f)
BY RaisedGrows DEF Breaks

LEMMA RepairsStep ==
  ASSUME Inv, [Next]_vars, raised' = 0, Repairs
  PROVE  Repairs'
<1> USE DEF Inv, TypeOK, Places, Flags, Repairs, Ordinary, Over, Busy, PendingStands, ValidatedStands, HasOrdinal
<1>0. \A f : ~Breaks(f)
  BY NothingRaised
<1>1. CASE StartModel
  BY <1>1 DEF StartModel, TryModel, Goto, Raise, clock, control, options, cost, answer
<1>2. CASE AnswerFromCache
  BY <1>2 DEF AnswerFromCache, Goto, Row, clock, control, options, cost, answer
<1>3. CASE EnterPath
  BY <1>3 DEF EnterPath, Goto, Raise, clock, control, options, cost, answer
<1>5. CASE Begin
  BY <1>5, <1>0 DEF Begin, Goto, Raise, Write, WriteFails, clock, control, options,
          cost, answer
<1>6. CASE TooLate
  BY <1>6 DEF TooLate, NoAttempt, Raise, clock, control, options, cost, answer
<1>7. CASE NoTimeToAsk
  BY <1>7 DEF NoTimeToAsk, Raise, clock, control, options, cost, answer
<1>8. CASE Ask
  BY <1>8 DEF Ask, Goto, clock, control, options, cost, answer
<1>9. CASE TimeOut
  BY <1>9 DEF TimeOut, Raise, clock, control, options, cost, answer
<1>10. CASE RecordFailure
  BY <1>10, <1>0 DEF RecordFailure, Goto, Raise, Write, WriteFails, clock, control,
          options, cost, answer
<1>11. CASE Receive
  BY <1>11, <1>0 DEF Receive, Goto, Raise, Write, WriteFails, clock, control,
          options, cost, answer
<1>13. CASE Validate
  BY <1>13, <1>0 DEF Validate, Goto, Raise, Write, WriteFails, clock, control,
          options, cost, answer
<1>14. CASE Invalidate
  BY <1>14, <1>0 DEF Invalidate, Raise, Write, WriteFails, clock, control, options,
          cost, answer
<1>15. CASE Finalize
  BY <1>15 DEF Finalize, Goto, Row, clock, control, options, cost, answer
<1>16. CASE FinalizeFails
  BY <1>16 DEF FinalizeFails, Raise, Row, clock, control, options, cost,
          answer
<1>17. CASE RotateKey
  BY <1>17 DEF RotateKey, HookRetry, NextAttempt, Raise, Decide, Write, Aside, clock,
          control, options, cost, answer
<1>18. CASE StopTrying
  BY <1>18 DEF StopTrying, GiveUp, Raise, Decide, Write, Aside, clock, control,
          options, cost, answer
<1>19. CASE RunOut
  BY <1>19 DEF RunOut, NoTimeToRetry, Raise, Decide, Write, Aside, clock, control,
          options, cost, answer
<1>20. CASE TryAgain
  BY <1>20 DEF TryAgain, Retry, NextAttempt, Decide, Write, Aside, clock, control,
          options, cost, answer
<1>21. CASE PassOn
  BY <1>21 DEF PassOn, PassDeadline, Raise, Aside, clock, control, options, cost,
          answer
<1>25. CASE Accept
  BY <1>25 DEF Accept, Return, Goto, Raise, Priced, clock, control, options,
          cost, answer
<1>26. CASE Downgrade
  BY <1>26 DEF Downgrade, Raise, clock, control, options, cost, answer
<1>27. CASE FallBack
  BY <1>27 DEF FallBack, NextModel, clock, control, options, cost, answer
<1>29. CASE LeaveChain
  BY <1>29 DEF LeaveChain, Surrender, Raise, Aside, clock, control, options, cost,
          answer
<1>30. CASE Report
  BY <1>30 DEF Report, Goto, Row, Failed, Priced, clock, control, options,
          cost, answer
<1>31. CASE Provider
  BY <1>31 DEF Provider, Answered, Refused, Goto, Raise, clock, control, options,
          cost, answer
<1>32. CASE DeadlinePasses
  BY <1>32 DEF DeadlinePasses, Elapse, clock, control, options, cost, answer
<1>33. CASE Cancel
  BY <1>33 DEF Cancel, Goto, Aside, clock, control, options, cost, answer
<1>34. CASE UNCHANGED vars
  BY <1>34 DEF vars, clock, control, options, cost, answer
<1>4. ~(EnterFails \/ PriceFails \/ OnErrorRaises \/ DecisionLost \/ OnRetryRaises \/ OnFallbackRaises)
  BY <1>0 DEF EnterFails, PriceFails, OnErrorRaises, DecisionLost, OnRetryRaises,
              OnFallbackRaises, WriteFails
<1>35. CASE Work
  BY <1>1, <1>2, <1>3, <1>4, <1>5, <1>6, <1>7, <1>8, <1>9, <1>10, <1>11,
     <1>13, <1>14, <1>15, <1>16, <1>17, <1>18, <1>19, <1>20, <1>21,
     <1>25, <1>26, <1>27, <1>29, <1>30, <1>35 DEF Work
<1>36. Next \/ UNCHANGED vars
  OBVIOUS
<1> QED BY <1>35, <1>31, <1>32, <1>33, <1>34, <1>36 DEF Next

\* The steps that write no event, when nothing raises.
Quiet ==
  \/ StartModel \/ AnswerFromCache \/ EnterPath \/ TooLate \/ NoTimeToAsk \/ Ask \/ TimeOut
  \/ Receive /\ UNCHANGED events
  \/ Finalize \/ FinalizeFails
  \/ StopTrying /\ ~pending
  \/ PassOn \/ Accept \/ Downgrade \/ FallBack \/ LeaveChain \/ Report
  \/ Provider \/ Cancel \/ DeadlinePasses \/ UNCHANGED vars

LEMMA QuietStep ==
  ASSUME Quiet, events \in Seq(EventRecord)
  PROVE  events' = events /\ ordinal' = ordinal
<1>1. CASE StopTrying /\ ~pending
  <2>1. events' = events \o <<>> /\ ordinal' = ordinal
    BY <1>1 DEF StopTrying, Decide, Decision, Write, Aside
  <2> QED BY <2>1
<1>2. CASE ~(StopTrying /\ ~pending)
  BY <1>2 DEF Quiet, StartModel, AnswerFromCache, EnterPath, TooLate, NoTimeToAsk, Ask,
              TimeOut, Receive, Finalize, FinalizeFails, PassOn, Accept, Downgrade, FallBack,
              LeaveChain, Report, Provider, Answered, Refused, Cancel, DeadlinePasses, Aside,
              vars
<1> QED BY <1>1, <1>2

LEMMA TipStands ==
  ASSUME Inv, Quiet, \A f : ~Breaks(f), Repairs, Repairs', ordinal > 0, ordinal' = ordinal,
         NEW CONSTANT e \in EventRecord, Tip(e)
  PROVE  Tip(e)'
<1> USE KernelAssumption
<1> USE DEF Inv, TypeOK, Tip, Obeys, Won, Repairs, Ordinary, Over, Busy, PendingStands,
            ValidatedStands, HasOrdinal, Current, EventRecord, Model
<1>1. CASE StartModel
  BY <1>1 DEF StartModel, TryModel, Goto, Raise, clock, control, options, cost, answer
<1>2. CASE AnswerFromCache
  BY <1>2 DEF AnswerFromCache, Goto, Row, clock, control, options, cost, answer
<1>3. CASE EnterPath
  BY <1>3 DEF EnterPath, Goto, Raise, clock, control, options, cost, answer
<1>6. CASE TooLate
  BY <1>6 DEF TooLate, NoAttempt, Raise, clock, control, options, cost, answer
<1>7. CASE NoTimeToAsk
  BY <1>7 DEF NoTimeToAsk, Raise, clock, control, options, cost, answer
<1>8. CASE Ask
  BY <1>8 DEF Ask, Goto, clock, control, options, cost, answer
<1>9. CASE TimeOut
  BY <1>9 DEF TimeOut, Raise, clock, control, options, cost, answer
<1>11. CASE Receive /\ UNCHANGED events
  <2>1. at = "answered" /\ path = "instructor" /\ Raise("failed", "final")
        /\ UNCHANGED <<clock, options, path, reply, validated, ordinal, pending, cost, answer>>
    <3>1. ~Write(<<Happened("received")>>)
      <4>1. events \o <<Happened("received")>> # events
        OBVIOUS
      <4> QED BY <1>11, <4>1 DEF Write
    <3> QED BY <1>11, <3>1 DEF Receive, WriteFails
  <2> QED BY <2>1 DEF Raise, clock, options, cost, answer
<1>15. CASE Finalize
  <2>1. rows = <<>>
    BY <1>15 DEF Finalize, RowsStand
  <2>2. rows' = <<Row(TRUE)>>
    BY <1>15, <2>1 DEF Finalize
  <2>3. rows' = <<[ok |-> TRUE, model |-> e.model, path |-> e.path]>>
    BY <1>15, <2>2 DEF Finalize, Row
  <2>4. /\ at' = "returned" /\ UNCHANGED <<model, error, strict, path, pending, ordinal, result>>
        /\ at = "finalizing"
    BY <1>15 DEF Finalize, Goto, options
  <2> HIDE DEF Won
  <2>5. Won(e)'
    BY <2>3 DEF Won
  <2> QED BY <2>4, <2>5
<1>16. CASE FinalizeFails
  BY <1>16 DEF FinalizeFails, Raise, Row, clock, control, options, cost,
          answer
<1>18. CASE StopTrying /\ ~pending
  BY <1>18 DEF StopTrying, GiveUp, Raise, Decide, Write, Aside, clock, control,
          options, cost, answer
<1>21. CASE PassOn
  BY <1>21 DEF PassOn, PassDeadline, Raise, Aside, clock, control, options, cost,
          answer
<1>25. CASE Accept
  BY <1>25 DEF Accept, Return, Goto, Raise, Priced, clock, control, options,
          cost, answer
<1>26. CASE Downgrade
  BY <1>26 DEF Downgrade, Raise, clock, control, options, cost, answer
<1>27. CASE FallBack
  BY <1>27 DEF FallBack, NextModel, clock, control, options, cost, answer
<1>29. CASE LeaveChain
  BY <1>29 DEF LeaveChain, Surrender, Raise, Aside, clock, control, options, cost,
          answer
<1>30. CASE Report
  BY <1>30 DEF Report, Goto, Row, Failed, Priced, clock, control, options,
          cost, answer
<1>31. CASE Provider
  BY <1>31 DEF Provider, Answered, Refused, Goto, Raise, clock, control, options,
          cost, answer
<1>32. CASE DeadlinePasses
  BY <1>32 DEF DeadlinePasses, Elapse, clock, control, options, cost, answer
<1>33. CASE Cancel
  BY <1>33 DEF Cancel, Goto, Aside, clock, control, options, cost, answer
<1>34. CASE UNCHANGED vars
  BY <1>34 DEF vars, clock, control, options, cost, answer
<1> QED BY <1>1, <1>2, <1>3, <1>6, <1>7, <1>8, <1>9, <1>11, <1>15, <1>16, <1>18,
     <1>21, <1>25, <1>26, <1>27, <1>29, <1>30, <1>31, <1>32, <1>33, <1>34 DEF Quiet

\* What an attempt writes of itself follows what it wrote before.
LEMMA Extends ==
  ASSUME events \in Seq(EventRecord), events # <<>>, History(events),
         NEW CONSTANT e \in EventRecord, Link(events[Len(events)], e),
         events' = events \o <<e>>
  PROVE  History(events)' /\ events' # <<>> /\ events'[Len(events')] = e
<1>1. Len(events) > 0
  OBVIOUS
<1>2. /\ events \o <<e>> # <<>>
      /\ (events \o <<e>>)[Len(events \o <<e>>)] = e
      /\ History(events \o <<e>>)
  BY <1>1, HistoryGrows
<1>3. History(events') <=> History(events)'
  BY DEF History
<1> QED BY <1>2, <1>3

LEMMA AnEvent ==
  ASSUME TypeOK, ordinal > 0,
         NEW t \in EventTypes, NEW d \in {"none", "retry", "fallback", "exhausted"}
  PROVE  /\ Event(Current, t, d) \in EventRecord
         /\ Event(Current, t, d) =
              [n |-> Current, model |-> model, path |-> path, type |-> t, decision |-> d]
BY DEF TypeOK, Current, Event, EventRecord

\* The first event of an attempt.
LEMMA BeginStands ==
  ASSUME Inv, raised = 0, raised' = 0, HistoryStands, Begin, \A f : ~Breaks(f)
  PROVE  History(events)' /\ events' # <<>> /\ ordinal' > 0 /\ Tip(events[Len(events)])'
<1>1. /\ TypeOK /\ events \in Seq(EventRecord) /\ ordinal \in Nat
      /\ History(events) /\ (events = <<>> <=> ordinal = 0)
      /\ ordinal > 0 => Tip(events[Len(events)])
  BY DEF Inv, TypeOK, HistoryStands
<1>2. Event(ordinal, "started", "none") =
        [n |-> ordinal, model |-> model, path |-> path, type |-> "started", decision |-> "none"]
  BY DEF Event
<1>3. PICK e \in EventRecord : e = Event(ordinal, "started", "none")
  BY <1>1, <1>2 DEF TypeOK, EventRecord, EventTypes
<1>4. /\ at = "attempt" /\ at' = "asking" /\ ordinal' = ordinal + 1
      /\ UNCHANGED <<model, path, result, rows, error, strict>> /\ pending' = FALSE
      /\ events' = events \o <<e>>
  BY <1>3 DEF Begin, WriteFails, Write, Goto, options, answer
<1>5. e.n = ordinal /\ e.model = model /\ e.path = path /\ e.type = "started"
  BY <1>2, <1>3
<1>6. Tip(e)'
  BY <1>1, <1>4, <1>5 DEF Tip, Current, Busy
<1>7. CASE ordinal = 0
  <2>1. events' = <<e>>
    BY <1>1, <1>4, <1>7
  <2>2. History(<<e>>) /\ Len(<<e>>) = 1 /\ <<e>>[1] = e
    BY <1>5, <1>7, HistoryBegins
  <2>3. History(events)'
    <3>1. History(events') <=> History(events)'
      BY DEF History
    <3> QED BY <3>1, <2>1, <2>2
  <2>4. events' # <<>> /\ events'[Len(events')] = e
    BY <2>1
  <2> QED BY <1>1, <1>4, <1>6, <2>3, <2>4
<1>8. CASE ordinal > 0
  <2>1. /\ events[Len(events)].type = "recovery_decided"
        /\ Obeys(events[Len(events)], [n |-> ordinal, model |-> model, path |-> path])
    BY <1>1, <1>4, <1>8 DEF Tip
  <2>2. Link(events[Len(events)], e)
    BY <2>1, <1>5 DEF Link, Obeys
  <2>3. History(events)' /\ events' # <<>> /\ events'[Len(events')] = e
    BY <1>1, <1>4, <1>8, <2>2, Extends
  <2> QED BY <1>1, <1>4, <1>6, <2>3
<1> QED BY <1>1, <1>7, <1>8

\* An attempt writes that its response came, what became of it, or that it
\* failed.
LEMMA ReceiveStands ==
  ASSUME Inv, raised = 0, raised' = 0, HistoryStands, Receive, \A f : ~Breaks(f),
         ~UNCHANGED events
  PROVE  History(events)' /\ events' # <<>> /\ ordinal' > 0 /\ Tip(events[Len(events)])'
<1>1. /\ TypeOK /\ ordinal > 0 /\ ordinal \in Nat /\ events \in Seq(EventRecord)
      /\ History(events) /\ events # <<>> /\ Tip(events[Len(events)])
  BY DEF Inv, TypeOK, HistoryStands, Receive, HasOrdinal, Busy
<1>2. PICK e \in EventRecord : e = Happened("received")
  BY <1>1, AnEvent DEF Happened, EventTypes
<1>3. /\ at = "answered" /\ at' = "received" /\ events' = events \o <<e>>
      /\ UNCHANGED <<model, path, ordinal, result, rows, error, strict, pending>>
  BY <1>2 DEF Receive, WriteFails, Write, Goto, options, answer
<1>4. e.n = Current /\ e.model = model /\ e.path = path /\ e.type = "received"
  BY <1>1, <1>2, AnEvent DEF Happened, EventTypes
<1>5. Link(events[Len(events)], e)
  BY <1>1, <1>3, <1>4 DEF Tip, Link, Same, Busy
<1>6. Tip(e)'
  BY <1>1, <1>3, <1>4 DEF Tip, Current, Busy
<1> QED BY <1>1, <1>3, <1>5, <1>6, Extends

LEMMA ValidateStands ==
  ASSUME Inv, raised = 0, raised' = 0, HistoryStands, Validate, \A f : ~Breaks(f)
  PROVE  History(events)' /\ events' # <<>> /\ ordinal' > 0 /\ Tip(events[Len(events)])'
<1>1. /\ TypeOK /\ ordinal > 0 /\ ordinal \in Nat /\ events \in Seq(EventRecord)
      /\ History(events) /\ events # <<>> /\ Tip(events[Len(events)])
  BY DEF Inv, TypeOK, HistoryStands, Validate, HasOrdinal, Busy
<1>2. PICK e \in EventRecord : e = Happened("validated")
  BY <1>1, AnEvent DEF Happened, EventTypes
<1>3. /\ at = "received" /\ at' = "finalizing" /\ events' = events \o <<e>>
      /\ UNCHANGED <<model, path, ordinal, result, rows, error, strict, pending>>
  BY <1>2 DEF Validate, WriteFails, Write, Goto, options, answer
<1>4. e.n = Current /\ e.model = model /\ e.path = path /\ e.type = "validated"
  BY <1>1, <1>2, AnEvent DEF Happened, EventTypes
<1>5. Link(events[Len(events)], e)
  BY <1>1, <1>3, <1>4 DEF Tip, Link, Same, Busy
<1>6. Tip(e)'
  BY <1>1, <1>3, <1>4 DEF Tip, Current, Busy
<1> QED BY <1>1, <1>3, <1>5, <1>6, Extends

LEMMA InvalidateStands ==
  ASSUME Inv, raised = 0, raised' = 0, HistoryStands, Invalidate, \A f : ~Breaks(f)
  PROVE  History(events)' /\ events' # <<>> /\ ordinal' > 0 /\ Tip(events[Len(events)])'
<1>1. /\ TypeOK /\ ordinal > 0 /\ ordinal \in Nat /\ events \in Seq(EventRecord)
      /\ History(events) /\ events # <<>> /\ Tip(events[Len(events)])
  BY DEF Inv, TypeOK, HistoryStands, Invalidate, HasOrdinal, Busy
<1>2. PICK e \in EventRecord : e = Happened("validation_failed")
  BY <1>1, AnEvent DEF Happened, EventTypes
<1>3. /\ at = "received" /\ at' = "failed" /\ events' = events \o <<e>> /\ pending' = TRUE
      /\ UNCHANGED <<model, path, ordinal, result, rows, strict>>
  BY <1>2 DEF Invalidate, WriteFails, Write, Raise, options, answer
<1>4. e.n = Current /\ e.model = model /\ e.path = path /\ e.type = "validation_failed"
  BY <1>1, <1>2, AnEvent DEF Happened, EventTypes
<1>5. Link(events[Len(events)], e)
  BY <1>1, <1>3, <1>4 DEF Tip, Link, Same, Busy
<1>6. Tip(e)'
  BY <1>1, <1>3, <1>4 DEF Tip, Current, Busy, Failing
<1> QED BY <1>1, <1>3, <1>5, <1>6, Extends

LEMMA RecordStands ==
  ASSUME Inv, raised = 0, raised' = 0, HistoryStands, RecordFailure, \A f : ~Breaks(f)
  PROVE  History(events)' /\ events' # <<>> /\ ordinal' > 0 /\ Tip(events[Len(events)])'
<1>1. /\ TypeOK /\ ordinal > 0 /\ ordinal \in Nat /\ events \in Seq(EventRecord)
      /\ History(events) /\ events # <<>> /\ Tip(events[Len(events)])
  BY DEF Inv, TypeOK, HistoryStands, RecordFailure, HasOrdinal, Busy
<1>2. /\ at = "broken" /\ at' = "failed" /\ events' = events \o FailureEvents
      /\ pending' = TRUE
      /\ UNCHANGED <<model, path, ordinal, result, rows, strict>>
  BY DEF RecordFailure, WriteFails, Write, Goto, options, answer
<1>3. events[Len(events)].type = "started" /\ events[Len(events)].n = Current
      /\ events[Len(events)].model = model /\ events[Len(events)].path = path
  BY <1>1, <1>2 DEF Tip, Busy
<1>4. ASSUME NEW CONSTANT e \in EventRecord, e.n = Current, e.model = model, e.path = path,
             e.type \in Failing
      PROVE  Tip(e)'
  BY <1>1, <1>2, <1>4 DEF Tip, Current, Busy, Failing
<1>5. CASE reply = "rejected"
  <2>1. PICK r \in EventRecord : r = Happened("received")
    BY <1>1, AnEvent DEF Happened, EventTypes
  <2>2. PICK e \in EventRecord : e = Happened("validation_failed")
    BY <1>1, AnEvent DEF Happened, EventTypes
  <2>3. r.n = Current /\ r.model = model /\ r.path = path /\ r.type = "received"
    BY <1>1, <2>1, AnEvent DEF Happened, EventTypes
  <2>4. e.n = Current /\ e.model = model /\ e.path = path /\ e.type = "validation_failed"
    BY <1>1, <2>2, AnEvent DEF Happened, EventTypes
  <2>5. events' = (events \o <<r>>) \o <<e>>
    BY <1>1, <1>2, <1>5, <2>1, <2>2 DEF FailureEvents
  <2>6. PICK s \in Seq(EventRecord) :
          s = events \o <<r>> /\ s # <<>> /\ s[Len(s)] = r /\ History(s)
    <3>1. Link(events[Len(events)], r) /\ Len(events) > 0
      BY <1>1, <1>3, <2>3 DEF Link, Same
    <3> QED BY <1>1, <3>1, HistoryGrows
  <2>7. Link(s[Len(s)], e) /\ Len(s) > 0
    BY <2>3, <2>4, <2>6 DEF Link, Same
  <2>8. events' # <<>> /\ events'[Len(events')] = e /\ History(events')
    BY <2>5, <2>6, <2>7, HistoryGrows
  <2>9. History(events') <=> History(events)'
    BY DEF History
  <2>10. Tip(e)'
    BY <1>4, <2>4 DEF Failing
  <2> QED BY <1>1, <1>2, <2>8, <2>9, <2>10
<1>6. CASE reply # "rejected"
  <2>1. PICK e \in EventRecord : e = Happened("execution_failed")
    BY <1>1, AnEvent DEF Happened, EventTypes
  <2>2. e.n = Current /\ e.model = model /\ e.path = path /\ e.type = "execution_failed"
    BY <1>1, <2>1, AnEvent DEF Happened, EventTypes
  <2>3. events' = events \o <<e>>
    BY <1>2, <1>6, <2>1 DEF FailureEvents
  <2>4. Link(events[Len(events)], e)
    BY <1>3, <2>2 DEF Link, Same
  <2>5. Tip(e)'
    BY <1>4, <2>2 DEF Failing
  <2> QED BY <1>1, <1>2, <2>3, <2>4, <2>5, Extends
<1> QED BY <1>5, <1>6

\* The kernel decides on a failure that is on record.
LEMMA DecisionStands ==
  ASSUME Inv, raised = 0, HistoryStands, at = "failed", pending,
         NEW CONSTANT d \in {"retry", "exhausted"}, Decide(d),
         UNCHANGED <<model, path, ordinal, result, rows, strict>>,
         d = "retry" => at' = "attempt",
         d = "exhausted" => at' = "caught" /\ error' \in {error, "deadline"}
  PROVE  History(events)' /\ events' # <<>> /\ ordinal' > 0 /\ Tip(events[Len(events)])'
<1>1. /\ TypeOK /\ ordinal > 0 /\ ordinal \in Nat /\ events \in Seq(EventRecord)
      /\ History(events) /\ events # <<>> /\ Tip(events[Len(events)]) /\ Repairs
      /\ model \in Nat
  BY DEF Inv, TypeOK, HistoryStands, HasOrdinal, Busy, Model
<1> DEFINE D == IF d = "exhausted" /\ (model < Models \/ (error = "schema" /\ ~strict))
                THEN "fallback" ELSE d
<1>2. D \in {"none", "retry", "fallback", "exhausted"} /\ "recovery_decided" \in EventTypes
  BY DEF EventTypes
<1>3. PICK e \in EventRecord : e = Event(Current, "recovery_decided", D)
  BY <1>1, <1>2, AnEvent
<1>4. /\ e.n = Current /\ e.model = model /\ e.path = path /\ e.type = "recovery_decided"
      /\ e.decision = D
  <2>1. Event(Current, "recovery_decided", D) =
          [n |-> Current, model |-> model, path |-> path, type |-> "recovery_decided",
           decision |-> D]
    BY DEF Event
  <2> HIDE DEF D
  <2> QED BY <1>3, <2>1
<1>5. events' = events \o <<e>>
  BY <1>3 DEF Decide, Write, Decision
<1>6. Link(events[Len(events)], e)
  BY <1>1, <1>4 DEF Tip, Link, Same, Busy
<1>7. CASE d = "retry"
  <2>1. at' = "attempt" /\ e.decision = "retry"
    BY <1>4, <1>7
  <2>2. Tip(e)'
    BY <1>1, <1>4, <2>1 DEF Tip, Obeys, Current, Busy
  <2> QED BY <1>1, <1>5, <1>6, <2>2, Extends
<1>8. CASE d = "exhausted"
  <2>1. at' = "caught" /\ error' \in {error, "deadline"}
    BY <1>8
  <2>2. model < Models \/ (error = "schema" /\ ~strict) => e.decision = "fallback"
    BY <1>4, <1>8
  <2>3. error = "schema" => path = "native"
    BY <1>1 DEF Repairs
  <2> HIDE DEF D
  <2>4. Tip(e)'
    BY <1>1, <1>4, <2>1, <2>2, <2>3 DEF Tip, Current, Busy, Ordinary
  <2> QED BY <1>1, <1>5, <1>6, <2>4, Extends
<1> QED BY <1>7, <1>8

LEMMA HistoryStep ==
  ASSUME Inv, [Next]_vars, HistoryStands
  PROVE  HistoryStands'
<1> SUFFICES ASSUME raised' = 0 PROVE HistoryStands'
  BY DEF HistoryStands
<1>1. raised = 0
  BY RaisedGrows
<1>2. \A f : ~Breaks(f)
  BY NothingRaised
<1>3. /\ events \in Seq(EventRecord) /\ ordinal \in Nat /\ History(events) /\ Repairs
      /\ (events = <<>> <=> ordinal = 0) /\ (ordinal > 0 => Tip(events[Len(events)]))
  BY <1>1 DEF HistoryStands, Inv, TypeOK
<1>4. Repairs'
  BY <1>3, RepairsStep
<1>5. CASE Quiet
  <2>1. events' = events /\ ordinal' = ordinal
    BY <1>3, <1>5, QuietStep
  <2>2. CASE ordinal = 0
    BY <1>3, <1>4, <2>1, <2>2 DEF HistoryStands, History
  <2>3. CASE ordinal > 0
    <3>1. PICK e \in EventRecord : e = events[Len(events)]
      BY <1>3, <2>3
    <3>2. Tip(e)'
      BY <1>2, <1>3, <1>4, <1>5, <2>1, <2>3, <3>1, TipStands
    <3>3. Tip(events[Len(events)])'
      BY <2>1, <3>1, <3>2
    <3>4. History(events)'
      BY <1>3, <2>1 DEF History
    <3> QED BY <1>3, <1>4, <2>1, <2>3, <3>3, <3>4 DEF HistoryStands
  <2> QED BY <1>3, <2>2, <2>3
<1>6. ASSUME History(events)', events' # <<>>, ordinal' > 0, Tip(events[Len(events)])'
      PROVE  HistoryStands'
  BY <1>4, <1>6 DEF HistoryStands
<1>7. CASE Begin
  BY <1>1, <1>2, <1>6, <1>7, BeginStands
<1>8. CASE RecordFailure
  BY <1>1, <1>2, <1>6, <1>8, RecordStands
<1>9. CASE Receive
  <2>1. CASE UNCHANGED events
    BY <1>5, <1>9, <2>1 DEF Quiet
  <2>2. CASE ~UNCHANGED events
    BY <1>1, <1>2, <1>6, <1>9, <2>2, ReceiveStands
  <2> QED BY <2>1, <2>2
<1>10. CASE Validate
  BY <1>1, <1>2, <1>6, <1>10, ValidateStands
<1>11. CASE Invalidate
  BY <1>1, <1>2, <1>6, <1>11, InvalidateStands
<1>12. CASE RotateKey \/ TryAgain \/ RunOut
  <2>1. at = "failed" /\ error \in Ordinary
    BY <1>12 DEF RotateKey, TryAgain, RunOut, HookRetry, Retry, NoTimeToRetry, Ordinary
  <2>2. pending
    BY <1>3, <2>1 DEF Repairs, Ordinary
  <2>3. /\ UNCHANGED <<model, path, ordinal, result, rows, strict>>
        /\ \E d \in {"retry", "exhausted"} :
             /\ Decide(d)
             /\ d = "retry" => at' = "attempt"
             /\ d = "exhausted" => at' = "caught" /\ error' \in {error, "deadline"}
    BY <1>12 DEF RotateKey, TryAgain, RunOut, HookRetry, Retry, NoTimeToRetry, NextAttempt,
                 Raise, Aside, options, answer
  <2> QED BY <1>1, <1>6, <2>1, <2>2, <2>3, DecisionStands
<1>13. CASE StopTrying
  <2>1. CASE ~pending
    BY <1>5, <1>13, <2>1 DEF Quiet
  <2>2. CASE pending
    <3>1. /\ at = "failed" /\ Decide("exhausted")
          /\ UNCHANGED <<model, path, ordinal, result, rows, strict>>
          /\ at' = "caught" /\ error' = error
      BY <1>13 DEF StopTrying, GiveUp, Raise, Aside, options, answer
    <3> QED BY <1>1, <1>6, <2>2, <3>1, DecisionStands
  <2> QED BY <2>1, <2>2
<1>14. ~(EnterFails \/ PriceFails \/ OnErrorRaises \/ DecisionLost \/ OnRetryRaises \/ OnFallbackRaises)
  BY <1>2 DEF EnterFails, PriceFails, OnErrorRaises, DecisionLost, OnRetryRaises,
              OnFallbackRaises, WriteFails
<1>15. Next \/ UNCHANGED vars
  OBVIOUS
<1> QED BY <1>5, <1>7, <1>8, <1>9, <1>10, <1>11, <1>12, <1>13, <1>14, <1>15
        DEF Next, Work, Quiet

LEMMA AlwaysHistory == Spec => [](Inv /\ HistoryStands)
<1>1. Init => HistoryStands
  BY DEF Init, KernelInit, HistoryStands, History, Repairs
<1>2. Inv /\ HistoryStands /\ [Next]_vars => HistoryStands'
  BY HistoryStep
<1> QED BY <1>1, <1>2, AlwaysInv, PTL DEF Spec

\* The decision on record is the one the kernel acted on, for every chain of
\* models, number of retries and mix of failures.
THEOREM AttemptsDecisionKept == Spec => DecisionKept
<1> DEFINE Kept ==
      ordinal' > ordinal /\ raised' = 0 /\ ordinal > 0 =>
        LET before == Last(events)  next == Last(events') IN
        /\ before.type = "recovery_decided"
        /\ before.decision # "exhausted"
        /\ before.decision = "retry" <=> (next.model = before.model /\ next.path = before.path)
<1>1. Inv /\ HistoryStands /\ [Next]_vars => [Kept]_vars
  <2> SUFFICES ASSUME Inv, HistoryStands, Next, ordinal' > ordinal, raised' = 0, ordinal > 0
               PROVE  LET before == Last(events)  next == Last(events') IN
                      /\ before.type = "recovery_decided"
                      /\ before.decision # "exhausted"
                      /\ before.decision = "retry"
                           <=> (next.model = before.model /\ next.path = before.path)
    OBVIOUS
  <2>1. /\ raised = 0 /\ \A f : ~Breaks(f)
        /\ events \in Seq(EventRecord) /\ events # <<>> /\ Tip(events[Len(events)])
        /\ ordinal \in Nat /\ model \in Nat
    BY RaisedGrows, NothingRaised DEF HistoryStands, Inv, TypeOK, Model
  <2>2. Begin
    <3>1. ordinal' # ordinal
      BY <2>1
    <3>2. Begin \/ UNCHANGED ordinal
      BY DEF Next, Work, StartModel, AnswerFromCache, EnterPath, EnterFails, TooLate,
             NoTimeToAsk, Ask, TimeOut, RecordFailure, Receive, PriceFails, Validate,
             Invalidate, Finalize, FinalizeFails, RotateKey, StopTrying, RunOut, TryAgain,
             PassOn, OnErrorRaises, DecisionLost, OnRetryRaises, Accept, Downgrade, FallBack,
             OnFallbackRaises, LeaveChain, Report, Provider, Answered, Refused, Cancel,
             DeadlinePasses, Aside
    <3> QED BY <3>1, <3>2
  <2>3. PICK b \in EventRecord : b = events[Len(events)]
    BY <2>1
  <2>4. /\ b.type = "recovery_decided"
        /\ Obeys(b, [n |-> ordinal, model |-> model, path |-> path])
    BY <2>1, <2>2, <2>3 DEF Begin, Tip
  <2>5. events' = events \o <<Event(ordinal, "started", "none")>>
    BY <2>1, <2>2 DEF Begin, Write, WriteFails
  <2>6. events'[Len(events')] = Event(ordinal, "started", "none")
    BY <2>1, <2>5
  <2>7. Last(events) = b /\ Last(events') = Event(ordinal, "started", "none")
    BY <2>3, <2>6 DEF Last
  <2>8. b.model \in Nat
    BY DEF EventRecord, Model
  <2> QED BY <2>1, <2>4, <2>7, <2>8 DEF Obeys, Event
<1> QED BY <1>1, AlwaysHistory, PTL DEF Spec, DecisionKept

-----------------------------------------------------------------------------
(* What the reader finds in a history *)

\* The events k to m are an attempt: one that failed and another followed, or
\* the one whose response validated, which is the last.
Closed(m) ==
  /\ m < Len(events)
  /\ events[m].type = "recovery_decided"
  /\ events[m + 1].type = "started" /\ Obeys(events[m], events[m + 1])

Shape(k, m) ==
  \/ /\ m = k + 2 /\ m = Len(events)
     /\ events[k].type = "started" /\ events[k + 1].type = "received"
     /\ events[k + 2].type = "validated"
  \/ /\ m = k + 2 /\ Closed(m)
     /\ events[k].type = "started" /\ events[k + 1].type = "execution_failed"
  \/ /\ m = k + 3 /\ Closed(m)
     /\ events[k].type = "started" /\ events[k + 1].type = "received"
     /\ events[k + 2].type = "validation_failed"

Attempt(k, m) ==
  /\ m \in 1 .. Len(events)
  /\ Shape(k, m)
  /\ \A i \in k .. m : Same(events[k], events[i])
  /\ Positions(events[k].n) = k .. m

\* An attempt that was started has the events of one of the three shapes.
LEMMA ShapeOf ==
  ASSUME events \in Seq(EventRecord), History(events),
         events[Len(events)].type = "validated",
         NEW k \in 1 .. Len(events), events[k].type = "started"
  PROVE  \E m \in k .. Len(events) :
           Shape(k, m) /\ \A i \in k .. m : Same(events[k], events[i])
<1> DEFINE N == Len(events)
           type(i) == events[i].type
<1>1. N \in Nat /\ \A i \in 1 .. N - 1 : Link(events[i], events[i + 1])
  BY DEF History
<1>2. /\ k \in 1 .. N - 1 /\ Link(events[k], events[k + 1])
      /\ type(k + 1) \in {"received", "execution_failed"} /\ Same(events[k], events[k + 1])
  <2>1. k # N
    OBVIOUS
  <2>2. k \in 1 .. N - 1
    BY <2>1, <1>1
  <2> QED BY <2>2, <1>1 DEF Link, Failing
<1>3. /\ k + 1 \in 1 .. N - 1 /\ Link(events[k + 1], events[k + 2])
  <2>1. k + 1 # N
    BY <1>2
  <2>2. k + 1 \in 1 .. N - 1 /\ (k + 1) + 1 = k + 2
    BY <2>1, <1>1, <1>2
  <2> QED BY <2>2, <1>1
<1>4. Same(events[k + 1], events[k + 2])
  BY <1>2, <1>3 DEF Link, Failing
<1>5. ASSUME NEW m \in 1 .. N, type(m) = "recovery_decided"
      PROVE  Closed(m)
  <2>1. m \in 1 .. N - 1
    BY <1>1, <1>5
  <2> QED BY <2>1, <1>1, <1>5 DEF Closed, Link, Failing
<1>6. CASE type(k + 1) = "execution_failed"
  <2>1. type(k + 2) = "recovery_decided" /\ k + 2 \in k .. N
    BY <1>1, <1>3, <1>6 DEF Link, Failing
  <2>2. Closed(k + 2)
    BY <1>5, <2>1
  <2>3. \A i \in k .. k + 2 : Same(events[k], events[i])
    BY <1>2, <1>4 DEF Same
  <2> QED BY <1>6, <2>1, <2>2, <2>3 DEF Shape
<1>7. CASE type(k + 1) = "received" /\ type(k + 2) = "validated"
  <2>1. k + 2 = N
    <3>1. ~(k + 2 \in 1 .. N - 1)
      BY <1>1, <1>7 DEF Link, Failing
    <3> QED BY <3>1, <1>3, <1>1
  <2>2. \A i \in k .. k + 2 : Same(events[k], events[i])
    BY <1>2, <1>4 DEF Same
  <2> QED BY <1>7, <2>1, <2>2, <1>1 DEF Shape
<1>8. CASE type(k + 1) = "received" /\ type(k + 2) = "validation_failed"
  <2>1. k + 2 \in 1 .. N - 1 /\ (k + 2) + 1 = k + 3
    <3>1. k + 2 # N
      BY <1>8
    <3> QED BY <3>1, <1>1, <1>3
  <2>2. Link(events[k + 2], events[k + 3])
    BY <2>1, <1>1
  <2>3. type(k + 3) = "recovery_decided" /\ k + 3 \in k .. N /\ Same(events[k + 2], events[k + 3])
    BY <2>1, <2>2, <1>1, <1>8 DEF Link, Failing
  <2>4. Closed(k + 3)
    BY <1>5, <2>3
  <2>5. \A i \in k .. k + 3 : Same(events[k], events[i])
    BY <1>2, <1>4, <2>3 DEF Same
  <2> QED BY <1>8, <2>3, <2>4, <2>5 DEF Shape
<1> QED BY <1>2, <1>3, <1>6, <1>7, <1>8 DEF Link, Failing

\* No other event has the ordinal of an attempt.
LEMMA AttemptOf ==
  ASSUME events \in Seq(EventRecord), History(events),
         events[Len(events)].type = "validated",
         NEW k \in 1 .. Len(events), events[k].type = "started"
  PROVE  \E m \in k .. Len(events) : Attempt(k, m)
<1> DEFINE N == Len(events)
           n == events[k].n
<1>1. PICK m \in k .. N : Shape(k, m) /\ \A i \in k .. m : Same(events[k], events[i])
  BY ShapeOf
<1>2. /\ N \in Nat /\ m \in 1 .. N /\ DOMAIN events = 1 .. N
      /\ \A i \in 1 .. N : events[i].n \in Nat
      /\ \A i, j \in 1 .. N : i < j => events[i].n <= events[j].n
  <2>1. \A x \in EventRecord : x.n \in Nat
    BY DEF EventRecord
  <2>2. \A i \in 1 .. N : events[i] \in EventRecord
    BY ElementOfSeq
  <2>3. \A i, j \in 1 .. N : i < j => events[i].n <= events[j].n
    BY DEF History
  <2> QED BY <2>1, <2>2, <2>3, LenProperties
<1>3. \A i \in k .. m : events[i].n = n
  BY <1>1 DEF Same
<1>4. ASSUME NEW i \in 1 .. N, i < k
      PROVE  events[i].n # n
  <2>1. k - 1 \in 1 .. N - 1 /\ (k - 1) + 1 = k
    BY <1>2, <1>4
  <2>2. Link(events[k - 1], events[k])
    BY <2>1 DEF History
  <2>3. n = events[k - 1].n + 1
    BY <2>2 DEF Link, Obeys
  <2>4. events[i].n <= events[k - 1].n
    BY <1>2, <1>4, <2>1
  <2>5. events[i].n \in Nat /\ events[k - 1].n \in Nat
    BY <1>2, <2>1
  <2> HIDE DEF n, N
  <2> QED BY <2>3, <2>4, <2>5
<1>5. ASSUME NEW i \in 1 .. N, m < i
      PROVE  events[i].n # n
  <2>1. m < N /\ events[m + 1].n = events[m].n + 1
    <3>1. m # N
      <4>1. N \in Nat
        BY <1>2
      <4> HIDE DEF N
      <4> QED BY <4>1, <1>5
    <3>2. Closed(m)
      BY <3>1, <1>1 DEF Shape
    <3> QED BY <3>2 DEF Closed, Obeys
  <2>2. events[m].n = n
    BY <1>3, <1>1
  <2>3. m + 1 \in 1 .. N /\ (i = m + 1 \/ m + 1 < i)
    BY <1>2, <1>5, <2>1
  <2>4. events[m + 1].n <= events[i].n
    BY <1>2, <2>3
  <2>5. events[i].n \in Nat /\ events[m].n \in Nat
    BY <1>2
  <2> HIDE DEF n, N
  <2> QED BY <2>1, <2>2, <2>4, <2>5
<1>6. Positions(n) = k .. m
  <2>1. \A i \in 1 .. N : events[i].n = n <=> i \in k .. m
    BY <1>2, <1>3, <1>4, <1>5
  <2>2. k .. m \subseteq 1 .. N
    BY <1>2
  <2> HIDE DEF n
  <2> QED BY <1>2, <2>1, <2>2 DEF Positions
<1> QED BY <1>1, <1>2, <1>6 DEF Attempt

\* The reader takes an attempt's events as they stand.
LEMMA OfAttempt ==
  ASSUME events \in Seq(EventRecord), NEW k \in 1 .. Len(events),
         NEW m \in k .. Len(events), Attempt(k, m)
  PROVE  /\ DOMAIN Of(events[k].n) = 1 .. m - k + 1
         /\ \A i \in 1 .. m - k + 1 : Of(events[k].n)[i] = events[k + i - 1]
         /\ Head(Of(events[k].n)) = events[k] /\ Last(Of(events[k].n)) = events[m]
<1> DEFINE n == events[k].n
<1>0. Positions(n) = k .. m
  BY DEF Attempt
<1> HIDE DEF n
<1>1. Min(k .. m) = k
  <2>1. k \in k .. m /\ \A y \in k .. m : k <= y
    OBVIOUS
  <2>2. \A x \in k .. m : (\A y \in k .. m : x <= y) => x = k
    OBVIOUS
  <2> QED BY <2>1, <2>2 DEF Min
<1>2. Max(k .. m) = m
  <2>1. m \in k .. m /\ \A y \in k .. m : m >= y
    OBVIOUS
  <2>2. \A x \in k .. m : (\A y \in k .. m : x >= y) => x = m
    OBVIOUS
  <2> QED BY <2>1, <2>2 DEF Max
<1>3. Of(n) = SubSeq(events, k, m)
  BY <1>0, <1>1, <1>2 DEF Of
<1>4. /\ SubSeq(events, k, m) \in Seq(EventRecord)
      /\ Len(SubSeq(events, k, m)) = m - k + 1
      /\ \A i \in 1 .. m - k + 1 : SubSeq(events, k, m)[i] = events[k + i - 1]
  OBVIOUS
<1>5. DOMAIN Of(n) = 1 .. m - k + 1
  BY <1>3, <1>4
<1>6. 1 \in 1 .. m - k + 1 /\ m - k + 1 \in 1 .. m - k + 1 /\ k + 1 - 1 = k /\ k + (m - k + 1) - 1 = m
  OBVIOUS
<1>7. Of(n)[1] = events[k] /\ Of(n)[m - k + 1] = events[m]
  BY <1>3, <1>4, <1>6
<1>8. Head(Of(n)) = Of(n)[1]
  BY <1>3, <1>4
<1>9. Last(Of(n)) = events[m]
  BY <1>3, <1>4, <1>7 DEF Last
<1>10. \A i \in 1 .. m - k + 1 : Of(n)[i] = events[k + i - 1]
  BY <1>3, <1>4
<1> QED BY <1>5, <1>7, <1>8, <1>9, <1>10 DEF n

\* A function on 1 .. 3 or 1 .. 4 is the tuple of its values.
LEMMA ThreeValues ==
  ASSUME NEW f, NEW x, NEW y, NEW z,
         f = [i \in 1 .. 3 |-> f[i]], f[1] = x, f[2] = y, f[3] = z
  PROVE  f = <<x, y, z>>
OBVIOUS

LEMMA FourValues ==
  ASSUME NEW f, NEW x, NEW y, NEW z, NEW u,
         f = [i \in 1 .. 4 |-> f[i]], f[1] = x, f[2] = y, f[3] = z, f[4] = u
  PROVE  f = <<x, y, z, u>>
OBVIOUS

LEMMA TypesOf ==
  ASSUME events \in Seq(EventRecord), NEW k \in 1 .. Len(events),
         NEW m \in k .. Len(events), Attempt(k, m)
  PROVE  \/ Types(events[k].n) = <<"started", "received", "validated">> /\ m = Len(events)
         \/ Types(events[k].n) \in FailureShapes /\ Closed(m)
<1> DEFINE n == events[k].n
<1>1. /\ DOMAIN Of(n) = 1 .. m - k + 1
      /\ \A i \in 1 .. m - k + 1 : Of(n)[i] = events[k + i - 1]
  BY OfAttempt
<1> HIDE DEF n
<1>2. /\ DOMAIN Types(n) = 1 .. m - k + 1
      /\ Types(n) = [i \in DOMAIN Types(n) |-> Types(n)[i]]
      /\ \A i \in 1 .. m - k + 1 : Types(n)[i] = events[k + i - 1].type
  <2>1. Types(n) = [i \in 1 .. m - k + 1 |-> Of(n)[i].type]
    BY <1>1 DEF Types
  <2> QED BY <1>1, <2>1
<1>3. k \in Nat /\ k + 1 - 1 = k /\ k + 2 - 1 = k + 1 /\ k + 3 - 1 = k + 2 /\ k + 4 - 1 = k + 3
  OBVIOUS
<1>4. CASE /\ m = k + 2 /\ m = Len(events)
           /\ events[k].type = "started" /\ events[k + 1].type = "received"
           /\ events[k + 2].type = "validated"
  <2>1. m - k + 1 = 3 /\ 1 \in 1 .. 3 /\ 2 \in 1 .. 3 /\ 3 \in 1 .. 3
    BY <1>4, <1>3
  <2>2. Types(n)[1] = "started" /\ Types(n)[2] = "received" /\ Types(n)[3] = "validated"
    BY <1>2, <1>3, <1>4, <2>1
  <2>3. Types(n) = <<"started", "received", "validated">>
    BY <1>2, <2>1, <2>2, ThreeValues
  <2> QED BY <1>4, <2>3 DEF n
<1>5. CASE /\ m = k + 2 /\ Closed(m)
           /\ events[k].type = "started" /\ events[k + 1].type = "execution_failed"
  <2>1. m - k + 1 = 3 /\ 1 \in 1 .. 3 /\ 2 \in 1 .. 3 /\ 3 \in 1 .. 3
    BY <1>5, <1>3
  <2>2. events[k + 2].type = "recovery_decided"
    BY <1>5 DEF Closed
  <2>3. /\ Types(n)[1] = "started" /\ Types(n)[2] = "execution_failed"
        /\ Types(n)[3] = "recovery_decided"
    BY <1>2, <1>3, <1>5, <2>1, <2>2
  <2>4. Types(n) = <<"started", "execution_failed", "recovery_decided">>
    BY <1>2, <2>1, <2>3, ThreeValues
  <2> QED BY <1>5, <2>4 DEF n, FailureShapes
<1>6. CASE /\ m = k + 3 /\ Closed(m)
           /\ events[k].type = "started" /\ events[k + 1].type = "received"
           /\ events[k + 2].type = "validation_failed"
  <2>1. m - k + 1 = 4 /\ 1 \in 1 .. 4 /\ 2 \in 1 .. 4 /\ 3 \in 1 .. 4 /\ 4 \in 1 .. 4
    BY <1>6, <1>3
  <2>2. events[k + 3].type = "recovery_decided"
    BY <1>6 DEF Closed
  <2>3. /\ Types(n)[1] = "started" /\ Types(n)[2] = "received"
        /\ Types(n)[3] = "validation_failed" /\ Types(n)[4] = "recovery_decided"
    BY <1>2, <1>3, <1>6, <2>1, <2>2
  <2>4. Types(n) = <<"started", "received", "validation_failed", "recovery_decided">>
    BY <1>2, <2>1, <2>3, FourValues
  <2> QED BY <1>6, <2>4 DEF n, FailureShapes
<1> QED BY <1>4, <1>5, <1>6 DEF Attempt, Shape

LEMMA FollowsOf ==
  ASSUME events \in Seq(EventRecord), History(events),
         events[Len(events)].type = "validated", ~Downgraded,
         NEW k \in 1 .. Len(events), NEW m \in k .. Len(events), Attempt(k, m), Closed(m)
  PROVE  Follows(events[k].n)
<1> DEFINE N == Len(events)
           n == events[k].n
<1>1. /\ m \in 1 .. N /\ m + 1 \in 1 .. N /\ events[m + 1].type = "started"
      /\ DOMAIN events = 1 .. N
      /\ Obeys(events[m], events[m + 1]) /\ Same(events[k], events[m])
  BY LenProperties DEF Closed, Attempt
<1>2. events[m + 1].n = n + 1
  BY <1>1 DEF Obeys, Same
<1>3. PICK h \in m + 1 .. N : Attempt(m + 1, h)
  BY <1>1, AttemptOf
<1>4. Head(Of(events[m + 1].n)) = events[m + 1]
  BY <1>1, <1>3, OfAttempt
<1>5. Head(Of(n + 1)) = events[m + 1]
  BY <1>2, <1>4
<1>6. Last(Of(n)) = events[m] /\ Head(Of(n)) = events[k]
  BY OfAttempt
<1>7. events[m].model \in Nat /\ events[m + 1].model \in Nat
  <2>1. events[m] \in EventRecord /\ events[m + 1] \in EventRecord
    BY <1>1, ElementOfSeq
  <2>2. \A x \in EventRecord : x.model \in Nat
    BY DEF EventRecord, Model
  <2> QED BY <2>1, <2>2
<1>8. ~(/\ events[m].model = events[m + 1].model
        /\ events[m].path = "native" /\ events[m + 1].path = "instructor")
  BY <1>1 DEF Downgraded
<1>9. /\ events[m].decision = "retry" => events[m + 1].model = events[k].model
      /\ events[m].decision = "fallback" => events[m + 1].model # events[k].model
      /\ events[m].decision # "exhausted"
  BY <1>1, <1>7, <1>8 DEF Obeys, Same
<1> HIDE DEF n
<1>10. Follows(n)
  BY <1>5, <1>6, <1>9 DEF Follows
<1> QED BY <1>10 DEF n

LEMMA ReaderAccepts ==
  ASSUME events \in Seq(EventRecord), events # <<>>, History(events),
         events[Len(events)].type = "validated", ~Downgraded
  PROVE  Selected
<1> DEFINE N == Len(events)
           last == events[N]
<1>1. /\ N \in Nat /\ N \in 1 .. N /\ DOMAIN events = 1 .. N
      /\ \A i \in 1 .. N : events[i] \in EventRecord
      /\ \A i \in 1 .. N : events[i].n \in Nat
      /\ \A i, j \in 1 .. N : i < j => events[i].n <= events[j].n
  <2>1. \A x \in EventRecord : x.n \in Nat
    BY DEF EventRecord
  <2>2. \A i \in 1 .. N : events[i] \in EventRecord
    BY ElementOfSeq
  <2>3. \A i, j \in 1 .. N : i < j => events[i].n <= events[j].n
    BY DEF History
  <2>4. N \in Nat /\ N \in 1 .. N /\ DOMAIN events = 1 .. N
    BY LenProperties
  <2> QED BY <2>1, <2>2, <2>3, <2>4
<1>2. \A n \in 0 .. last.n :
        \E k \in 1 .. N : \E m \in k .. N : Attempt(k, m) /\ events[k].n = n
  <2> TAKE n \in 0 .. last.n
  <2>1. PICK k \in 1 .. N : events[k].n = n /\ events[k].type = "started"
    BY <1>1 DEF History
  <2> QED BY <2>1, AttemptOf
<1>3. Cardinality({i \in DOMAIN events : events[i].type = "validated"}) = 1
  <2>1. ASSUME NEW i \in 1 .. N, i # N
        PROVE  events[i].type # "validated"
    <3>1. i \in 1 .. N - 1
      <4>1. N \in Nat
        BY <1>1
      <4> HIDE DEF N
      <4> QED BY <4>1, <2>1
    <3>2. Link(events[i], events[i + 1])
      BY <3>1 DEF History
    <3> QED BY <3>2 DEF Link, Failing
  <2>2. {i \in DOMAIN events : events[i].type = "validated"} = {N}
    BY <1>1, <2>1
  <2> QED BY <2>2, FS_Singleton
<1>4. {events[i].n : i \in DOMAIN events} = 0 .. last.n
  <2>1. \A i \in 1 .. N : events[i].n <= last.n
    <3> TAKE i \in 1 .. N
    <3>1. CASE i = N
      BY <1>1, <3>1
    <3>2. CASE i # N
      <4>1. i < N
        <5>1. N \in Nat
          BY <1>1
        <5> HIDE DEF N
        <5> QED BY <5>1, <3>2
      <4> QED BY <1>1, <4>1
    <3> QED BY <3>1, <3>2
  <2>2. \A i \in 1 .. N : events[i].n \in 0 .. last.n
    BY <1>1, <2>1
  <2>3. \A n \in 0 .. last.n : \E i \in 1 .. N : events[i].n = n
    BY <1>2
  <2> QED BY <1>1, <2>2, <2>3
<1>5. ASSUME NEW n \in 0 .. last.n
      PROVE  \A i, j \in DOMAIN Of(n) :
               Of(n)[i].model = Of(n)[j].model /\ Of(n)[i].path = Of(n)[j].path
  <2>1. PICK k \in 1 .. N : \E m \in k .. N : Attempt(k, m) /\ events[k].n = n
    BY <1>2
  <2>2. PICK m \in k .. N : Attempt(k, m) /\ events[k].n = n
    BY <2>1
  <2>3. /\ DOMAIN Of(n) = 1 .. m - k + 1
        /\ \A i \in 1 .. m - k + 1 : Of(n)[i] = events[k + i - 1]
    BY <2>2, OfAttempt
  <2>4. \A i \in 1 .. m - k + 1 : Same(events[k], Of(n)[i])
    <3>1. \A i \in 1 .. m - k + 1 : k + i - 1 \in k .. m
      OBVIOUS
    <3>2. \A i \in k .. m : Same(events[k], events[i])
      BY <2>2 DEF Attempt
    <3>3. \A i \in 1 .. m - k + 1 : Same(events[k], events[k + i - 1])
      BY <3>1, <3>2
    <3> HIDE DEF N, last
    <3> QED BY <2>3, <3>3
  <2>5. \A i \in DOMAIN Of(n) : Of(n)[i].model = events[k].model /\ Of(n)[i].path = events[k].path
    BY <2>3, <2>4 DEF Same
  <2> QED BY <2>5
<1>6. Types(last.n) = <<"started", "received", "validated">>
  <2>0. last.n \in 0 .. last.n
    <3>1. last.n \in Nat
      BY <1>1
    <3> HIDE DEF last
    <3> QED BY <3>1
  <2>1. PICK k \in 1 .. N : \E m \in k .. N : Attempt(k, m) /\ events[k].n = last.n
    BY <1>2, <2>0
  <2>2. PICK m \in k .. N : Attempt(k, m) /\ events[k].n = last.n
    BY <2>1
  <2>3. N \in k .. m
    BY <1>1, <2>2 DEF Attempt, Positions
  <2>4. ~Closed(m)
    BY <2>3, <1>1 DEF Closed
  <2> QED BY <2>2, <2>4, TypesOf
<1>7. ASSUME NEW n \in 0 .. last.n - 1
      PROVE  Types(n) \in FailureShapes /\ Follows(n)
  <2>1. n \in 0 .. last.n /\ n # last.n
    BY <1>1
  <2>2. PICK k \in 1 .. N : \E m \in k .. N : Attempt(k, m) /\ events[k].n = n
    BY <1>2, <2>1
  <2>3. PICK m \in k .. N : Attempt(k, m) /\ events[k].n = n
    BY <2>2
  <2>4. m # N
    <3>1. m \in k .. m
      OBVIOUS
    <3>2. events[m].n = n
      BY <2>3, <3>1 DEF Attempt, Same
    <3> QED BY <2>1, <3>2
  <2>5. Types(n) \in FailureShapes /\ Closed(m)
    BY <2>3, <2>4, TypesOf
  <2> QED BY <2>3, <2>5, FollowsOf
<1>8. Last(events) = last
  BY DEF Last
<1> HIDE DEF last
<1> QED BY <1>1, <1>3, <1>4, <1>5, <1>6, <1>7, <1>8 DEF Selected, last

\* The history that a successful call leaves is one its reader accepts, for
\* every chain of models, number of retries and mix of failures that raised
\* nothing and downgraded no model.
THEOREM AttemptsReceiptAccepted == Spec => []ReceiptAccepted
<1>1. Inv /\ HistoryStands => ReceiptAccepted
  <2> SUFFICES ASSUME Inv, HistoryStands, at = "success", ~result.cached, raised = 0,
                      ~Downgraded
               PROVE  Receipt
    BY DEF ReceiptAccepted
  <2>1. /\ events \in Seq(EventRecord) /\ History(events) /\ events # <<>>
        /\ Tip(events[Len(events)])
    BY DEF Inv, TypeOK, HistoryStands, Repairs
  <2>2. events[Len(events)].type = "validated" /\ Won(events[Len(events)])
    BY <2>1 DEF Tip
  <2>3. Selected
    BY <2>1, <2>2, ReaderAccepts
  <2>4. Last(events) = events[Len(events)]
    BY DEF Last
  <2>5. Len(rows) = 1 /\ rows[1].ok /\ rows[1].model = Last(events).model
        /\ rows[1].path = Last(events).path
    BY <2>2, <2>4 DEF Won
  <2> QED BY <2>3, <2>5 DEF Receipt
<1> QED BY <1>1, AlwaysHistory, PTL
=============================================================================
