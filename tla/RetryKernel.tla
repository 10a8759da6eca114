------------------------------ MODULE RetryKernel ------------------------------
(***************************************************************************)
(* run_*_with_retry and run_*_with_fallback of                             *)
(* llm_client/execution/execution_kernel.py: one call walks its chain of   *)
(* models, and on each model a loop of attempts, under an optional         *)
(* deadline that the kernel tests between its steps.                       *)
(*                                                                         *)
(* What an attempt does, what is recorded about it and which callbacks run *)
(* is up to the runtime that EXTENDS this module: every operator here is   *)
(* the control of one step of the kernel, to be conjoined with the rest.   *)
(***************************************************************************)
EXTENDS Naturals

CONSTANTS Models,       \* length of the chain of models
          MaxRetries    \* max_retries of the retry policy

ASSUME KernelAssumption ==
  /\ Models \in Nat \ {0}
  /\ MaxRetries \in Nat

VARIABLES at,           \* where the call stands
          model,        \* index of the model in the chain
          attempt,      \* index of the attempt on this model
          error,        \* the exception on its way up
          deadline,     \* the caller gave a logical_timeout
          late          \* the clock has reached the deadline

control == <<at, model, attempt, error>>
clock   == <<deadline, late>>

\* "retryable" passes should_retry, "fatal" does not; "final" is a
\* _StructuredFinalizationFailure, which also fails should_fallback; "schema"
\* is a _NativeSchemaFallback; "deadline" an LLMLogicalDeadlineError.
Ordinary == {"retryable", "fatal"}
Errors   == Ordinary \cup {"final", "schema", "deadline"}

Over == {"success", "failure", "cancelled"}

KernelInit ==
  /\ at = "model" /\ model = 1 /\ attempt = 0 /\ error = "none"
  /\ deadline \in BOOLEAN /\ late = FALSE

Goto(l) == at' = l /\ UNCHANGED <<model, attempt, error>>

Raise(l, e) == at' = l /\ error' = e /\ UNCHANGED <<model, attempt>>

\* Time passes the deadline, at any point of the call.
Elapse ==
  /\ deadline /\ ~late /\ at \notin Over
  /\ late' = TRUE
  /\ UNCHANGED <<control, deadline>>

-----------------------------------------------------------------------------
(* The loop over models *)

TryModel ==
  /\ at = "model"
  /\ IF late THEN Raise("reporting", "deadline") ELSE Goto("entering")

\* An exception that execute_model let out ends the call ...
Surrender ==
  /\ at = "caught" /\ error # "schema"
  /\ \/ error \in {"deadline", "final"} /\ Raise("reporting", error)
     \/ error \in Ordinary /\ model = Models /\ Raise("reporting", error)
     \/ error \in Ordinary /\ model < Models /\ late /\ Raise("reporting", "deadline")

\* ... or moves it to the next model.
NextModel ==
  /\ at = "caught" /\ error \in Ordinary
  /\ model < Models /\ ~late
  /\ at' = "model" /\ model' = model + 1 /\ attempt' = 0
  /\ error' = "none"

-----------------------------------------------------------------------------
(* The loop over attempts *)

NoAttempt ==
  /\ at = "attempt" /\ late
  /\ Raise("caught", "deadline")

\* The clock is read again before an attempt's result is returned.
Return ==
  /\ at = "returned"
  /\ IF late THEN Raise("caught", "deadline") ELSE Goto("success")

\* An LLMLogicalDeadlineError passes through undecided.
PassDeadline ==
  /\ at = "failed" /\ error = "deadline"
  /\ Raise("caught", "deadline")

NextAttempt ==
  /\ at' = "attempt" /\ attempt' = attempt + 1 /\ error' = "none"
  /\ UNCHANGED model

\* maybe_retry_hook answered True: retry at once, unless the deadline passed.
HookRetry ==
  /\ at = "failed" /\ error \in Ordinary /\ attempt < MaxRetries
  /\ IF late THEN Raise("caught", "deadline") ELSE NextAttempt

GiveUp ==
  /\ at = "failed" /\ error # "deadline"
  /\ error # "retryable" \/ attempt = MaxRetries
  /\ Raise("caught", error)

\* The delay before the next attempt would reach the deadline.
NoTimeToRetry ==
  /\ at = "failed" /\ error = "retryable" /\ attempt < MaxRetries
  /\ deadline
  /\ Raise("caught", "deadline")

\* Mutant: one attempt too many.
RetryOnceMore ==
  /\ at = "failed" /\ error = "retryable" /\ attempt <= MaxRetries
  /\ ~late
  /\ NextAttempt

Retry ==
  /\ at = "failed" /\ error = "retryable" /\ attempt < MaxRetries
  /\ ~late
  /\ NextAttempt
=============================================================================
