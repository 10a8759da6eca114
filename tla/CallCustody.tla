------------------------------ MODULE CallCustody ------------------------------
(***************************************************************************)
(* The envelope around one public call (execution/call_wrappers.py) and    *)
(* what it must give back: a durable lease of BudgetLedger, renewed by the *)
(* lease keeper of the process, or the process-local token of a sequential *)
(* scope (execution/call_contracts.py).                                    *)
(*                                                                         *)
(* A call acquires custody, is prepared, starts, runs provider attempts,   *)
(* writes its row, stops its monitor, emits its terminal event and only    *)
(* then settles or releases.  Every one of these is a step, so the clock,  *)
(* the keeper, the other calls and a crash come in between.                *)
(***************************************************************************)
EXTENDS LedgerParameters

CONSTANTS Process,       \* processes that share the SQLite file
          Home,          \* the process of a call
          ScopeOf,       \* budget_scope_trace_id of a call
          Trace,         \* trace_id of a call, the scope itself or one below it
          Mode,          \* budget_scope_mode of a call
          Kind,          \* call_kind of a call: "text" or "structured"
          IsAsync,       \* whether a call is made by an async entry point
          Asked,         \* raw budget_reservation of a call
          MaxBudget,     \* raw max_budget of the calls of a scope
          Charge,        \* raw amounts one provider attempt may cost
          MaxCharge,     \* bound on such an amount
          MaxAttempts,   \* bound on the provider attempts of a call
          Fault          \* the faults that may happen

Faults == {"raise_early", "raise_late", "interrupt", "ledger_store", "row_store", "crash"}

ASSUME CustodyAssumption ==
  /\ Home \in [Call -> Process]
  /\ ScopeOf \in [Call -> Scope]
  /\ \A s \in Scope : {c \in Call : ScopeOf[c] = s} \subseteq CountedIn[s]
  /\ Mode \in [Call -> {"sequential", "reserved_concurrent"}]
  /\ Kind \in [Call -> {"text", "structured"}]
  /\ IsAsync \in [Call -> BOOLEAN]
  /\ Asked \in [Call -> Nat]
  /\ \A c \in Call : Mode[c] = "reserved_concurrent" => Asked[c] \in Reservation
  /\ MaxBudget \in [Scope -> Budget \ {0}]
  /\ MaxCharge \in Nat /\ Charge \subseteq 0 .. MaxCharge
  /\ MaxAttempts \in Nat
  /\ 0 .. MaxAttempts * MaxCharge \subseteq Cost
  /\ Fault \subseteq Faults

VARIABLES now, cap, root, status, reserved, expires, settledCost, table, cost, covered,
          pc,            \* where the envelope of a call stands
          outcome,       \* how invoke() ended
          terminal,      \* the terminal lifecycle event of a call
          reply,         \* what the caller of the public entry point got
          attempts,      \* provider attempts started
          priced,        \* provider attempts whose response was priced
          observed,      \* cost on the result or on the error
          billed,        \* history: what the provider charged for the call
          tracked,       \* _BudgetLeaseKeeper._leases, of all processes
          lost,          \* _BudgetLeaseKeeper._lost, of all processes
          sweep,         \* the leases a renew_once() has yet to renew
          held,          \* _active_budget_scopes, by process
          up             \* whether a process is alive

Ledger == INSTANCE BudgetLedger

ledgerVars  == <<now, cap, root, status, reserved, expires, settledCost, table, cost, covered>>
callVars    == <<pc, outcome, terminal, reply>>
attemptVars == <<attempts, priced, observed, billed>>
keeperVars  == <<tracked, lost, sweep>>
vars        == <<ledgerVars, callVars, attemptVars, keeperVars, held, up>>

Init ==
  /\ Ledger!Init
  /\ pc = [c \in Call |-> "new"]
  /\ outcome = [c \in Call |-> "none"]
  /\ terminal = [c \in Call |-> "none"]
  /\ reply = [c \in Call |-> "none"]
  /\ attempts = [c \in Call |-> 0]
  /\ priced = [c \in Call |-> 0]
  /\ observed = [c \in Call |-> 0]
  /\ billed = [c \in Call |-> 0]
  /\ tracked = {} /\ lost = {} /\ held = {}
  /\ sweep = [p \in Process |-> {}]
  /\ up = [p \in Process |-> TRUE]

-----------------------------------------------------------------------------
(* Acquiring custody: _prepare_public_call_envelope and acquire_budget_scope *)

\* c is at one of the points in S, in a living process, and goes on to point to.
Goes(c, S, to) ==
  /\ up[Home[c]]
  /\ pc[c] \in S
  /\ pc' = [pc EXCEPT ![c] = to]

\* The caller gets r, and the envelope is over.
Ends(c, S, r) == Goes(c, S, "ended") /\ reply' = [reply EXCEPT ![c] = r]

Token(c) == <<Home[c], ScopeOf[c]>>

\* Mutant: a spend that cannot be read counts as none.
SpentFailsOpen(s) == 0

\* get_cost: rows of failed calls do not count here.
SpentBy(S) == Total(cost, {c \in S : table[c] # "none" /\ outcome[c] # "raised"})

Spent(s) == SpentBy(CountedIn[s])

SpentOnTrace(c) == SpentBy({d \in Call : Trace[d] = Trace[c]})

AcquireLease(c, t) ==
  /\ Mode[c] = "reserved_concurrent"
  /\ now + LeaseTTL <= MaxTime
  /\ Goes(c, {"new"}, "tracking")
  /\ Ledger!Acquire(c, ScopeOf[c], MaxBudget[ScopeOf[c]], Asked[c], t)
  /\ UNCHANGED <<outcome, terminal, reply, attemptVars, keeperVars, held, up>>

Track(c) ==
  /\ Goes(c, {"tracking"}, "preparing")
  /\ tracked' = tracked \cup {c}
  /\ lost' = lost \ {c}
  /\ UNCHANGED <<ledgerVars, outcome, terminal, reply, attemptVars, sweep, held, up>>

\* Mutant: settled spend is tested, but not the call in flight.
EnterScopeOccupied(c) ==
  /\ Mode[c] = "sequential"
  /\ Goes(c, {"new"}, "preparing")
  /\ Spent(ScopeOf[c]) < MaxBudget[ScopeOf[c]]
  /\ Spent(ScopeOf[c]) + Asked[c] <= MaxBudget[ScopeOf[c]]
  /\ held' = held \cup {Token(c)}
  /\ UNCHANGED <<ledgerVars, outcome, terminal, reply, attemptVars, keeperVars, up>>

\* The check and the entry are made under _budget_scope_lock.
EnterScope(c) ==
  /\ Mode[c] = "sequential"
  /\ Goes(c, {"new"}, "preparing")
  /\ Token(c) \notin held
  /\ Spent(ScopeOf[c]) < MaxBudget[ScopeOf[c]]
  /\ Spent(ScopeOf[c]) + Asked[c] <= MaxBudget[ScopeOf[c]]
  /\ held' = held \cup {Token(c)}
  /\ UNCHANGED <<ledgerVars, outcome, terminal, reply, attemptVars, keeperVars, up>>

\* The prompt-size contract, the Codex identity or the "started" event raises:
\* custody is held, and no handler is entered yet.
RaiseEarly(c) ==
  /\ "raise_early" \in Fault
  /\ Ends(c, {"preparing"}, "error")
  /\ UNCHANGED <<ledgerVars, outcome, terminal, attemptVars, keeperVars, held, up>>

Start(c) ==
  /\ Goes(c, {"preparing"}, "checking")
  /\ UNCHANGED <<ledgerVars, outcome, terminal, reply, attemptVars, keeperVars, held, up>>

-----------------------------------------------------------------------------
(* invoke(): the runtime's own budget check, attempts, and the call row *)

\* invoke() ends with o.
Finishes(c, S, o) == Goes(c, S, "stopping") /\ outcome' = [outcome EXCEPT ![c] = o]

\* The runtime tests settled spend again, before its own error handler.  The
\* envelope kept the scope to itself, so this is the spend of the exact trace.
Check(c) ==
  /\ \/ /\ SpentOnTrace(c) < MaxBudget[ScopeOf[c]]
        /\ Goes(c, {"checking"}, "running")
        /\ UNCHANGED outcome
     \/ /\ SpentOnTrace(c) >= MaxBudget[ScopeOf[c]] \/ "row_store" \in Fault
        /\ Finishes(c, {"checking"}, "raised")
  /\ UNCHANGED <<ledgerVars, terminal, reply, attemptVars, keeperVars, held, up>>

\* One provider attempt costs x; seen when a response came back and was priced.
\* A structured call adds up its attempts, a text call keeps the last one.
Attempt(c, x, seen) ==
  /\ attempts[c] < MaxAttempts
  /\ Goes(c, {"running"}, IF seen THEN "responded" ELSE "running")
  /\ attempts' = [attempts EXCEPT ![c] = @ + 1]
  /\ billed' = [billed EXCEPT ![c] = @ + x]
  /\ IF seen
     THEN /\ priced' = [priced EXCEPT ![c] = @ + 1]
          /\ observed' = [observed EXCEPT ![c] = IF Kind[c] = "text" THEN x ELSE @ + x]
     ELSE UNCHANGED <<priced, observed>>
  /\ UNCHANGED <<ledgerVars, outcome, terminal, reply, keeperVars, held, up>>

\* A response that fails validation, a hook or the cache is retried.
Retry(c) ==
  /\ attempts[c] < MaxAttempts
  /\ Goes(c, {"responded"}, "running")
  /\ UNCHANGED <<ledgerVars, outcome, terminal, reply, attemptVars, keeperVars, held, up>>

\* The call row is written unless the row store fails, which no caller notices.
WriteRow(c, x) ==
  \/ Ledger!LogRow(c, "llm_calls", x)
  \/ "row_store" \in Fault /\ UNCHANGED ledgerVars

Succeed(c) ==
  /\ Finishes(c, {"responded"}, "returned")
  /\ WriteRow(c, observed[c])
  /\ UNCHANGED <<terminal, reply, attemptVars, keeperVars, held, up>>

\* Out of attempts, or an error that is not retried; a text error has no cost.
Fail(c) ==
  /\ Finishes(c, {"running", "responded"}, "raised")
  /\ WriteRow(c, IF Kind[c] = "text" THEN 0 ELSE observed[c])
  /\ UNCHANGED <<terminal, reply, attemptVars, keeperVars, held, up>>

\* The task of an async call is cancelled while it waits for the provider, for
\* the next attempt or for the cache.
Cancel(c) ==
  /\ IsAsync[c]
  /\ Finishes(c, {"running", "responded"}, "cancelled")
  /\ UNCHANGED <<ledgerVars, terminal, reply, attemptVars, keeperVars, held, up>>

\* KeyboardInterrupt or SystemExit passes every handler of a sync call.
Interrupt(c) ==
  /\ "interrupt" \in Fault /\ ~IsAsync[c]
  /\ Ends(c, {"checking", "running", "responded"}, "error")
  /\ UNCHANGED <<ledgerVars, outcome, terminal, attemptVars, keeperVars, held, up>>

-----------------------------------------------------------------------------
(* The end of the envelope: terminal event, then custody *)

Emit(c) ==
  /\ Goes(c, {"stopping"}, "closing")
  /\ terminal' = [terminal EXCEPT ![c] =
       CASE outcome[c] = "returned" -> "completed"
         [] outcome[c] = "raised" -> "failed"
         [] OTHER -> "cancelled"]
  /\ UNCHANGED <<ledgerVars, outcome, reply, attemptVars, keeperVars, held, up>>

\* The write of the terminal event raises, or a cancellation arrives in the
\* await of monitor.stop(): the envelope is left before custody is given back.
RaiseLate(c) ==
  /\ "raise_late" \in Fault
  /\ Ends(c, {"stopping"}, "error")
  /\ UNCHANGED <<ledgerVars, outcome, terminal, attemptVars, keeperVars, held, up>>

\* Spend is settled when it is known: a result's cost, or the cost of an error
\* that covers every attempt (_fully_observed_error_cost).
Settles(c) ==
  \/ outcome[c] = "returned"
  \/ /\ outcome[c] = "raised" /\ Kind[c] = "structured"
     /\ priced[c] = attempts[c] /\ attempts[c] > 0

\* Mutant: an ended call keeps its place in the keeper.
UntrackLostOnly(c) == lost' = lost \ {c} /\ UNCHANGED <<tracked, sweep>>

Untrack(c) == tracked' = tracked \ {c} /\ lost' = lost \ {c} /\ UNCHANGED sweep

OwnReply(c) == IF outcome[c] = "returned" THEN "result" ELSE "error"

\* settle_tracked_budget_reservation asks the keeper, and then the ledger.
AskKeeper(c) ==
  /\ Mode[c] = "reserved_concurrent" /\ Settles(c)
  /\ \/ /\ c \notin lost
        /\ Goes(c, {"closing"}, "settling")
        /\ UNCHANGED <<reply, keeperVars>>
     \/ /\ c \in lost
        /\ Ends(c, {"closing"}, "lease_lost")
        /\ Untrack(c)
  /\ UNCHANGED <<ledgerVars, outcome, terminal, attemptVars, held, up>>

\* Mutant: settling an expired lease is taken for a repetition.
SettleLeaseQuietly(c) ==
  /\ Goes(c, {"settling"}, "ended")
  /\ reply' = [reply EXCEPT ![c] = OwnReply(c)]
  /\ \/ Ledger!Settle(c, observed[c])
     \/ status[c] # "active" /\ UNCHANGED ledgerVars
  /\ Untrack(c)
  /\ UNCHANGED <<outcome, terminal, attemptVars, held, up>>

SettleLease(c) ==
  /\ \/ /\ Ledger!Settle(c, observed[c])
        /\ Ends(c, {"settling"},
                IF Ceil(observed[c]) > reserved[c] THEN "overrun" ELSE OwnReply(c))
     \/ /\ status[c] = "expired"
        /\ Ends(c, {"settling"}, "lease_lost")
        /\ UNCHANGED ledgerVars
  /\ Untrack(c)
  /\ UNCHANGED <<outcome, terminal, attemptVars, held, up>>

\* Mutant: the lease is released before the terminal event is written.
ReleaseLeaseFirst(c) ==
  /\ Mode[c] = "reserved_concurrent" /\ ~Settles(c)
  /\ Ends(c, {"stopping"}, "error")
  /\ \/ Ledger!Release(c)
     \/ status[c] # "active" /\ UNCHANGED ledgerVars
  /\ Untrack(c)
  /\ UNCHANGED <<outcome, terminal, attemptVars, held, up>>

\* release_tracked_budget_reservation; an expired lease is left as it is.
ReleaseLease(c) ==
  /\ Mode[c] = "reserved_concurrent" /\ ~Settles(c)
  /\ Ends(c, {"closing"}, "error")
  /\ \/ Ledger!Release(c)
     \/ status[c] # "active" /\ UNCHANGED ledgerVars
  /\ Untrack(c)
  /\ UNCHANGED <<outcome, terminal, attemptVars, held, up>>

\* The transaction of the settlement or release fails; the lease is untracked.
CloseFails(c) ==
  /\ "ledger_store" \in Fault
  /\ Mode[c] = "reserved_concurrent"
  /\ Ends(c, IF Settles(c) THEN {"settling"} ELSE {"closing"}, "error")
  /\ Untrack(c)
  /\ UNCHANGED <<ledgerVars, outcome, terminal, attemptVars, held, up>>

\* Mutant: only a result leaves the scope.
LeaveScopeOnResult(c) ==
  /\ Mode[c] = "sequential"
  /\ Ends(c, {"closing"}, OwnReply(c))
  /\ held' = IF outcome[c] = "returned" THEN held \ {Token(c)} ELSE held
  /\ UNCHANGED <<ledgerVars, outcome, terminal, attemptVars, keeperVars, up>>

LeaveScope(c) ==
  /\ Mode[c] = "sequential"
  /\ Ends(c, {"closing"}, OwnReply(c))
  /\ held' = held \ {Token(c)}
  /\ UNCHANGED <<ledgerVars, outcome, terminal, attemptVars, keeperVars, up>>

-----------------------------------------------------------------------------
(* The lease keeper, the clock and crashes *)

\* renew_once() takes a copy of the tracked leases of its process.
BeginSweep(p) ==
  /\ up[p] /\ sweep[p] = {}
  /\ sweep' = [sweep EXCEPT ![p] = {c \in tracked : Home[c] = p}]
  /\ sweep'[p] # {}
  /\ UNCHANGED <<ledgerVars, callVars, attemptVars, tracked, lost, held, up>>

\* Mutant: a sweep takes a lease back that has expired.
SweepRevives(c, t) ==
  /\ up[Home[c]] /\ c \in sweep[Home[c]]
  /\ now + LeaseTTL <= MaxTime
  /\ sweep' = [sweep EXCEPT ![Home[c]] = @ \ {c}]
  /\ status' = [status EXCEPT ![c] = "active"]
  /\ expires' = [expires EXCEPT ![c] = t + LeaseTTL]
  /\ UNCHANGED <<now, cap, root, reserved, settledCost, table, cost, covered>>
  /\ UNCHANGED <<callVars, attemptVars, tracked, lost, held, up>>

\* One lease of the copy is renewed, or reported lost: it is no longer active,
\* it is overdue, or the renewal raised.
SweepOne(c, t) ==
  /\ up[Home[c]] /\ c \in sweep[Home[c]]
  /\ sweep' = [sweep EXCEPT ![Home[c]] = @ \ {c}]
  /\ \/ now + LeaseTTL <= MaxTime /\ Ledger!Renew(c, t) /\ UNCHANGED lost
     \/ /\ status[c] # "active" \/ expires[c] <= t \/ "ledger_store" \in Fault
        /\ lost' = lost \cup {c}
        /\ UNCHANGED ledgerVars
  /\ UNCHANGED <<callVars, attemptVars, tracked, held, up>>

\* What the process kept in memory is gone; its rows and leases stay.
Crash(p) ==
  /\ "crash" \in Fault
  /\ up[p]
  /\ up' = [up EXCEPT ![p] = FALSE]
  /\ tracked' = {c \in tracked : Home[c] # p}
  /\ lost' = {c \in lost : Home[c] # p}
  /\ sweep' = [sweep EXCEPT ![p] = {}]
  /\ held' = {h \in held : h[1] # p}
  /\ UNCHANGED <<ledgerVars, callVars, attemptVars>>

Tick == Ledger!Tick /\ UNCHANGED <<callVars, attemptVars, keeperVars, held, up>>

CallStep(c) ==
  \/ \E t \in Ledger!Observed : AcquireLease(c, t)
  \/ Track(c) \/ EnterScope(c) \/ RaiseEarly(c) \/ Start(c) \/ Check(c)
  \/ \E x \in Charge, seen \in BOOLEAN : Attempt(c, x, seen)
  \/ Retry(c) \/ Succeed(c) \/ Fail(c) \/ Cancel(c) \/ Interrupt(c)
  \/ Emit(c) \/ RaiseLate(c)
  \/ AskKeeper(c) \/ SettleLease(c) \/ ReleaseLease(c) \/ CloseFails(c) \/ LeaveScope(c)

Next ==
  \/ Tick
  \/ \E c \in Call : CallStep(c)
  \/ \E p \in Process : BeginSweep(p)
  \/ \E c \in Call, t \in Ledger!Observed : SweepOne(c, t)
  \/ \E p \in Process : Crash(p)

\* An envelope goes on: provider attempts end (the client deadline or the safety
\* ceiling), the retry budget is finite, and the clock moves.
Fairness ==
  /\ WF_vars(Tick)
  /\ \A c \in Call :
       /\ WF_vars(Track(c) \/ Start(c) \/ Check(c))
       /\ WF_vars(Succeed(c) \/ Fail(c))
       /\ WF_vars(Emit(c) \/ AskKeeper(c) \/ SettleLease(c) \/ ReleaseLease(c) \/ LeaveScope(c))

Spec == Init /\ [][Next]_vars

FairSpec == Spec /\ Fairness

-----------------------------------------------------------------------------
(* Properties *)

Points == {"new", "tracking", "preparing", "checking", "running", "responded",
           "stopping", "closing", "settling", "ended"}

TypeOK ==
  /\ Ledger!TypeOK
  /\ pc \in [Call -> Points]
  /\ outcome \in [Call -> {"none", "returned", "raised", "cancelled"}]
  /\ terminal \in [Call -> {"none", "completed", "failed", "cancelled"}]
  /\ reply \in [Call -> {"none", "result", "error", "lease_lost", "overrun"}]
  /\ attempts \in [Call -> 0 .. MaxAttempts]
  /\ priced \in [Call -> 0 .. MaxAttempts]
  /\ observed \in [Call -> Nat] /\ billed \in [Call -> Nat]
  /\ tracked \subseteq Call /\ lost \subseteq Call
  /\ sweep \in [Process -> SUBSET Call]
  /\ held \subseteq Process \X Scope
  /\ up \in [Process -> BOOLEAN]

\* Every step of every envelope, keeper and crash is a step of the ledger or
\* leaves the ledger alone.
ImplementsLedger == Ledger!Spec

Reserved(s)   == {c \in Call : ScopeOf[c] = s /\ Mode[c] = "reserved_concurrent"}
Sequential(s) == {c \in Call : ScopeOf[c] = s /\ Mode[c] = "sequential"}

\* Every attempt of c was priced and reached its row, as far as its runtime
\* records attempts: a text row holds the last one, and none after an error.
Recorded(c) ==
  /\ priced[c] = attempts[c]
  /\ outcome[c] \in {"returned", "raised"} => table[c] # "none"
  /\ outcome[c] # "cancelled"
  /\ Kind[c] = "text" => attempts[c] <= 1 /\ outcome[c] # "raised"

\* Providers never charge a scope more than its cap while its calls stay within
\* their reservations, are recorded, and lose no lease: between the reservation
\* and the row there is no moment at which neither counts.
ChargesWithinCap ==
  \A s \in Scope :
    (\A c \in Reserved(s) :
       Recorded(c) /\ status[c] # "expired" /\ billed[c] <= Grain * reserved[c]) =>
      Total(billed, Reserved(s)) <= Grain * cap[s]

\* A result is handed out only with its cost settled under a lease that was
\* never lost and was not overrun, whatever the keeper and other processes did.
ResultMeansSettled ==
  \A c \in Call :
    Mode[c] = "reserved_concurrent" /\ reply[c] = "result" =>
      /\ status[c] = "settled"
      /\ settledCost[c] = Ceil(observed[c])
      /\ settledCost[c] <= reserved[c]

\* The store never shows custody given back before the terminal event of the
\* call, nor a settlement before its row: a crash loses custody, not evidence.
EvidenceBeforeCustody ==
  \A c \in Call :
    /\ status[c] \in {"settled", "released_error"} => terminal[c] # "none"
    /\ status[c] = "settled" /\ "row_store" \notin Fault => table[c] = "llm_calls"

\* Two calls of one process are never in flight under one sequential scope.
OneCallPerScope ==
  \A s \in Scope : \A c, d \in Sequential(s) :
    c # d /\ Home[c] = Home[d] => pc[c] \in {"new", "ended"} \/ pc[d] \in {"new", "ended"}

\* In one process, the sequential calls of a scope never cost more than its
\* budget, while each stays within what it asked for and returns its result.
SequentialWithinBudget ==
  \A s \in Scope :
    /\ \A c, d \in Sequential(s) : Home[c] = Home[d]
    /\ \A c \in Sequential(s) : Recorded(c) /\ outcome[c] # "raised" /\ billed[c] <= Asked[c]
    => Total(billed, Sequential(s)) <= MaxBudget[s]

\* A call that ended in a living process holds no running lease, no place in the
\* keeper and no scope token.
CustodyEndsWithCall ==
  /\ \A c \in Call : pc[c] = "ended" /\ up[Home[c]] =>
       c \notin tracked /\ (status[c] = "active" => expires[c] <= now)
  /\ \A h \in held : \E c \in Call :
       Mode[c] = "sequential" /\ Token(c) = h /\ pc[c] \notin {"new", "ended"}

\* Every lease is settled, released, or runs out, even when its process dies,
\* its keeper stalls or the transaction that ends it fails.
LeaseEnds == \A c \in Call : status[c] = "active" ~> (status[c] # "active" \/ expires[c] <= now)
=============================================================================
