------------------------------ MODULE RateLimiter ------------------------------
(***************************************************************************)
(* acquire() and aacquire() of llm_client/utils/rate_limit.py around one   *)
(* provider attempt, and the cooldown the retry loop registers after it    *)
(* (execution/execution_kernel.py): wait for the cooldown of the provider, *)
(* for a permit of the process-local semaphore, for a shared lease; call;  *)
(* give both back.                                                         *)
(*                                                                         *)
(* An attempt is one entry into the context manager; the retries of a call *)
(* are attempts of the same process.  Sync and async callers of a process  *)
(* use separate semaphores.                                                *)
(***************************************************************************)
EXTENDS ProviderCoordination

CONSTANTS Process,
          Home,          \* the process of an attempt
          IsAsync,       \* whether an attempt uses aacquire()
          LocalLimit,    \* concurrent requests of a provider, by semaphore
          Poll,          \* shared_poll_interval_s
          MaxCall,       \* client timeout or safety ceiling of a provider call
          Fault          \* the faults that may happen

Faults == {"cancel", "store", "crash"}

ASSUME LimiterAssumption ==
  /\ Home \in [Attempt -> Process]
  /\ IsAsync \in [Attempt -> BOOLEAN]
  /\ LocalLimit \in [Provider -> Nat \ {0}]
  /\ Poll \in Nat \ {0}
  /\ MaxCall \in Nat
  /\ Fault \subseteq Faults

VARIABLES pc,        \* where an attempt stands
          timer,     \* how long it sleeps, or may still be in the provider call
          limited,   \* attempts that leave the context with a rate-limit error
          permits,   \* value of a semaphore
          up         \* whether a process is alive

vars == <<dbVars, pc, timer, limited, permits, up>>

\* _sync_sems and _async_sems of a process, by provider.
Sem == Process \X BOOLEAN \X Provider

SemOf(a) == <<Home[a], IsAsync[a], ProviderOf[a]>>

Init ==
  /\ DbInit
  /\ pc = [a \in Attempt |-> "new"]
  /\ timer = [a \in Attempt |-> 0]
  /\ limited = {}
  /\ permits = [s \in Sem |-> LocalLimit[s[3]]]
  /\ up = [p \in Process |-> TRUE]

\* a is at the point from, in a living process, and goes on to point to.
Goes(a, from, to) ==
  /\ up[Home[a]]
  /\ pc[a] = from
  /\ pc' = [pc EXCEPT ![a] = to]

Sets(a, t) == timer' = [timer EXCEPT ![a] = t]

-----------------------------------------------------------------------------
(* Waiting *)

Begin(a) ==
  /\ Goes(a, "new", "cooling")
  /\ UNCHANGED <<dbVars, timer, limited, permits, up>>

\* The cooldown is over, or cannot be read, which counts as over.
PassCooldown(a) ==
  /\ timer[a] = 0
  /\ cooldown[ProviderOf[a]] = 0 \/ "store" \in Fault
  /\ Goes(a, "cooling", "queued")
  /\ UNCHANGED <<dbVars, timer, limited, permits, up>>

\* Sleep for what is left of it, and look again.
SleepThroughCooldown(a) ==
  /\ timer[a] = 0
  /\ cooldown[ProviderOf[a]] > 0
  /\ Goes(a, "cooling", "cooling")
  /\ Sets(a, cooldown[ProviderOf[a]])
  /\ UNCHANGED <<dbVars, limited, permits, up>>

UsesSharedLimit(a) == SharedLimit[ProviderOf[a]] > 0

\* The local permit comes first; without a shared cap the call starts at once.
TakePermit(a) ==
  /\ permits[SemOf(a)] > 0
  /\ permits' = [permits EXCEPT ![SemOf(a)] = @ - 1]
  /\ IF UsesSharedLimit(a)
     THEN Goes(a, "queued", "leasing") /\ UNCHANGED timer
     ELSE Goes(a, "queued", "calling") /\ Sets(a, MaxCall)
  /\ UNCHANGED <<dbVars, limited, up>>

TakeLease(a, lag) ==
  /\ timer[a] = 0
  /\ Goes(a, "leasing", "calling")
  /\ Claim(a, lag)
  /\ Sets(a, MaxCall)
  /\ UNCHANGED <<limited, permits, up>>

\* The time to wait is what the earliest lease of the provider has left, by the
\* clock that was read, and at least the poll interval.
WaitForLease(a, lag) ==
  /\ timer[a] = 0
  /\ Goes(a, "leasing", "leasing")
  /\ Refuse(a, lag)
  /\ \E b \in Taken(ProviderOf[a], lag) :
       /\ \A c \in Taken(ProviderOf[a], lag) : left[b] <= left[c]
       /\ Sets(a, Later(Poll, left[b] + lag))
  /\ UNCHANGED <<limited, permits, up>>

\* The store cannot be opened or written: poll again.
PollAgain(a) ==
  /\ "store" \in Fault
  /\ timer[a] = 0
  /\ Goes(a, "leasing", "leasing")
  /\ Sets(a, Poll)
  /\ UNCHANGED <<dbVars, limited, permits, up>>

\* The task is cancelled, or the thread interrupted, in one of the waits.  The
\* wait for a lease is outside the try block: its permit is never given back.
Cancel(a) ==
  /\ "cancel" \in Fault
  /\ \/ Goes(a, "cooling", "gone")
     \/ Goes(a, "queued", "gone")
     \/ timer[a] > 0 /\ Goes(a, "leasing", "leaked")
  /\ Sets(a, 0)
  /\ UNCHANGED <<dbVars, limited, permits, up>>

-----------------------------------------------------------------------------
(* The call and after it *)

EndCall(a) ==
  /\ Goes(a, "calling", "releasing")
  /\ Sets(a, 0)
  /\ limited' \in {limited, limited \cup {a}}
  /\ UNCHANGED <<dbVars, permits, up>>

\* Mutant: an attempt that failed leaves without its finally block.
ReleaseAfterSuccess(a) ==
  /\ Goes(a, "releasing", IF a \in limited THEN "reporting" ELSE "done")
  /\ ReleaseLease(a)
  /\ permits' = IF a \in limited THEN permits ELSE [permits EXCEPT ![SemOf(a)] = @ + 1]
  /\ limited' = limited \ {a}
  /\ UNCHANGED <<timer, up>>

\* Mutant: both the context manager and its caller release the permit.
ReleaseTwice(a) ==
  /\ Goes(a, "releasing", IF a \in limited THEN "reporting" ELSE "done")
  /\ ReleaseLease(a)
  /\ permits' = [permits EXCEPT ![SemOf(a)] = @ + 2]
  /\ limited' = limited \ {a}
  /\ UNCHANGED <<timer, up>>

\* Lease first, permit second.  A lease the store does not delete runs out.
Release(a) ==
  /\ Goes(a, "releasing", IF a \in limited THEN "reporting" ELSE "done")
  /\ \/ ReleaseLease(a)
     \/ "store" \in Fault /\ UNCHANGED dbVars
  /\ permits' = [permits EXCEPT ![SemOf(a)] = @ + 1]
  /\ limited' = limited \ {a}
  /\ UNCHANGED <<timer, up>>

\* register_rate_limit_cooldown, in the error handler of the retry loop.
Report(a, d) ==
  /\ Goes(a, "reporting", "recording")
  /\ ReadCooldown(a, d)
  /\ UNCHANGED <<timer, limited, permits, up>>

Record(a) ==
  /\ Goes(a, "recording", "done")
  /\ \/ WriteCooldown(a)
     \/ "store" \in Fault /\ DropCooldowns({a})
  /\ UNCHANGED <<timer, limited, permits, up>>

-----------------------------------------------------------------------------

\* What the process kept in memory is gone; its leases stay.
Crash(p) ==
  /\ "crash" \in Fault
  /\ up[p]
  /\ up' = [up EXCEPT ![p] = FALSE]
  /\ pc' = [a \in Attempt |-> IF Home[a] = p THEN "gone" ELSE pc[a]]
  /\ timer' = [a \in Attempt |-> IF Home[a] = p THEN 0 ELSE timer[a]]
  /\ limited' = {a \in limited : Home[a] # p}
  /\ DropCooldowns({a \in Attempt : Home[a] = p})
  /\ UNCHANGED permits

\* No provider call outlives its ceiling.
Tick ==
  /\ \A a \in Attempt : pc[a] = "calling" => timer[a] > 0
  /\ timer' = [a \in Attempt |-> Sooner(timer[a])]
  /\ DbTick
  /\ UNCHANGED <<pc, limited, permits, up>>

Next ==
  \/ Tick
  \/ \E a \in Attempt :
       \/ Begin(a) \/ PassCooldown(a) \/ SleepThroughCooldown(a) \/ TakePermit(a)
       \/ \E lag \in 0 .. MaxLag : TakeLease(a, lag) \/ WaitForLease(a, lag)
       \/ PollAgain(a) \/ Cancel(a) \/ EndCall(a) \/ Release(a)
       \/ \E d \in Delay : Report(a, d)
       \/ Record(a)
  \/ \E p \in Process : Crash(p)

\* Threads and tasks run, the clock moves, calls end, and a waiter whose polls
\* find room again and again gets a lease: the store does not fail for ever.
Fairness ==
  /\ WF_vars(Tick)
  /\ \A a \in Attempt :
       /\ WF_vars(PassCooldown(a) \/ SleepThroughCooldown(a))
       /\ SF_vars(TakePermit(a))
       /\ SF_vars(\E lag \in 0 .. MaxLag : TakeLease(a, lag))
       /\ WF_vars(\E lag \in 0 .. MaxLag : WaitForLease(a, lag))
       /\ WF_vars(EndCall(a) \/ Release(a) \/ Record(a))

Spec == Init /\ [][Next]_vars

FairSpec == Spec /\ Fairness

-----------------------------------------------------------------------------
(* Properties *)

Points == {"new", "cooling", "queued", "leasing", "calling", "releasing",
           "reporting", "recording", "done", "gone", "leaked"}

TypeOK ==
  /\ DbTypeOK
  /\ pc \in [Attempt -> Points]
  /\ timer \in [Attempt -> 0 .. LeaseTTL + MaxLag + MaxDelay + MaxCall + Poll]
  /\ limited \subseteq Attempt
  /\ permits \in [Sem -> Nat]
  /\ \A s \in Sem : permits[s] <= LocalLimit[s[3]]
  /\ up \in [Process -> BOOLEAN]

At(P) == {a \in Attempt : pc[a] \in P}

\* The calls in flight to a provider, of all processes together, stay within the
\* shared cap, through crashes, failed releases, cancellations and claims that
\* were delayed by the write lock (rate_limit.py takes a lease before a call).
CallsWithinSharedCap ==
  \A p \in Provider : SharedLimit[p] > 0 =>
    Cardinality({a \in At({"calling"}) : ProviderOf[a] = p}) <= SharedLimit[p]

\* The attempts that a permit of s went to and that did not give it back.
Held == {"leasing", "calling", "releasing", "leaked"}

Holders(s) == {a \in At(Held) : SemOf(a) = s}

\* Every permit of a living process is free, held by an attempt that waits for a
\* lease, calls or releases, or was lost by a cancellation in the wait for a lease
\* (the finally block of acquire() and aacquire()).
PermitsAccounted ==
  \A s \in Sem : up[s[1]] =>
    permits[s] + Cardinality(Holders(s)) = LocalLimit[s[3]]

\* A waiter is served: no attempt waits for ever for a cooldown, a permit or a
\* lease, even when processes died with leases, unless its semaphore lost a permit
\* (expired leases are deleted by the next claim).
Waiting(a) == pc[a] \in {"cooling", "queued", "leasing"}

WaitersServed ==
  \A a \in Attempt :
    Waiting(a) ~> (~Waiting(a) \/ \E b \in At({"leaked"}) : SemOf(b) = SemOf(a))
=============================================================================
