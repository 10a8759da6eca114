-------------------------- MODULE ProviderCoordination --------------------------
(***************************************************************************)
(* The SQLite backend of llm_client/utils/provider_coordination.py that    *)
(* all processes of a host share: provider leases, which cap the calls in  *)
(* flight, and the cooldown of a provider that answered "too many          *)
(* requests".                                                              *)
(*                                                                         *)
(* A lease is claimed in one BEGIN IMMEDIATE transaction.  A cooldown is   *)
(* read and then written outside of one, so others come in between.        *)
(* Instants are kept as the time left until them, which Tick counts down.  *)
(***************************************************************************)
EXTENDS Integers, FiniteSets

CONSTANTS Attempt,       \* provider attempts; each claims at most one lease
          Provider,
          ProviderOf,    \* the provider of an attempt
          SharedLimit,   \* shared_limit of a provider, 0 for no shared cap
          LeaseTTL,      \* lease_ttl_s
          MaxLag,        \* how long a claim may wait for the write lock
          Delay,         \* cooldowns asked for
          MaxDelay       \* bound on such a cooldown

ASSUME CoordinationAssumption ==
  /\ IsFiniteSet(Attempt)
  /\ ProviderOf \in [Attempt -> Provider]
  /\ SharedLimit \in [Provider -> Nat]
  /\ LeaseTTL \in Nat /\ MaxLag \in Nat /\ MaxDelay \in Nat
  /\ Delay \subseteq 1 .. MaxDelay

VARIABLES rows,       \* provider_leases: the attempts that have a row
          left,       \* expires_at of that row, 0 without one
          cooldown,   \* provider_cooldowns.cooldown_until
          recording,  \* the attempts between the SELECT and the write of a cooldown
          found,      \* existing_until of such a registration, else 0
          asked       \* requested_until of such a registration, else 0

dbVars == <<rows, left, cooldown, recording, found, asked>>

DbInit ==
  /\ rows = {} /\ recording = {}
  /\ left = [a \in Attempt |-> 0]
  /\ cooldown = [p \in Provider |-> 0]
  /\ found = [a \in Attempt |-> 0]
  /\ asked = [a \in Attempt |-> 0]

-----------------------------------------------------------------------------
(* Leases *)

\* Mutant: expired rows are never deleted.
KeptForever(lag) == rows

\* What DELETE leaves when the clock was read lag ago: the rows of all providers
\* that had not expired then.
Kept(lag) == {a \in rows : left[a] + lag > 0}

Taken(p, lag) == {a \in Kept(lag) : ProviderOf[a] = p}

\* Mutant: the cap is off by one.
HasRoomForOneMore(p, lag) == Cardinality(Taken(p, lag)) <= SharedLimit[p]

HasRoom(p, lag) == Cardinality(Taken(p, lag)) < SharedLimit[p]

\* The rows become S, and expire as f says.
SetRows(S, f) ==
  /\ rows' = S
  /\ left' = [a \in Attempt |-> IF a \in S THEN f[a] ELSE 0]
  /\ UNCHANGED <<cooldown, recording, found, asked>>

\* try_acquire_lease returns a lease; it expires by the clock that was read.
Claim(a, lag) ==
  /\ a \notin rows
  /\ HasRoom(ProviderOf[a], lag)
  /\ SetRows(Kept(lag) \cup {a}, [left EXCEPT ![a] = LeaseTTL - lag])

\* try_acquire_lease returns a time to wait instead.
Refuse(a, lag) ==
  /\ a \notin rows
  /\ ~HasRoom(ProviderOf[a], lag)
  /\ SetRows(Kept(lag), left)

ReleaseLease(a) == SetRows(rows \ {a}, left)

-----------------------------------------------------------------------------
(* Cooldowns *)

Later(m, n) == IF m > n THEN m ELSE n

\* register_cooldown reads the cooldown there is, in a statement of its own ...
ReadCooldown(a, d) ==
  /\ a \notin recording
  /\ recording' = recording \cup {a}
  /\ found' = [found EXCEPT ![a] = cooldown[ProviderOf[a]]]
  /\ asked' = [asked EXCEPT ![a] = d]
  /\ UNCHANGED <<rows, left, cooldown>>

\* The registrations of S are over.
EndRecording(S) ==
  /\ recording' = recording \ S
  /\ found' = [a \in Attempt |-> IF a \in S THEN 0 ELSE found[a]]
  /\ asked' = [a \in Attempt |-> IF a \in S THEN 0 ELSE asked[a]]

\* ... and overwrites it with the later of what it read and what is asked for.
WriteCooldown(a) ==
  /\ a \in recording
  /\ cooldown' = [cooldown EXCEPT ![ProviderOf[a]] = Later(found[a], asked[a])]
  /\ EndRecording({a})
  /\ UNCHANGED <<rows, left>>

\* The write fails, or its process dies.
DropCooldowns(S) == EndRecording(S) /\ UNCHANGED <<rows, left, cooldown>>

-----------------------------------------------------------------------------

Sooner(n) == IF n > 0 THEN n - 1 ELSE 0

\* Below -MaxLag a row is expired whenever the clock was read.
DbTick ==
  /\ left' = [a \in Attempt |->
       IF a \in rows /\ left[a] > -MaxLag THEN left[a] - 1 ELSE left[a]]
  /\ cooldown' = [p \in Provider |-> Sooner(cooldown[p])]
  /\ found' = [a \in Attempt |-> Sooner(found[a])]
  /\ asked' = [a \in Attempt |-> Sooner(asked[a])]
  /\ UNCHANGED <<rows, recording>>

DbNext ==
  \/ DbTick
  \/ \E a \in Attempt, lag \in 0 .. MaxLag : Claim(a, lag) \/ Refuse(a, lag)
  \/ \E a \in Attempt : ReleaseLease(a) \/ WriteCooldown(a)
  \/ \E a \in Attempt, d \in Delay : ReadCooldown(a, d)
  \/ \E S \in SUBSET Attempt : DropCooldowns(S)

DbSpec == DbInit /\ [][DbNext]_dbVars

-----------------------------------------------------------------------------
(* Properties *)

DbTypeOK ==
  /\ rows \subseteq Attempt /\ recording \subseteq Attempt
  /\ left \in [Attempt -> -MaxLag .. LeaseTTL]
  /\ cooldown \in [Provider -> 0 .. MaxDelay]
  /\ found \in [Attempt -> 0 .. MaxDelay]
  /\ asked \in [Attempt -> 0 .. MaxDelay]

\* The lease table never holds more rows of a provider than its shared cap,
\* whatever the order of the claims and releases of the processes
\* (try_acquire_lease counts and inserts in one transaction).
RowsWithinCap ==
  \A p \in Provider : Cardinality({a \in rows : ProviderOf[a] = p}) <= SharedLimit[p]

\* A registration never shortens the cooldown of its provider: only time does
\* (register_cooldown keeps the later of the two instants).
CooldownMonotonic ==
  [][\A p \in Provider :
       cooldown'[p] < cooldown[p] => cooldown'[p] = Sooner(cooldown[p]) /\ recording' = recording
    ]_dbVars
=============================================================================
