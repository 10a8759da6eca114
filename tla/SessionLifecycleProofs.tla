------------------------- MODULE SessionLifecycleProofs -------------------------
(***************************************************************************)
(* What holds of the claims for every number of agents, sessions, lanes,   *)
(* worktrees and changes.                                                  *)
(***************************************************************************)
EXTENDS SessionLifecycle, SequenceTheorems, TLAPS

-----------------------------------------------------------------------------
(* The inductive invariant *)

Files == [Lane -> Claim \cup {NoClaim}]

RegistryTyped == registry \in Files

\* Time does not overtake the changes, and a claim outlives its heartbeat.
ClockTyped ==
  /\ writes \in Nat /\ lapsed \in 0..writes /\ cold \in 0..writes
  /\ lapsed <= cold

StampedBy(c, n) == c.updated \in 1..n /\ c.expires \in 1..n /\ c.beat \in 1..n

StampsTyped == \A l \in Lane : OnFile(l) => StampedBy(registry[l], writes)

ProjectionTyped ==
  \/ projection = NoProjection
  \/ projection \in [of: Files, live: SUBSET Lane]

SetsTyped == worktrees \subseteq Worktree /\ unvetted \subseteq Lane

\* What an operation remembers is a claim of the past.
OpTyped ==
  \A s \in Session : \/ op[s] = Idle
                     \/ op[s] \in Operation /\ StampedBy(op[s].seen, writes)
                        /\ op[s].at <= writes

OpDomain == op \in [Session -> Operation \cup {Idle}]

\* The projection only calls files live that were.
ProjectionSound ==
  projection # NoProjection =>
    \A l \in projection.live :
      projection.of[l] # NoClaim /\ projection.of[l].status \in LiveStatus

\* Since a close looked, nothing became active in its worktree but by a later change.
WatchedBy(s) ==
  op[s].step \in {"close", "remove"} =>
    \A m \in Lane :
      /\ WorktreeOf[m] = WorktreeOf[op[s].lane] /\ Active(m)
      /\ m # op[s].lane \/ op[s].step = "remove"
      => registry[m].updated > op[s].at

Watched == \A s \in Session : WatchedBy(s)

Typed == /\ RegistryTyped /\ ClockTyped /\ StampsTyped /\ ProjectionTyped /\ SetsTyped
         /\ OpTyped /\ OpDomain

Inv == Typed /\ ProjectionSound /\ Watched /\ HeldLanesCompatible

-----------------------------------------------------------------------------
(* Changes of the registry *)

\* A change leaves each file as it was or makes it what was asked for.
LEMMA CommitFiles ==
  ASSUME RegistryTyped, NEW r \in Files, NEW S \in SUBSET Lane, Commit(r, S)
  PROVE  /\ registry' \in Files
         /\ \A l \in Lane : registry'[l] \in {registry[l], r[l]}
         /\ writes' = writes + 1
         /\ UNCHANGED <<lapsed, cold, worktrees>>
  BY DEF Commit, RegistryTyped, Files

\* A change of one lane is made or is not made.
LEMMA PutFiles ==
  ASSUME RegistryTyped, NEW l \in Lane, NEW c \in Claim, Put(l, c)
  PROVE  /\ registry' = [registry EXCEPT ![l] = c]
         /\ registry' \in Files
         /\ registry'[l] = c
         /\ \A m \in Lane \ {l} : registry'[m] = registry[m]
         /\ writes' = writes + 1
         /\ UNCHANGED <<lapsed, cold, worktrees>>
<1> DEFINE r == [registry EXCEPT ![l] = c]
<1>1. r \in Files
  BY DEF RegistryTyped, Files
<1>2. registry' = r
  <2>1. ASSUME NEW done \in (SUBSET {l}) \ {{}},
               registry' = [m \in Lane |-> IF m \in done THEN r[m] ELSE registry[m]]
        PROVE  registry' = r
    <3>1. done = {l}
      OBVIOUS
    <3>2. \A m \in Lane : registry'[m] = r[m]
      BY <2>1, <3>1 DEF RegistryTyped, Files
    <3>3. QED
      BY <2>1, <3>2, <1>1 DEF Files
  <2>2. QED
    BY <2>1 DEF Put, Commit
<1>3. QED
  BY <1>1, <1>2 DEF Put, Commit, RegistryTyped, Files

\* A projection that is written only calls live what is.
LEMMA CompiledSound ==
  ASSUME NEW r \in Files
  PROVE  /\ Compiled(r) \in [of: Files, live: SUBSET Lane]
         /\ \A l \in Compiled(r).live :
              Compiled(r).of[l] # NoClaim /\ Compiled(r).of[l].status \in LiveStatus
  BY DEF Compiled

LEMMA CommitProjection ==
  ASSUME RegistryTyped, ProjectionTyped, ProjectionSound,
         NEW r \in Files, NEW S \in SUBSET Lane, Commit(r, S)
  PROVE  ProjectionTyped' /\ ProjectionSound'
<1>1. CASE projection' = Compiled(r)
  BY <1>1, CompiledSound DEF ProjectionTyped, ProjectionSound
<1>2. CASE UNCHANGED projection
  BY <1>2 DEF ProjectionTyped, ProjectionSound
<1>3. QED
  BY <1>1, <1>2 DEF Commit

-----------------------------------------------------------------------------
(* What a change does to one lane *)

\* It keeps its file, loses it, or gets one with the stamp of the change.
Touched(l) ==
  \/ registry'[l] \in {registry[l], NoClaim}
  \/ registry'[l].updated = writes + 1 /\ StampedBy(registry'[l], writes + 1)

\* It is held after the change only as it was held before, or outside the checks.
Tame(l) ==
  Held(l)' => \/ l \in unvetted'
              \/ Held(l) /\ registry'[l].shape = registry[l].shape /\ l \notin unvetted

\* What is active after the change was so before, or was changed by it.
Fresh ==
  /\ writes \in Nat /\ writes' \in Nat /\ writes' >= writes
  /\ \A m \in Lane : Active(m)' =>
       \/ registry'[m].updated > writes
       \/ Active(m) /\ registry'[m].updated = registry[m].updated

FilesKept == /\ RegistryTyped' /\ ClockTyped' /\ StampsTyped' /\ Fresh

LEMMA TouchedKeeps ==
  ASSUME Typed, registry' \in Files, writes' = writes + 1,
         UNCHANGED <<lapsed, cold>>,
         \A l \in Lane : Touched(l)
  PROVE  FilesKept
<1> USE DEF Typed
<1>1. ClockTyped' /\ writes \in Nat /\ writes' \in Nat /\ writes' >= writes
  BY DEF ClockTyped
<1>2. StampsTyped'
  BY NullAssumption, <1>1 DEF StampsTyped, Touched, OnFile, StampedBy, RegistryTyped, Files, Claim
<1>3. Fresh
  BY NullAssumption, <1>1 DEF Fresh, Touched, Active, IsLive, OnFile, Expired
<1>4. QED
  BY <1>1, <1>2, <1>3 DEF FilesKept, RegistryTyped

LEMMA TameKeeps ==
  ASSUME HeldLanesCompatible, \A l \in Lane : Tame(l)
  PROVE  HeldLanesCompatible'
<1> SUFFICES ASSUME NEW l \in Lane, NEW m \in Lane,
                    l # m, Held(l)', Held(m)', Conflict(l, m)',
                    l \notin unvetted', m \notin unvetted'
             PROVE  FALSE
  BY DEF HeldLanesCompatible
<1>1. /\ Held(l) /\ Held(m) /\ l \notin unvetted /\ m \notin unvetted
      /\ registry'[l].shape = registry[l].shape /\ registry'[m].shape = registry[m].shape
  BY DEF Tame
<1>2. Conflict(l, m)
  BY <1>1 DEF Conflict, Of
<1>3. QED
  BY <1>1, <1>2 DEF HeldLanesCompatible

\* A lane whose file the change keeps and whose history it does not shorten is tame.
LEMMA KeptIsTame ==
  ASSUME NEW l \in Lane, registry'[l] = registry[l], lapsed' = lapsed,
         l \in unvetted => l \in unvetted'
  PROVE  Tame(l)
  BY DEF Tame, Held, Active, Preserved, IsLive, OnFile, Expired

\* A lane without a file is tame.
LEMMA GoneIsTame ==
  ASSUME NEW l \in Lane, registry'[l] = NoClaim
  PROVE  Tame(l)
  BY DEF Tame, Held, Active, Preserved, IsLive, OnFile

-----------------------------------------------------------------------------
(* The operations of coordination_claims.py *)

LEMMA ChangedClaim ==
  ASSUME NEW c \in Claim, NEW status \in Status, NEW n \in Nat
  PROVE  [c EXCEPT !.status = status, !.updated = n] \in Claim
  BY DEF Claim

LEMMA StampedClaim ==
  ASSUME Typed, NEW l \in Lane, OnFile(l), NEW status \in Status
  PROVE  /\ Stamped(l, status) \in Claim
         /\ Stamped(l, status).status = status
         /\ Stamped(l, status).updated = writes + 1
         /\ Stamped(l, status).shape = registry[l].shape
         /\ Stamped(l, status).expires = registry[l].expires
         /\ Stamped(l, status).session = registry[l].session
         /\ StampedBy(Stamped(l, status), writes + 1)
<1>1. registry[l] \in Claim
  BY DEF Typed, RegistryTyped, Files, OnFile
<1>2. StampedBy(registry[l], writes) /\ writes \in Nat
  BY DEF Typed, StampsTyped, ClockTyped
<1>3. Stamped(l, status) = [registry[l] EXCEPT !.status = status, !.updated = writes + 1]
  BY DEF Stamped
<1>4. [registry[l] EXCEPT !.status = status, !.updated = writes + 1] \in Claim
  <2>1. writes + 1 \in Nat
    BY <1>2
  <2> HIDE <1>2
  <2>2. \A c \in Claim, n \in Nat : [c EXCEPT !.status = status, !.updated = n] \in Claim
    BY ChangedClaim
  <2>3. QED
    BY <1>1, <2>1, <2>2
<1>5. /\ Stamped(l, status).status = status
      /\ Stamped(l, status).updated = writes + 1
      /\ Stamped(l, status).shape = registry[l].shape
      /\ Stamped(l, status).expires = registry[l].expires
      /\ Stamped(l, status).session = registry[l].session
      /\ Stamped(l, status).beat = registry[l].beat
  BY <1>1, <1>3 DEF Claim
<1>6. QED
  BY <1>2, <1>3, <1>4, <1>5 DEF StampedBy

\* The claim that create_claim writes.
LEMMA CreateFiles ==
  ASSUME Typed, NEW s \in Session, NEW l \in Lane, NEW c \in Shape, CreateClaim(s, l, c)
  PROVE  /\ FilesKept
         /\ registry'[l].shape = c /\ UNCHANGED <<lapsed, cold, worktrees>>
         /\ \A m \in Lane \ {l} : registry'[m] = registry[m]
<1> DEFINE new == [status |-> "active", session |-> s, shape |-> c,
                   expires |-> writes + 1, beat |-> writes + 1, updated |-> writes + 1]
<1>1. new \in Claim /\ new.updated = writes + 1 /\ StampedBy(new, writes + 1) /\ new.shape = c
  BY DEF Claim, Status, LiveStatus, Typed, ClockTyped, StampedBy
<1>2. Put(l, new)
  BY DEF CreateClaim
<1> HIDE DEF new
<1>3. /\ registry' \in Files /\ writes' = writes + 1
      /\ registry'[l] = new
      /\ \A m \in Lane \ {l} : registry'[m] = registry[m]
      /\ UNCHANGED <<lapsed, cold, worktrees>>
  BY <1>1, <1>2, PutFiles DEF Typed
<1>4. \A m \in Lane : Touched(m)
  BY <1>1, <1>3 DEF Touched
<1>5. QED
  BY <1>1, <1>3, <1>4, TouchedKeeps

LEMMA OverlappingSymmetric ==
  ASSUME NEW P, NEW Q, Overlapping(P, Q)
  PROVE  Overlapping(Q, P)
  BY DEF Overlapping, Overlap

\* The checks of create_claim keep a new claim apart from all that are held.
LEMMA CreateCompatible ==
  ASSUME Typed, HeldLanesCompatible,
         NEW s \in Session, NEW l \in Lane, NEW c \in Shape, CreateClaim(s, l, c)
  PROVE  HeldLanesCompatible'
<1>1. /\ registry'[l].shape = c /\ UNCHANGED lapsed
      /\ \A m \in Lane \ {l} : registry'[m] = registry[m]
      /\ \A m \in Lane \ {l} : m \in unvetted => m \in unvetted'
  BY CreateFiles DEF CreateClaim
<1>2. \A m \in Lane \ {l} : (Held(m)' <=> Held(m)) /\ Of(m)' = Of(m)
  BY <1>1 DEF Held, Active, Preserved, IsLive, OnFile, Expired, Of
<1>3. ASSUME NEW m \in Lane \ {l}, Held(m)
      PROVE  ~Conflict(l, m)' /\ ~Conflict(m, l)'
  <2>1. Of(m)' = Of(m) /\ Of(l)' = c
    BY <1>1 DEF Of
  <2>2. ~(AgentOf[l] # AgentOf[m] /\ c.type = "write" /\ Of(m).type = "write"
          /\ Overlapping(c.paths, Of(m).paths))
    BY <1>3 DEF CreateClaim, SparesPreserved, NoHardConflict, Held
  <2>3. ~(c.plan = Of(m).plan /\ IsRoot(c) /\ IsRoot(Of(m)))
    <3>1. CASE Preserved(m)
      BY <3>1 DEF CreateClaim, SparesPreserved
    <3>2. CASE Active(m)
      BY <3>2 DEF CreateClaim, HierarchySound
    <3>3. QED
      BY <1>3, <3>1, <3>2 DEF Held
  <2>4. QED
    BY <2>1, <2>2, <2>3, OverlappingSymmetric DEF Conflict
<1>4. QED
  BY <1>1, <1>2, <1>3 DEF HeldLanesCompatible, Conflict

\* A claim that grants no more than the file of its lane did.
Milder(l, c) ==
  \/ c \in {registry[l], NoClaim}
  \/ /\ OnFile(l)
     /\ c.updated = writes + 1 /\ StampedBy(c, writes + 1)
     /\ c.shape = registry[l].shape /\ c.expires = registry[l].expires
     /\ c.status \in LiveStatus \cup {"session_ended"} => registry[l].status \in LiveStatus

Quiet == FilesKept /\ ProjectionTyped' /\ ProjectionSound' /\ SetsTyped' /\ \A l \in Lane : Tame(l)

LEMMA MilderQuiet ==
  ASSUME Typed, ProjectionSound, NEW r \in Files, NEW S \in SUBSET Lane, Commit(r, S),
         \A l \in Lane : Milder(l, r[l]),
         \A l \in Lane : l \in unvetted /\ registry'[l] # NoClaim => l \in unvetted',
         unvetted' \subseteq Lane
  PROVE  Quiet
<1>1. /\ registry' \in Files
      /\ \A l \in Lane : registry'[l] \in {registry[l], r[l]}
      /\ writes' = writes + 1 /\ UNCHANGED <<lapsed, cold, worktrees>>
  BY CommitFiles DEF Typed
<1>2. FilesKept
  <2>1. \A l \in Lane : Touched(l)
    BY <1>1 DEF Touched, Milder
  <2>2. QED
    BY <1>1, <2>1, TouchedKeeps
<1>3. ProjectionTyped' /\ ProjectionSound'
  BY CommitProjection DEF Typed
<1>4. ASSUME NEW l \in Lane
      PROVE  Tame(l)
  <2>1. CASE registry'[l] = registry[l]
    <3>1. CASE registry'[l] = NoClaim
      BY <3>1, GoneIsTame
    <3>2. CASE registry'[l] # NoClaim
      BY <3>2, <2>1, <1>1, KeptIsTame
    <3>3. QED
      BY <3>1, <3>2
  <2>2. CASE registry'[l] = NoClaim
    BY <2>2, GoneIsTame
  <2>3. CASE registry'[l] # NoClaim /\ registry'[l] # registry[l]
    <3>1. registry'[l] = r[l] /\ Milder(l, r[l]) /\ r[l] \notin {registry[l], NoClaim}
      BY <2>3, <1>1
    <3>2. ASSUME Held(l)'
          PROVE  Active(l) /\ registry'[l].shape = registry[l].shape
      BY <3>1, <3>2, <1>1 DEF Milder, Held, Active, Preserved, IsLive, OnFile, Expired
    <3>3. QED
      BY <3>2, <2>3 DEF Tame, Held
  <2>4. QED
    BY <2>1, <2>2, <2>3
<1>5. SetsTyped'
  BY <1>1 DEF SetsTyped, Typed
<1>6. QED
  BY <1>2, <1>3, <1>4, <1>5 DEF Quiet

LEMMA HeartbeatQuiet ==
  ASSUME Typed, ProjectionSound, NEW s \in Session, HeartbeatClaims(s)
  PROVE  Quiet
<1> DEFINE touched(l) == [registry[l] EXCEPT !.beat = writes + 1, !.updated = writes + 1]
           r == [l \in Lane |-> IF l \in Mine(s) THEN touched(l) ELSE registry[l]]
<1>1. Mine(s) \in SUBSET Lane /\ writes \in Nat /\ writes + 1 \in Nat
  BY DEF Mine, Typed, ClockTyped
<1>2. \A c \in Claim, n \in Nat : /\ [c EXCEPT !.beat = n, !.updated = n] \in Claim
                                  /\ [c EXCEPT !.beat = n, !.updated = n].status = c.status
                                  /\ [c EXCEPT !.beat = n, !.updated = n].shape = c.shape
                                  /\ [c EXCEPT !.beat = n, !.updated = n].expires = c.expires
                                  /\ [c EXCEPT !.beat = n, !.updated = n].updated = n
                                  /\ [c EXCEPT !.beat = n, !.updated = n].beat = n
  BY DEF Claim
<1>3. ASSUME NEW l \in Mine(s)
      PROVE  /\ OnFile(l) /\ registry[l] \in Claim /\ StampedBy(registry[l], writes)
             /\ registry[l].status \in LiveStatus
  BY DEF Mine, IsLive, OnFile, Typed, RegistryTyped, Files, StampsTyped
<1>4. ASSUME NEW l \in Mine(s)
      PROVE  touched(l) \in Claim /\ Milder(l, touched(l))
  <2>1. /\ touched(l) \in Claim /\ touched(l).status = registry[l].status
        /\ touched(l).shape = registry[l].shape /\ touched(l).expires = registry[l].expires
        /\ touched(l).updated = writes + 1 /\ touched(l).beat = writes + 1
    BY <1>1, <1>2, <1>3
  <2> HIDE DEF touched
  <2>2. StampedBy(touched(l), writes + 1)
    BY <2>1, <1>1, <1>3 DEF StampedBy
  <2>3. QED
    BY <2>1, <2>2, <1>3 DEF Milder
<1> HIDE DEF touched
<1>5. r \in Files /\ \A l \in Lane : Milder(l, r[l])
  BY <1>4 DEF Files, Typed, RegistryTyped, Milder
<1>6. Commit(r, Mine(s)) /\ UNCHANGED unvetted
  BY DEF HeartbeatClaims, touched
<1>7. QED
  BY <1>1, <1>5, <1>6, MilderQuiet DEF Typed, SetsTyped

\* A change that only gives live claims a status that is not live.
LEMMA RetireQuiet ==
  ASSUME Typed, ProjectionSound, NEW S \in SUBSET Lane, NEW status \in Status \ LiveStatus,
         \A l \in S : IsLive(l),
         Commit([l \in Lane |-> IF l \in S THEN Stamped(l, status) ELSE registry[l]], S),
         UNCHANGED unvetted
  PROVE  Quiet
<1> DEFINE r == [l \in Lane |-> IF l \in S THEN Stamped(l, status) ELSE registry[l]]
<1>1. ASSUME NEW l \in S
      PROVE  Stamped(l, status) \in Claim /\ Milder(l, Stamped(l, status))
  BY StampedClaim DEF IsLive, Milder
<1>2. r \in Files /\ \A l \in Lane : Milder(l, r[l])
  BY <1>1 DEF Files, Typed, RegistryTyped, Milder
<1>3. QED
  BY <1>2, MilderQuiet DEF Typed, SetsTyped

LEMMA UnlinkQuiet ==
  ASSUME Typed, ProjectionSound, NEW S \in SUBSET Lane, Unlink(S)
  PROVE  Quiet
<1> DEFINE r == [l \in Lane |-> IF l \in S THEN NoClaim ELSE registry[l]]
<1>1. r \in Files /\ \A l \in Lane : Milder(l, r[l])
  BY DEF Files, Typed, RegistryTyped, Milder
<1>2. QED
  BY <1>1, MilderQuiet DEF Unlink, Typed, SetsTyped

LEMMA StillQuiet ==
  ASSUME Typed, UNCHANGED <<registry, writes, unvetted>>, ClockTyped', lapsed' >= lapsed,
         ProjectionTyped', ProjectionSound', SetsTyped'
  PROVE  Quiet
<1>1. \A l \in Lane : OnFile(l) => registry[l].expires \in Nat
  BY DEF Typed, StampsTyped, StampedBy, ClockTyped
<1>2. lapsed \in Nat /\ lapsed' \in Nat
  BY DEF Typed, ClockTyped
<1>3. \A l \in Lane : /\ Active(l)' => Active(l)
                      /\ Preserved(l)' => Preserved(l)
  BY <1>1, <1>2 DEF Active, Preserved, IsLive, OnFile, Expired
<1>4. \A l \in Lane : Tame(l)
  BY <1>3 DEF Tame, Held
<1>5. Fresh
  BY <1>3 DEF Fresh, Typed, ClockTyped
<1>6. RegistryTyped' /\ StampsTyped'
  BY DEF Typed, RegistryTyped, StampsTyped, OnFile
<1>7. QED
  BY <1>4, <1>5, <1>6 DEF Quiet, FilesKept

LEMMA TimeQuiet ==
  ASSUME Typed, ProjectionSound, TimePasses
  PROVE  Quiet
<1>1. \A l \in Lane : OnFile(l) => /\ registry[l].expires \in Nat /\ registry[l].expires <= writes
                                   /\ registry[l].beat \in Nat /\ registry[l].beat <= writes
  BY DEF Typed, StampsTyped, StampedBy, ClockTyped
<1>2. lapsed \in Nat /\ cold \in Nat /\ writes \in Nat /\ lapsed <= cold /\ cold <= writes
  BY DEF Typed, ClockTyped
<1>3. ClockTyped' /\ lapsed' >= lapsed
  <2>1. CASE /\ lapsed' \in {registry[l].expires : l \in {m \in Lane : OnFile(m) /\ ~Expired(m)}}
             /\ lapsed' <= cold /\ UNCHANGED cold
    <3>1. PICK l \in Lane : OnFile(l) /\ ~Expired(l) /\ lapsed' = registry[l].expires
      BY <2>1
    <3>2. QED
      BY <2>1, <3>1, <1>1, <1>2 DEF TimePasses, ClockTyped, Expired
  <2>2. CASE /\ cold' \in {registry[l].beat : l \in {m \in Lane : OnFile(m) /\ ~Stale(m)}}
             /\ UNCHANGED lapsed
    <3>1. PICK l \in Lane : OnFile(l) /\ ~Stale(l) /\ cold' = registry[l].beat
      BY <2>2
    <3>2. QED
      BY <2>2, <3>1, <1>1, <1>2 DEF TimePasses, ClockTyped, Stale
  <2>3. QED
    BY <2>1, <2>2 DEF TimePasses
<1>4. ProjectionTyped' /\ ProjectionSound' /\ SetsTyped'
  BY DEF TimePasses, Typed, ProjectionTyped, ProjectionSound, SetsTyped
<1>5. QED
  BY <1>3, <1>4, StillQuiet DEF TimePasses

LEMMA RefreshQuiet ==
  ASSUME Typed, ProjectionSound, RefreshProjection
  PROVE  Quiet
<1>1. registry \in Files /\ projection' = Compiled(registry)
  BY DEF Typed, RegistryTyped, RefreshProjection
<1>2. ProjectionTyped' /\ ProjectionSound'
  BY <1>1, CompiledSound DEF ProjectionTyped, ProjectionSound
<1>3. ClockTyped' /\ lapsed' >= lapsed /\ SetsTyped'
  BY DEF RefreshProjection, Typed, ClockTyped, SetsTyped
<1>4. QED
  BY <1>2, <1>3, StillQuiet DEF RefreshProjection

LEMMA WorktreeQuiet ==
  ASSUME Typed, ProjectionSound, worktrees' \subseteq Worktree,
         UNCHANGED <<registry, writes, lapsed, cold, projection, unvetted>>
  PROVE  Quiet
<1>1. ProjectionTyped' /\ ProjectionSound' /\ ClockTyped' /\ lapsed' >= lapsed /\ SetsTyped'
  BY DEF Typed, ProjectionTyped, ProjectionSound, ClockTyped, SetsTyped
<1>2. QED
  BY <1>1, StillQuiet

\* Every operation of the registry is quiet but the creation of a claim.
LEMMA RegistryQuiet ==
  ASSUME Typed, ProjectionSound, RegistryStep,
         \A s \in Session, l \in Lane, c \in Shape : ~CreateClaim(s, l, c)
  PROVE  Quiet
<1>1. CASE \E s \in Session : HeartbeatClaims(s)
  BY <1>1, HeartbeatQuiet
<1>2. ASSUME NEW s \in Session, EndSessionClaims(s)
      PROVE  Quiet
  <2>1. Mine(s) \in SUBSET Lane /\ "session_ended" \in Status \ LiveStatus
        /\ \A l \in Mine(s) : IsLive(l)
    BY DEF Mine, Status, LiveStatus
  <2>2. QED
    BY <1>2, <2>1, RetireQuiet DEF EndSessionClaims
<1>3. CASE \E l \in Lane : ReleaseClaim(l)
  BY <1>3, UnlinkQuiet DEF ReleaseClaim
<1>4. ASSUME NEW p \in Plan, CompleteClaimsForPlan(p)
      PROVE  Quiet
  <2>1. "completed" \in Status \ LiveStatus
    BY DEF Status, LiveStatus
  <2>2. QED
    BY <1>4, <2>1, RetireQuiet DEF CompleteClaimsForPlan
<1>5. CASE PruneExpired
  BY <1>5, UnlinkQuiet DEF PruneExpired
<1>6. CASE PruneStale
  BY <1>6, UnlinkQuiet DEF PruneStale
<1>7. CASE PruneCompleted
  BY <1>7, UnlinkQuiet DEF PruneCompleted
<1>8. CASE RefreshProjection
  BY <1>8, RefreshQuiet
<1>9. CASE TimePasses
  BY <1>9, TimeQuiet
<1>10. CASE AddWorktree
  BY <1>10, WorktreeQuiet DEF AddWorktree, Typed, SetsTyped
<1>11. QED
  BY <1>1, <1>2, <1>3, <1>4, <1>5, <1>6, <1>7, <1>8, <1>9, <1>10 DEF RegistryStep

LEMMA CreateKeeps ==
  ASSUME Typed, ProjectionSound, NEW s \in Session, NEW l \in Lane, NEW c \in Shape,
         CreateClaim(s, l, c)
  PROVE  FilesKept /\ ProjectionTyped' /\ ProjectionSound' /\ SetsTyped'
<1> DEFINE new == [status |-> "active", session |-> s, shape |-> c,
                   expires |-> writes + 1, beat |-> writes + 1, updated |-> writes + 1]
           r == [registry EXCEPT ![l] = new]
<1>1. new \in Claim
  BY DEF Claim, Status, LiveStatus, Typed, ClockTyped
<1> HIDE DEF new
<1>2. r \in Files
  BY <1>1 DEF Typed, RegistryTyped, Files
<1>3. Commit(r, {l})
  BY DEF CreateClaim, Put, new
<1>4. ProjectionTyped' /\ ProjectionSound'
  BY <1>2, <1>3, CommitProjection DEF Typed
<1>5. SetsTyped'
  BY CreateFiles DEF Typed, SetsTyped, CreateClaim
<1>6. QED
  BY <1>4, <1>5, CreateFiles

-----------------------------------------------------------------------------
(* The operations of session_lifecycle.py *)

LEMMA PutQuiet ==
  ASSUME Typed, ProjectionSound, NEW l \in Lane, NEW c \in Claim, Put(l, c),
         c.updated = writes + 1, StampedBy(c, writes + 1),
         unvetted \subseteq unvetted', unvetted' \subseteq Lane,
         \/ l \in unvetted'
         \/ Held(l) /\ c.shape = registry[l].shape
         \/ c.status \notin LiveStatus \cup {"session_ended"}
  PROVE  Quiet
<1>1. /\ registry' = [registry EXCEPT ![l] = c] /\ registry' \in Files
      /\ registry'[l] = c /\ \A m \in Lane \ {l} : registry'[m] = registry[m]
      /\ writes' = writes + 1 /\ UNCHANGED <<lapsed, cold, worktrees>>
  BY PutFiles DEF Typed
<1>2. FilesKept
  <2>1. \A m \in Lane : Touched(m)
    BY <1>1 DEF Touched
  <2>2. QED
    BY <1>1, <2>1, TouchedKeeps
<1>3. ProjectionTyped' /\ ProjectionSound'
  <2>1. [registry EXCEPT ![l] = c] \in Files
    BY <1>1
  <2>2. QED
    BY <2>1, CommitProjection DEF Typed, Put
<1>4. \A m \in Lane \ {l} : Tame(m)
  BY <1>1, KeptIsTame
<1>5. Tame(l)
  <2>1. CASE l \in unvetted'
    BY <2>1 DEF Tame
  <2>2. CASE Held(l) /\ c.shape = registry[l].shape
    BY <2>1, <2>2, <1>1 DEF Tame
  <2>3. CASE c.status \notin LiveStatus \cup {"session_ended"}
    BY <2>3, <1>1 DEF Tame, Held, Active, Preserved, IsLive
  <2>4. QED
    BY <2>1, <2>2, <2>3
<1>6. SetsTyped'
  BY <1>1 DEF Typed, SetsTyped
<1>7. QED
  BY <1>2, <1>3, <1>4, <1>5, <1>6 DEF Quiet

LEMMA UpdateClaimQuiet ==
  ASSUME Typed, ProjectionSound, NEW s \in Session, NEW l \in Lane, NEW c \in Shape,
         UpdateClaim(s, l, c)
  PROVE  Quiet
<1> DEFINE st == Stamped(l, "active")
           new == [st EXCEPT !.shape = c, !.beat = writes + 1]
<1>1. OnFile(l) /\ writes + 1 \in Nat /\ "active" \in Status /\ writes + 1 \in 1..(writes + 1)
  BY DEF UpdateClaim, Typed, ClockTyped, Status, LiveStatus
<1>2. st \in Claim /\ st.status = "active" /\ st.updated = writes + 1 /\ StampedBy(st, writes + 1)
  BY <1>1, StampedClaim
<1>3. Put(l, new)
  BY DEF UpdateClaim
<1> HIDE DEF st
<1>4. /\ new \in Claim /\ new.updated = writes + 1 /\ new.shape = c
      /\ new.expires = st.expires /\ new.beat = writes + 1
  <2>1. \A d \in Claim, n \in Nat :
          /\ [d EXCEPT !.shape = c, !.beat = n] \in Claim
          /\ [d EXCEPT !.shape = c, !.beat = n].updated = d.updated
          /\ [d EXCEPT !.shape = c, !.beat = n].shape = c
          /\ [d EXCEPT !.shape = c, !.beat = n].expires = d.expires
          /\ [d EXCEPT !.shape = c, !.beat = n].beat = n
    BY DEF Claim
  <2>2. QED
    BY <1>1, <1>2, <2>1
<1> HIDE DEF new
<1>5. StampedBy(new, writes + 1)
  BY <1>1, <1>2, <1>4 DEF StampedBy
<1>6. /\ unvetted \subseteq unvetted' /\ unvetted' \subseteq Lane
      /\ l \in unvetted' \/ (Held(l) /\ new.shape = registry[l].shape)
  BY <1>4 DEF UpdateClaim, Typed, SetsTyped, Of
<1>7. QED
  BY <1>3, <1>4, <1>5, <1>6, PutQuiet

LEMMA SetStatusQuiet ==
  ASSUME Typed, ProjectionSound, NEW s \in Session, SetStatus(s)
  PROVE  Quiet
<1> DEFINE l == op[s].lane
           new == Stamped(l, op[s].step)
<1>1. op[s] \in Operation /\ l \in Lane /\ OnFile(l) /\ op[s].step \in Status
      /\ op[s].step # "session_ended"
  BY DEF SetStatus, Update, Typed, OpDomain, Operation, Idle, Status, LiveStatus
<1>2. Put(l, new)
  BY DEF SetStatus, Update
<1>3. /\ new \in Claim /\ new.status = op[s].step /\ new.updated = writes + 1
      /\ new.shape = registry[l].shape /\ StampedBy(new, writes + 1)
  BY <1>1, StampedClaim
<1> HIDE DEF new
<1>4. /\ unvetted \subseteq unvetted' /\ unvetted' \subseteq Lane
      /\ l \in unvetted' \/ Held(l) \/ new.status \notin LiveStatus
  BY <1>1 DEF SetStatus, Update, Typed, SetsTyped, new
<1>5. QED
  BY <1>1, <1>2, <1>3, <1>4, PutQuiet

LEMMA ResumeQuiet ==
  ASSUME Typed, ProjectionSound, NEW s \in Session, Resume(s)
  PROVE  Quiet
<1> DEFINE l == op[s].lane
           st == Stamped(l, "active")
           new == [st EXCEPT !.session = s, !.beat = writes + 1]
<1>1. op[s] \in Operation /\ l \in Lane /\ OnFile(l)
  BY DEF Resume, Update, At, Typed, OpDomain, Operation, Idle
<1>2. "active" \in Status /\ writes + 1 \in Nat /\ writes + 1 \in 1..(writes + 1)
  BY DEF Typed, ClockTyped, Status, LiveStatus
<1>3. st \in Claim /\ st.updated = writes + 1 /\ StampedBy(st, writes + 1)
      /\ st.shape = registry[l].shape
  BY <1>1, <1>2, StampedClaim
<1>4. Update(s, new)
  BY DEF Resume
<1> HIDE DEF st
<1>5. /\ new \in Claim /\ new.updated = writes + 1 /\ new.shape = registry[l].shape
      /\ new.expires = st.expires /\ new.beat = writes + 1
  <2>1. \A d \in Claim, n \in Nat :
          /\ [d EXCEPT !.session = s, !.beat = n] \in Claim
          /\ [d EXCEPT !.session = s, !.beat = n].updated = d.updated
          /\ [d EXCEPT !.session = s, !.beat = n].shape = d.shape
          /\ [d EXCEPT !.session = s, !.beat = n].expires = d.expires
          /\ [d EXCEPT !.session = s, !.beat = n].beat = n
    BY DEF Claim
  <2>2. QED
    BY <1>2, <1>3, <2>1
<1> HIDE DEF new
<1>6. StampedBy(new, writes + 1)
  BY <1>2, <1>3, <1>5 DEF StampedBy
<1>7. /\ Put(l, new) /\ unvetted \subseteq unvetted' /\ unvetted' \subseteq Lane
      /\ l \in unvetted' \/ Held(l) \/ new.status \notin LiveStatus
  BY <1>1, <1>4 DEF Update, Typed, SetsTyped
<1>8. CASE new.status = "session_ended"
  <2>1. new.status = "active"
    BY <1>3, <1>5, <1>2, <1>1, StampedClaim DEF new, st, Claim
  <2>2. QED
    BY <1>8, <2>1
<1>9. CASE new.status # "session_ended"
  BY <1>1, <1>5, <1>6, <1>7, <1>9, PutQuiet
<1>10. QED
  BY <1>8, <1>9

LEMMA WriteBackQuiet ==
  ASSUME Typed, ProjectionSound, NEW s \in Session, NEW status \in {"closing", "completed"},
         op[s] # Idle, WriteBack(s, status)
  PROVE  Quiet /\ writes' = writes + 1 /\ registry'[op[s].lane].status = status
<1> DEFINE l == op[s].lane
           seen == op[s].seen
           new == [seen EXCEPT !.status = status, !.updated = writes + 1]
<1>1. l \in Lane /\ seen \in Claim /\ StampedBy(seen, writes)
  BY DEF Typed, OpTyped, Operation
<1>2. status \in Status /\ status \notin LiveStatus \cup {"session_ended"}
      /\ writes \in Nat /\ writes + 1 \in Nat
  BY DEF Typed, ClockTyped, Status, LiveStatus
<1>3. Put(l, new) /\ UNCHANGED unvetted
  BY DEF WriteBack
<1> HIDE DEF seen
<1>4. /\ new \in Claim /\ new.status = status /\ new.updated = writes + 1
      /\ new.expires = seen.expires /\ new.beat = seen.beat
  <2>1. \A d \in Claim, n \in Nat :
          /\ [d EXCEPT !.status = status, !.updated = n] \in Claim
          /\ [d EXCEPT !.status = status, !.updated = n].status = status
          /\ [d EXCEPT !.status = status, !.updated = n].updated = n
          /\ [d EXCEPT !.status = status, !.updated = n].expires = d.expires
          /\ [d EXCEPT !.status = status, !.updated = n].beat = d.beat
    BY <1>2 DEF Claim
  <2>2. QED
    BY <1>1, <1>2, <2>1
<1> HIDE DEF new
<1>5. StampedBy(new, writes + 1)
  BY <1>1, <1>2, <1>4 DEF StampedBy
<1>6. Quiet
  BY <1>1, <1>2, <1>3, <1>4, <1>5, PutQuiet DEF Typed, SetsTyped
<1>7. QED
  BY <1>1, <1>3, <1>4, <1>6, PutFiles DEF Typed

-----------------------------------------------------------------------------
(* What operations remember, and what a close watches *)

Remembered(x, n) == x \in Operation /\ StampedBy(x.seen, n) /\ x.at <= n

LEMMA OpKeeps ==
  ASSUME Typed, writes' \in Nat, writes' >= writes, NEW s \in Session, NEW x,
         op' = [op EXCEPT ![s] = x], x = Idle \/ Remembered(x, writes')
  PROVE  OpTyped' /\ OpDomain' /\ op'[s] = x /\ \A t \in Session \ {s} : op'[t] = op[t]
<1>1. op'[s] = x /\ \A t \in Session \ {s} : op'[t] = op[t]
  BY DEF Typed, OpDomain
<1>2. OpDomain'
  BY DEF Typed, OpDomain, Remembered
<1>3. ASSUME NEW t \in Session \ {s}, op[t] # Idle
      PROVE  op[t] \in Operation /\ StampedBy(op[t].seen, writes') /\ op[t].at <= writes'
  <2>1. op[t] \in Operation /\ StampedBy(op[t].seen, writes) /\ op[t].at <= writes
        /\ op[t].at \in Nat /\ writes \in Nat
    BY <1>3 DEF Typed, OpTyped, ClockTyped, Operation
  <2>2. QED
    BY <2>1 DEF StampedBy
<1>4. OpTyped'
  BY <1>1, <1>3 DEF OpTyped, Remembered
<1>5. QED
  BY <1>1, <1>2, <1>4

LEMMA OpStays ==
  ASSUME Typed, writes' \in Nat, writes' >= writes, UNCHANGED op
  PROVE  OpTyped' /\ OpDomain'
<1>1. ASSUME NEW t \in Session, op[t] # Idle
      PROVE  op[t] \in Operation /\ StampedBy(op[t].seen, writes') /\ op[t].at <= writes'
  <2>1. op[t] \in Operation /\ StampedBy(op[t].seen, writes) /\ op[t].at <= writes
        /\ op[t].at \in Nat /\ writes \in Nat
    BY <1>1 DEF Typed, OpTyped, ClockTyped, Operation
  <2>2. QED
    BY <2>1 DEF StampedBy
<1>2. QED
  BY <1>1 DEF OpTyped, OpDomain, Typed

LEMMA WatchStays ==
  ASSUME Typed, Watched, FilesKept, NEW s \in Session, op'[s] = op[s]
  PROVE  WatchedBy(s)'
<1> SUFFICES ASSUME op[s].step \in {"close", "remove"}, NEW m \in Lane,
                    WorktreeOf[m] = WorktreeOf[op[s].lane], Active(m)',
                    m # op[s].lane \/ op[s].step = "remove"
             PROVE  registry'[m].updated > op[s].at
  BY DEF WatchedBy
<1>1. op[s] \in Operation /\ op[s].at <= writes /\ op[s].at \in Nat /\ writes \in Nat
  BY DEF Typed, OpTyped, Idle, Operation, ClockTyped
<1>2. registry'[m].updated \in Nat
  BY DEF FilesKept, StampsTyped, StampedBy, Active, IsLive, ClockTyped
<1>3. CASE registry'[m].updated > writes
  BY <1>1, <1>2, <1>3
<1>4. CASE Active(m) /\ registry'[m].updated = registry[m].updated
  BY <1>4 DEF Watched, WatchedBy
<1>5. QED
  BY <1>3, <1>4 DEF FilesKept, Fresh

OpsKept == OpTyped' /\ OpDomain' /\ Watched'

\* An operation that changes only what it remembers itself.
LEMMA OpsKeep ==
  ASSUME Inv, FilesKept, NEW s \in Session, NEW x, op' = [op EXCEPT ![s] = x],
         x = Idle \/ Remembered(x, writes'),
         x.step \in {"close", "remove"} => WatchedBy(s)'
  PROVE  OpsKept
<1>1. writes' \in Nat /\ writes' >= writes
  BY DEF FilesKept, Fresh
<1>2. OpTyped' /\ OpDomain' /\ op'[s] = x /\ \A t \in Session \ {s} : op'[t] = op[t]
  BY <1>1, OpKeeps DEF Inv
<1>3. \A t \in Session \ {s} : WatchedBy(t)'
  BY <1>2, WatchStays DEF Inv
<1>4. WatchedBy(s)'
  BY <1>2 DEF WatchedBy
<1>5. QED
  BY <1>2, <1>3, <1>4 DEF OpsKept, Watched

LEMMA EndsKeeps ==
  ASSUME Inv, FilesKept, NEW s \in Session, Ends(s)
  PROVE  OpsKept
<1>1. Idle.step \notin {"close", "remove"}
  BY DEF Idle
<1>2. QED
  BY <1>1, OpsKeep DEF Ends

LEMMA RegistryStays ==
  ASSUME Typed, ProjectionSound, UNCHANGED registryVars
  PROVE  Quiet
  BY WorktreeQuiet DEF registryVars, Typed, SetsTyped

LEMMA BeginKeeps ==
  ASSUME Inv, NEW s \in Session, NEW l \in Lane, NEW step \in Steps \ {"remove"},
         OnFile(l), Begin(s, l, step), step = "close" => Siblings(l) = {}
  PROVE  Quiet /\ OpsKept
<1> DEFINE x == [step |-> step, lane |-> l, seen |-> registry[l], at |-> writes]
<1>1. Quiet
  BY RegistryStays DEF Begin, Inv
<1>2. registry[l] \in Claim /\ StampedBy(registry[l], writes) /\ writes \in Nat
  BY DEF Inv, Typed, RegistryTyped, Files, OnFile, StampsTyped, ClockTyped
<1>3. writes' = writes /\ op' = [op EXCEPT ![s] = x] /\ op'[s] = x
  BY DEF Begin, registryVars, Inv, Typed, OpDomain
<1>4. Remembered(x, writes')
  BY <1>2, <1>3 DEF Remembered, Operation
<1>5. x.step \in {"close", "remove"} => WatchedBy(s)'
  <2> SUFFICES ASSUME step = "close" PROVE WatchedBy(s)'
    OBVIOUS
  <2>1. UNCHANGED <<registry, lapsed>>
    BY DEF Begin, registryVars
  <2>2. \A m \in Lane \ {l} : WorktreeOf[m] = WorktreeOf[l] => ~Active(m)
    BY DEF Siblings
  <2>3. \A m \in Lane \ {l} : WorktreeOf[m] = WorktreeOf[l] => ~Active(m)'
    BY <2>1, <2>2 DEF Active, IsLive, OnFile, Expired
  <2>4. QED
    BY <1>3, <2>3 DEF WatchedBy
<1>6. OpsKept
  BY <1>1, <1>3, <1>4, <1>5, OpsKeep DEF Quiet
<1>7. QED
  BY <1>1, <1>6

LEMMA MarkClosingKeeps ==
  ASSUME Inv, NEW s \in Session, MarkClosing(s)
  PROVE  Quiet /\ OpsKept
<1> DEFINE y == [op[s] EXCEPT !.step = "remove"]
           x == IF projection' = Compiled(registry') THEN y ELSE Idle
<1>1. op[s].step = "close" /\ op[s] # Idle
  BY DEF MarkClosing, At, Idle
<1>2. op[s] \in Operation /\ StampedBy(op[s].seen, writes) /\ op[s].at <= writes /\ writes \in Nat
  BY <1>1 DEF Inv, Typed, OpTyped, ClockTyped
<1>3. Quiet /\ writes' = writes + 1 /\ registry'[op[s].lane].status = "closing"
  BY <1>1, WriteBackQuiet DEF MarkClosing, Inv
<1>4. op' = [op EXCEPT ![s] = x] /\ op'[s] = x
  BY DEF MarkClosing, Inv, Typed, OpDomain
<1>5. /\ y \in Operation /\ y.lane = op[s].lane /\ y.at = op[s].at
      /\ y.seen = op[s].seen /\ y.step = "remove"
  BY <1>2 DEF Operation, Steps
<1> HIDE DEF y
<1>6. Remembered(y, writes')
  BY <1>2, <1>3, <1>5 DEF Remembered, StampedBy, Operation
<1>7. ASSUME x = y
      PROVE  WatchedBy(s)'
  <2> SUFFICES ASSUME NEW m \in Lane, WorktreeOf[m] = WorktreeOf[op[s].lane], Active(m)'
               PROVE  registry'[m].updated > op[s].at
    BY <1>4, <1>5, <1>7 DEF WatchedBy
  <2>1. m # op[s].lane
    BY <1>3 DEF Active, IsLive, LiveStatus
  <2>2. registry'[m].updated \in Nat /\ op[s].at \in Nat
    BY <1>2, <1>3 DEF Quiet, FilesKept, StampsTyped, StampedBy, Active, IsLive, ClockTyped, Operation
  <2>3. CASE registry'[m].updated > writes
    BY <1>2, <2>2, <2>3
  <2>4. CASE Active(m) /\ registry'[m].updated = registry[m].updated
    BY <1>1, <2>1, <2>4 DEF Inv, Watched, WatchedBy
  <2>5. QED
    BY <1>3, <2>3, <2>4 DEF Quiet, FilesKept, Fresh
<1>8. x.step \in {"close", "remove"} => WatchedBy(s)'
  BY <1>7 DEF Idle
<1>9. QED
  BY <1>3, <1>4, <1>6, <1>8, OpsKeep DEF Quiet

LEMMA RemoveWorktreeKeeps ==
  ASSUME Inv, NEW s \in Session, RemoveWorktree(s)
  PROVE  Quiet /\ OpsKept
<1> DEFINE x == [op[s] EXCEPT !.step = "record"]
<1>1. op[s].step = "remove" /\ op[s] # Idle
  BY DEF RemoveWorktree, At, Idle
<1>2. op[s] \in Operation /\ StampedBy(op[s].seen, writes) /\ op[s].at <= writes
  BY <1>1 DEF Inv, Typed, OpTyped
<1>3. Quiet
  BY WorktreeQuiet DEF RemoveWorktree, Inv, Typed, SetsTyped
<1>4. op' = [op EXCEPT ![s] = x] /\ writes' = writes
  BY DEF RemoveWorktree
<1>5. Remembered(x, writes') /\ x.step = "record"
  BY <1>2, <1>4 DEF Remembered, Operation, Steps
<1> HIDE DEF x
<1>6. OpsKept
  BY <1>3, <1>4, <1>5, OpsKeep DEF Quiet
<1>7. QED
  BY <1>3, <1>6

LEMMA SessionKeeps ==
  ASSUME Inv, NEW s \in Session, SessionStep(s)
  PROVE  Quiet /\ OpsKept
<1> USE DEF Inv
<1>1. ASSUME NEW l \in Lane, NEW c \in Shape, UpdateClaim(s, l, c)
      PROVE  Quiet /\ OpsKept
  <2>1. Quiet
    BY <1>1, UpdateClaimQuiet
  <2>2. OpTyped' /\ OpDomain'
    BY <1>1, <2>1, OpStays DEF UpdateClaim, Quiet, FilesKept, Fresh
  <2>3. Watched'
    BY <1>1, <2>1, WatchStays DEF UpdateClaim, Quiet, Watched
  <2>4. QED
    BY <2>1, <2>2, <2>3 DEF OpsKept
<1>2. ASSUME NEW l \in Lane, BeginResume(s, l)
      PROVE  Quiet /\ OpsKept
  BY <1>2, BeginKeeps DEF BeginResume, Steps
<1>3. ASSUME NEW l \in Lane, BeginStatus(s, l)
      PROVE  Quiet /\ OpsKept
  BY <1>3, BeginKeeps DEF BeginStatus, Active, IsLive, Steps
<1>4. ASSUME NEW l \in Lane, BeginClose(s, l)
      PROVE  Quiet /\ OpsKept
  BY <1>4, BeginKeeps DEF BeginClose, Steps
<1>5. CASE Resume(s)
  <2>1. Quiet /\ Ends(s)
    BY <1>5, ResumeQuiet DEF Resume, Update
  <2>2. QED
    BY <2>1, EndsKeeps DEF Quiet
<1>6. CASE SetStatus(s)
  <2>1. Quiet /\ Ends(s)
    BY <1>6, SetStatusQuiet DEF SetStatus, Update
  <2>2. QED
    BY <2>1, EndsKeeps DEF Quiet
<1>7. CASE MarkClosing(s)
  BY <1>7, MarkClosingKeeps
<1>8. CASE RemoveWorktree(s)
  BY <1>8, RemoveWorktreeKeeps
<1>9. CASE RecordClosed(s)
  <2>1. Quiet /\ Ends(s)
    BY <1>9, WriteBackQuiet DEF RecordClosed, At, Idle
  <2>2. QED
    BY <2>1, EndsKeeps DEF Quiet
<1>10. CASE Stop(s)
  <2>1. Quiet /\ Ends(s)
    BY <1>10, RegistryStays DEF Stop
  <2>2. QED
    BY <2>1, EndsKeeps DEF Quiet
<1>11. QED
  BY <1>1, <1>2, <1>3, <1>4, <1>5, <1>6, <1>7, <1>8, <1>9, <1>10 DEF SessionStep

LEMMA QuietInv ==
  ASSUME Inv, Quiet, OpsKept
  PROVE  Inv'
  BY TameKeeps DEF Inv, Typed, Quiet, FilesKept, OpsKept

LEMMA InitInv == Init => Inv
<1> SUFFICES ASSUME Init PROVE Inv
  OBVIOUS
<1> USE DEF Init, RegistryInit
<1>1. Typed
  BY DEF Typed, RegistryTyped, Files, ClockTyped, StampsTyped, OnFile, ProjectionTyped,
         SetsTyped, OpTyped, OpDomain
<1>2. ProjectionSound
  BY DEF ProjectionSound
<1>3. Watched
  BY DEF Watched, WatchedBy, Idle
<1>4. HeldLanesCompatible
  BY DEF HeldLanesCompatible, Held, Active, Preserved, IsLive, OnFile
<1>5. QED
  BY <1>1, <1>2, <1>3, <1>4 DEF Inv

LEMMA NextInv == Inv /\ [Next]_vars => Inv'
<1> SUFFICES ASSUME Inv, [Next]_vars PROVE Inv'
  OBVIOUS
<1>1. ASSUME NEW s \in Session, SessionStep(s)
      PROVE  Inv'
  BY <1>1, SessionKeeps, QuietInv
<1>2. ASSUME FilesKept, UNCHANGED op
      PROVE  OpsKept
  <2>1. OpTyped' /\ OpDomain'
    BY <1>2, OpStays DEF FilesKept, Fresh, Inv
  <2>2. Watched'
    BY <1>2, WatchStays DEF Watched, Inv
  <2>3. QED
    BY <2>1, <2>2 DEF OpsKept
<1>3. ASSUME NEW s \in Session, NEW l \in Lane, NEW c \in Shape, CreateClaim(s, l, c),
             UNCHANGED op
      PROVE  Inv'
  <2>1. FilesKept /\ ProjectionTyped' /\ ProjectionSound' /\ SetsTyped'
    BY <1>3, CreateKeeps DEF Inv
  <2>2. HeldLanesCompatible'
    BY <1>3, CreateCompatible DEF Inv
  <2>3. QED
    BY <1>2, <1>3, <2>1, <2>2 DEF Inv, Typed, FilesKept, OpsKept
<1>4. ASSUME RegistryStep, UNCHANGED op,
             \A s \in Session, l \in Lane, c \in Shape : ~CreateClaim(s, l, c)
      PROVE  Inv'
  <2>1. Quiet
    BY <1>4, RegistryQuiet DEF Inv
  <2>2. QED
    BY <1>2, <1>4, <2>1, QuietInv DEF Quiet
<1>5. CASE UNCHANGED vars
  <2>1. Quiet
    BY <1>5, RegistryStays DEF vars, Inv
  <2>2. QED
    BY <1>2, <1>5, <2>1, QuietInv DEF vars, Quiet
<1>6. QED
  BY <1>1, <1>3, <1>4, <1>5 DEF Next

LEMMA AlwaysInv == Spec => []Inv
  BY InitInv, NextInv, PTL DEF Spec

-----------------------------------------------------------------------------
(* Theorems *)

LEMMA TypeParts == Typed => TypeOK
<1> SUFFICES ASSUME Typed PROVE TypeOK
  OBVIOUS
<1>1. \A l \in Lane : OnFile(l) => /\ registry[l].updated \in 1..writes
                                   /\ registry[l].expires \in 1..writes
                                   /\ registry[l].beat \in 1..writes
  BY DEF Typed, StampsTyped, StampedBy
<1>2. QED
  BY <1>1 DEF Typed, RegistryTyped, ClockTyped, ProjectionTyped, SetsTyped, OpDomain, TypeOK, Files

\* Files, projection and pending operations keep their types whatever fails or dies
\* inside the critical sections of coordination_claims.py and session_lifecycle.py.
THEOREM ClaimsTypeCorrect == Spec => []TypeOK
<1>1. Inv => TypeOK
  BY TypeParts DEF Inv
<1>2. QED
  BY <1>1, AlwaysInv, PTL

\* create_claim's checks keep held lanes compatible through every ending, handoff,
\* resumption, close and pruning, but for lanes taken outside of them.
THEOREM ClaimsHeldCompatible == Spec => []HeldLanesCompatible
<1>1. Inv => HeldLanesCompatible
  BY DEF Inv
<1>2. QED
  BY <1>1, AlwaysInv, PTL

\* close_session removes a worktree only from under claims that changed after its
\* search for siblings.
THEOREM ClaimsCloseSparesSiblings == Spec => CloseSparesSiblings
<1>1. ASSUME Inv, [Next]_vars, NEW l \in Lane, WorktreeOf[l] \in worktrees \ worktrees', Active(l)
      PROVE  \E s \in Session : At(s, "remove") /\ registry[l].updated > op[s].at
  <2>1. PICK s \in Session : RemoveWorktree(s)
    <3>1. \A r \in Files, S \in SUBSET Lane : Commit(r, S) => UNCHANGED worktrees
      BY DEF Commit
    <3>2. \A m \in Lane : \A c : Put(m, c) => UNCHANGED worktrees
      BY DEF Put, Commit
    <3>3. \A S : Unlink(S) => UNCHANGED worktrees
      BY DEF Unlink, Commit
    <3>4. RegistryStep => worktrees \subseteq worktrees'
      BY <3>2, <3>3 DEF RegistryStep, CreateClaim, HeartbeatClaims, EndSessionClaims, ReleaseClaim,
         CompleteClaimsForPlan, PruneExpired, PruneStale, PruneCompleted, RefreshProjection,
         TimePasses, AddWorktree, Commit
    <3>5. ASSUME NEW t \in Session, SessionStep(t), ~RemoveWorktree(t)
          PROVE  UNCHANGED worktrees
      <4>1. CASE \E m \in Lane, c \in Shape : UpdateClaim(t, m, c)
        BY <4>1, <3>2 DEF UpdateClaim
      <4>2. CASE \E m \in Lane : BeginResume(t, m) \/ BeginStatus(t, m) \/ BeginClose(t, m)
        BY <4>2 DEF BeginResume, BeginStatus, BeginClose, Begin, registryVars
      <4>3. CASE Resume(t) \/ SetStatus(t)
        <5>1. op[t].lane \in Lane
          BY <1>1, <4>3 DEF Resume, SetStatus, At, Inv, Typed, OpTyped, Operation, Idle
        <5>2. QED
          BY <4>3, <3>2, <5>1 DEF Resume, SetStatus, Update
      <4>4. CASE MarkClosing(t) \/ RecordClosed(t)
        <5>1. op[t].lane \in Lane
          BY <1>1, <4>4 DEF MarkClosing, RecordClosed, At, Inv, Typed, OpTyped, Operation, Idle
        <5>2. QED
          BY <4>4, <3>2, <5>1 DEF MarkClosing, RecordClosed, WriteBack
      <4>5. CASE Stop(t)
        BY <4>5 DEF Stop, registryVars
      <4>6. QED
        BY <3>5, <4>1, <4>2, <4>3, <4>4, <4>5 DEF SessionStep
    <3>6. QED
      BY <1>1, <3>4, <3>5 DEF Next, vars, registryVars
  <2>2. op[s].step = "remove" /\ WorktreeOf[op[s].lane] = WorktreeOf[l]
    BY <1>1, <2>1 DEF RemoveWorktree, At
  <2>3. registry[l].updated > op[s].at
    BY <1>1, <2>2 DEF Inv, Watched, WatchedBy
  <2>4. QED
    BY <2>2, <2>3 DEF At
<1>2. Inv /\ [Next]_vars => [\A l \in Lane : WorktreeOf[l] \in worktrees \ worktrees' /\ Active(l)
        => \E s \in Session : At(s, "remove") /\ registry[l].updated > op[s].at]_vars
  BY <1>1
<1>3. QED
  BY <1>2, AlwaysInv, PTL DEF Spec, CloseSparesSiblings

\* Two paths that both lie above a third overlap.
LEMMA AboveOverlap ==
  ASSUME NEW p \in Seq(STRING), NEW q \in Seq(STRING), NEW r \in Seq(STRING),
         IsPrefix(q, p), IsPrefix(r, p)
  PROVE  Overlap(q, r)
<1>1. /\ Len(q) <= Len(p) /\ q = SubSeq(p, 1, Len(q))
      /\ Len(r) <= Len(p) /\ r = SubSeq(p, 1, Len(r))
  BY DEF IsPrefix
<1>2. \A i \in 1..Len(q) : q[i] = p[i]
  BY <1>1
<1>3. \A i \in 1..Len(r) : r[i] = p[i]
  BY <1>1
<1>4. CASE Len(q) <= Len(r)
  <2>1. SubSeq(q, 1, Len(q)) = SubSeq(r, 1, Len(q))
    BY <1>2, <1>3, <1>4
  <2>2. QED
    BY <2>1, <1>4 DEF Overlap, IsPrefix
<1>5. CASE Len(r) <= Len(q)
  <2>1. SubSeq(r, 1, Len(r)) = SubSeq(q, 1, Len(r))
    BY <1>2, <1>3, <1>5
  <2>2. QED
    BY <2>1, <1>5 DEF Overlap, IsPrefix
<1>6. QED
  BY <1>4, <1>5

LEMMA CoveredAbove ==
  ASSUME NEW p \in Path, NEW P \in SUBSET Path, NEW Q \in SUBSET Path,
         Covered(p, P), Covered(p, Q), Root \notin P \cup Q
  PROVE  Overlapping(P, Q)
<1>1. PICK q \in P : IsPrefix(q, p)
  BY DEF Covered
<1>2. PICK r \in Q : IsPrefix(r, p)
  BY DEF Covered
<1>3. p \in Seq(STRING) /\ q \in Seq(STRING) /\ r \in Seq(STRING)
  BY RegistryAssumption
<1>4. Overlap(q, r)
  BY <1>1, <1>2, <1>3, AboveOverlap
<1>5. QED
  BY <1>4 DEF Overlapping

\* The gate allows a session what its own claim of this moment covers, and never two
\* agents the same path by vetted write claims other than on ".".
THEOREM ClaimsGateAllowsOwner == Spec => []GateAllowsOwner
<1>1. ASSUME Inv PROVE GateAllowsOwner
  <2> SUFFICES ASSUME Current
               PROVE  GateAllowsOwner
    BY DEF GateAllowsOwner
  <2>1. ASSUME NEW s \in Session, NEW p \in Path, NEW l \in Lane, Allows(s, p, l)
        PROVE  /\ Active(l) /\ registry[l].session = s /\ Covered(p, Of(l).paths)
               /\ AgentOf[l] = AgentOf[s] /\ Of(l).paths \subseteq Path
    <3>1. /\ projection.of = registry /\ l \in projection.live
          /\ AgentOf[l] = AgentOf[s] /\ registry[l].session = s
          /\ registry[l].expires > lapsed /\ Covered(p, registry[l].shape.paths)
      BY <2>1 DEF Allows, Current, Candidates
    <3>2. registry[l] # NoClaim /\ registry[l].status \in LiveStatus
      BY <1>1, <3>1 DEF Current, Inv, ProjectionSound
    <3>3. registry[l] \in Claim /\ registry[l].expires \in Nat /\ lapsed \in Nat
      BY <1>1, <3>2 DEF Inv, Typed, RegistryTyped, Files, StampsTyped, StampedBy, OnFile, ClockTyped
    <3>4. Of(l).paths \subseteq Path
      BY <3>3, RegistryAssumption DEF Claim, Of
    <3>5. QED
      BY <3>1, <3>2, <3>3, <3>4 DEF Active, IsLive, OnFile, Expired, Of
  <2>2. ASSUME NEW s \in Session, NEW t \in Session, NEW p \in Path, NEW l \in Lane, NEW m \in Lane,
               Allows(s, p, l), Allows(t, p, m), AgentOf[s] # AgentOf[t],
               Of(l).type = "write", Of(m).type = "write",
               l \notin unvetted, m \notin unvetted,
               Root \notin Of(l).paths \cup Of(m).paths
        PROVE  FALSE
    <3>1. /\ Active(l) /\ Active(m) /\ AgentOf[l] # AgentOf[m]
          /\ Covered(p, Of(l).paths) /\ Covered(p, Of(m).paths)
          /\ Of(l).paths \subseteq Path /\ Of(m).paths \subseteq Path
      BY <2>1, <2>2
    <3>2. Overlapping(Of(l).paths, Of(m).paths)
      BY <2>2, <3>1, CoveredAbove
    <3>3. Conflict(l, m) /\ l # m /\ Held(l) /\ Held(m)
      BY <2>2, <3>1, <3>2 DEF Conflict, Held
    <3>4. QED
      BY <1>1, <2>2, <3>3 DEF Inv, HeldLanesCompatible
  <2>3. QED
    BY <2>1, <2>2 DEF GateAllowsOwner
<1>2. QED
  BY <1>1, AlwaysInv, PTL
=============================================================================
