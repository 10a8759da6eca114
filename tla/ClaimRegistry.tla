----------------------------- MODULE ClaimRegistry -----------------------------
(***************************************************************************)
(* The claim registry of enforced_planning/coordination_claims.py: one     *)
(* YAML file per lane, changed under the registry lock, and the projection *)
(* of it by which prewrite_claim_fast.py allows a session to write a path. *)
(* An action is one critical section of claim_registry_lock.  The stamp of *)
(* a change is its instant; time only shows in which stamps are too old.   *)
(***************************************************************************)
EXTENDS Naturals, FiniteSets, Sequences, SequencesExt

CONSTANTS Session,        \* runtime sessions of the agents
          Lane,           \* claim slots: agent, project and scope; one project
          NoLane,
          NoClaim,
          NoProjection,
          Worktree,
          AgentOf,        \* the agent of a session and of a lane
          Plan,           \* numbered plans
          WorktreeOf,     \* the worktree of a lane
          Path,           \* normalized write paths, as sequences of names
          Root,           \* the path "."
          Shape,          \* plan, claim type, write paths and parent of a request
          AllowParallel,  \* whether sessions pass --allow-parallel
          MaxWrites,      \* bound on the changes of the registry
          MayFail         \* whether an error or a crash may end a critical section

ClaimType  == {"program", "write", "review", "research"}
LiveStatus == {"active", "handoff"}
Status     == LiveStatus \cup {"session_ended", "completed", "abandoned", "closing"}

ASSUME RegistryAssumption ==
  /\ Path \subseteq Seq(STRING) /\ Root \in Path
  /\ Shape \subseteq [plan: Plan, type: ClaimType, paths: SUBSET Path, parent: Lane \cup {NoLane}]
  /\ WorktreeOf \in [Lane -> Worktree]
  /\ AllowParallel \in BOOLEAN
  /\ MaxWrites \in Nat
  /\ MayFail \in BOOLEAN

\* expires and updated are the stamps of expires_at and updated_at, beat of heartbeat_at.
Claim == [status: Status, session: Session, shape: Shape,
          expires: Nat, beat: Nat, updated: Nat]

ASSUME NullAssumption ==
  /\ NoLane \notin Lane
  /\ NoClaim \notin Claim
  /\ NoProjection \notin [of: [Lane -> Claim \cup {NoClaim}], live: SUBSET Lane]

VARIABLES registry,    \* the claim file of each lane
          writes,      \* changes of the registry so far
          lapsed,      \* claims made up to this stamp have expired
          cold,        \* heartbeats up to this stamp are stale
          worktrees,   \* the worktrees on disk
          projection,  \* the authority projection the gate reads
          unvetted     \* history: lanes taken without the checks of create_claim

registryVars == <<registry, writes, lapsed, cold, worktrees, projection, unvetted>>

-----------------------------------------------------------------------------
(* What the files say *)

OnFile(l) == registry[l] # NoClaim
IsLive(l) == OnFile(l) /\ registry[l].status \in LiveStatus
Expired(l) == registry[l].expires <= lapsed
Stale(l) == registry[l].beat <= cold

\* check_claims: expired files stay on disk and count for nothing.
Active(l) == IsLive(l) /\ ~Expired(l)
Preserved(l) == OnFile(l) /\ registry[l].status = "session_ended" /\ ~Expired(l)
Held(l) == Active(l) \/ Preserved(l)

Of(l) == registry[l].shape
IsRoot(c) == c.type = "program" /\ c.parent = NoLane

\* _paths_overlap: one path is the other or lies below it.
Overlap(p, q) == IsPrefix(p, q) \/ IsPrefix(q, p)
Overlapping(P, Q) == \E p \in P, q \in Q : Overlap(p, q)

\* _path_is_claimed: here "." claims the whole worktree.
Covered(p, P) == \E q \in P : q = Root \/ IsPrefix(q, p)

-----------------------------------------------------------------------------
(* The checks of create_claim for session s, lane l and shape c *)

\* Mutant: a preserved lane only protects its plan.
SparesPreservedPlan(l, c) ==
  \A m \in Lane \ {l} : Preserved(m) => Of(m).plan # c.plan

\* validate_no_preserved_lane_conflict
SparesPreserved(l, c) ==
  \A m \in Lane \ {l} :
    Preserved(m) => Of(m).plan # c.plan /\ ~Overlapping(c.paths, Of(m).paths)

\* claim_hierarchy_issues: the parent is a program of the plan, and a plan with
\* several live claims has one root, the parent of all others.
HierarchySound(l, c) ==
  LET others == {m \in Lane \ {l} : Active(m)}
      cohort == {m \in others : Of(m).plan = c.plan}
      roots  == {m \in cohort : IsRoot(Of(m))} \cup {m \in {l} : IsRoot(c)}
  IN /\ c.parent # NoLane => c.parent \in cohort /\ Of(c.parent).type = "program"
     /\ cohort # {} => \E r \in roots : roots = {r} /\ (r # l => c.parent = r)

\* validate_session_root_for_creation
OneRootPerSession(s, l, c) ==
  AllowParallel \/ c.parent # NoLane
  \/ \A m \in Lane \ {l} : Active(m) /\ registry[m].session = s => Of(m).parent # NoLane

\* evaluate_claim: a hard conflict is one of two write claims of two agents.
NoHardConflict(l, c) ==
  \A m \in Lane \ {l} :
    Active(m) /\ AgentOf[m] # AgentOf[l] /\ Of(m).type = "write" /\ c.type = "write"
    => ~Overlapping(c.paths, Of(m).paths)

-----------------------------------------------------------------------------
(* Changing the registry *)

\* build_projection of registry r.
Compiled(r) ==
  [of   |-> r,
   live |-> {l \in Lane : r[l] # NoClaim /\ r[l].status \in LiveStatus /\ r[l].expires > lapsed}]

\* One critical section: the files of the lanes S become those of r, one by one,
\* and then the projection is refreshed, unless an error or a crash comes first.
Commit(r, S) ==
  /\ S # {} /\ writes < MaxWrites
  /\ writes' = writes + 1
  /\ \/ registry' = r /\ projection' = Compiled(r)
     \/ /\ MayFail
        /\ \E done \in (SUBSET S) \ {{}} :
             registry' = [l \in Lane |-> IF l \in done THEN r[l] ELSE registry[l]]
        /\ UNCHANGED projection
  /\ UNCHANGED <<lapsed, cold, worktrees>>

Put(l, c) == Commit([registry EXCEPT ![l] = c], {l})

\* The file of lane l with a new status.
Stamped(l, status) ==
  [registry[l] EXCEPT !.status = status, !.updated = writes + 1]

Unlink(S) ==
  /\ Commit([l \in Lane |-> IF l \in S THEN NoClaim ELSE registry[l]], S)
  /\ unvetted' = {l \in unvetted : registry'[l] # NoClaim}

\* Mine(s): the live files of the exact session.
Mine(s) == {l \in Lane : IsLive(l) /\ AgentOf[l] = AgentOf[s] /\ registry[l].session = s}

-----------------------------------------------------------------------------
(* The operations of coordination_claims.py *)

CreateClaim(s, l, c) ==
  /\ AgentOf[l] = AgentOf[s]
  /\ OnFile(l) => registry[l].status # "session_ended"
  /\ SparesPreserved(l, c)
  /\ HierarchySound(l, c)
  /\ OneRootPerSession(s, l, c)
  /\ NoHardConflict(l, c)
  /\ Put(l, [status |-> "active", session |-> s, shape |-> c,
             expires |-> writes + 1, beat |-> writes + 1, updated |-> writes + 1])
  /\ unvetted' = unvetted \ {l}

\* heartbeat_claims: the expiry is not extended.
HeartbeatClaims(s) ==
  /\ Commit([l \in Lane |-> IF l \in Mine(s)
                            THEN [registry[l] EXCEPT !.beat = writes + 1, !.updated = writes + 1]
                            ELSE registry[l]], Mine(s))
  /\ UNCHANGED unvetted

EndSessionClaims(s) ==
  /\ Commit([l \in Lane |-> IF l \in Mine(s) THEN Stamped(l, "session_ended") ELSE registry[l]],
            Mine(s))
  /\ UNCHANGED unvetted

\* release_claim deletes the file whatever its status.
ReleaseClaim(l) == OnFile(l) /\ Unlink({l})

CompleteClaimsForPlan(p) ==
  LET done == {l \in Lane : IsLive(l) /\ Of(l).plan = p}
  IN /\ Commit([l \in Lane |-> IF l \in done THEN Stamped(l, "completed") ELSE registry[l]], done)
     /\ UNCHANGED unvetted

PruneExpired == Unlink({l \in Lane : OnFile(l) /\ Expired(l)})

\* A stale heartbeat or a missing worktree; branches are not modelled.
PruneStale == Unlink({l \in Lane : IsLive(l) /\ (Stale(l) \/ WorktreeOf[l] \notin worktrees)})

PruneCompleted == \E l \in Lane : OnFile(l) /\ registry[l].status = "completed" /\ Unlink({l})

\* write_projection outside a mutation: evaluate_prewrite, or by hand.
RefreshProjection ==
  /\ projection' = Compiled(registry)
  /\ UNCHANGED <<registry, writes, lapsed, cold, worktrees, unvetted>>

\* The oldest heartbeats, and later the oldest claims, become too old: a claim
\* lives for 24 hours, a heartbeat counts for two.
TimePasses ==
  /\ \/ /\ lapsed' \in {registry[l].expires : l \in {m \in Lane : OnFile(m) /\ ~Expired(m)}}
        /\ lapsed' <= cold /\ UNCHANGED cold
     \/ /\ cold' \in {registry[l].beat : l \in {m \in Lane : OnFile(m) /\ ~Stale(m)}}
        /\ UNCHANGED lapsed
  /\ UNCHANGED <<registry, writes, worktrees, projection, unvetted>>

\* create_worktree.py makes the worktree of a lane before its session starts.
AddWorktree ==
  /\ \E w \in Worktree \ worktrees : worktrees' = worktrees \cup {w}
  /\ UNCHANGED <<registry, writes, lapsed, cold, projection, unvetted>>

RegistryInit ==
  /\ registry = [l \in Lane |-> NoClaim]
  /\ writes = 0 /\ lapsed = 0 /\ cold = 0
  /\ worktrees = Worktree
  /\ projection = NoProjection
  /\ unvetted = {}

RegistryStep ==
  \/ \E s \in Session, l \in Lane, c \in Shape : CreateClaim(s, l, c)
  \/ \E s \in Session : HeartbeatClaims(s) \/ EndSessionClaims(s)
  \/ \E l \in Lane : ReleaseClaim(l)
  \/ \E p \in Plan : CompleteClaimsForPlan(p)
  \/ PruneExpired \/ PruneStale \/ PruneCompleted
  \/ RefreshProjection \/ TimePasses \/ AddWorktree

-----------------------------------------------------------------------------
(* The gate: evaluate_request_fast in mode "enforce" *)

\* Mutant: any readable projection counts.
CurrentUnbound == projection # NoProjection

\* _load_projection: only a projection of these very files counts.
Current == projection # NoProjection /\ projection.of = registry

Candidates(s, w) ==
  {l \in projection.live : /\ AgentOf[l] = AgentOf[s] /\ WorktreeOf[l] = w
                           /\ projection.of[l].session = s}

\* static_issues: the hierarchy among the claims that were live at the build.
SoundAtBuild(l) ==
  LET At(m)  == projection.of[m].shape
      cohort == {m \in projection.live : At(m).plan = At(l).plan}
      roots  == {m \in cohort : IsRoot(At(m))}
  IN /\ At(l).parent # NoLane => At(l).parent \in cohort \ {l} /\ At(At(l).parent).type = "program"
     /\ cohort # {l} => \E r \in roots : roots = {r} /\ (r # l => At(l).parent = r)

\* By its claim on lane l, session s may write path p in the worktree of the lane.
Allows(s, p, l) ==
  /\ Current
  /\ Candidates(s, WorktreeOf[l]) = {l}
  /\ SoundAtBuild(l)
  /\ projection.of[l].expires > lapsed /\ projection.of[l].beat > cold
  /\ WorktreeOf[l] \in worktrees
  /\ Covered(p, projection.of[l].shape.paths)
=============================================================================
