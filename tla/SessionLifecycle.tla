--------------------------- MODULE SessionLifecycle ----------------------------
(***************************************************************************)
(* The operations of enforced_planning/session_lifecycle.py: a session     *)
(* reads the claim of a lane, decides on what it read, and only then takes *)
(* the registry lock to change the file.                                   *)
(***************************************************************************)
EXTENDS ClaimRegistry

CONSTANT MaxPending    \* bound on the operations under way at a time

ASSUME PendingAssumption == MaxPending \in Nat

VARIABLE op    \* the operation of a session that is under way

vars == <<registryVars, op>>

\* seen is the claim that was read, at the stamp of that moment.
Idle == [step |-> "idle", lane |-> NoLane, seen |-> NoClaim, at |-> 0]

Steps == {"resume", "handoff", "abandoned", "completed", "close", "remove", "record"}

Init == RegistryInit /\ op = [s \in Session |-> Idle]

\* Session s reads the file of lane l and goes on to a step.
Begin(s, l, step) ==
  /\ op[s] = Idle
  /\ Cardinality({t \in Session : op[t] # Idle}) < MaxPending
  /\ AgentOf[l] = AgentOf[s]
  /\ op' = [op EXCEPT ![s] = [step |-> step, lane |-> l, seen |-> registry[l], at |-> writes]]
  /\ UNCHANGED registryVars

At(s, step) == op[s].step = step

Ends(s) == op' = [op EXCEPT ![s] = Idle]

\* The operation raises or its process dies.
Stop(s) == op[s] # Idle /\ Ends(s) /\ UNCHANGED registryVars

-----------------------------------------------------------------------------
(* session-start: a lane without a file is created, else updated *)

\* _upsert_session_claim on an existing file: the two checks of the hierarchy,
\* but none for conflicts, whatever the status and the shape were.
UpdateClaim(s, l, c) ==
  /\ AgentOf[l] = AgentOf[s]
  /\ OnFile(l)
  /\ registry[l].session = s
  /\ HierarchySound(l, c)
  /\ OneRootPerSession(s, l, c)
  /\ Put(l, [Stamped(l, "active") EXCEPT !.shape = c, !.beat = writes + 1])
  /\ unvetted' = IF Held(l) /\ c = Of(l) THEN unvetted ELSE unvetted \cup {l}
  /\ UNCHANGED op

-----------------------------------------------------------------------------
(* session-resume, session-handoff, session-abandon and session-finish *)

BeginResume(s, l) ==
  /\ OnFile(l)
  /\ registry[l].status \in LiveStatus \cup {"session_ended"}
  /\ Begin(s, l, "resume")

\* _single_matching_live_claim
BeginStatus(s, l) ==
  /\ Active(l)
  /\ \E step \in {"handoff", "abandoned", "completed"} : Begin(s, l, step)

\* _apply_claim_payload_updates reads the file again, but not its status.
Update(s, claim) ==
  LET l == op[s].lane
  IN /\ OnFile(l)
     /\ Put(l, claim)
     /\ unvetted' = IF Held(l) \/ claim.status \notin LiveStatus THEN unvetted
                    ELSE unvetted \cup {l}
     /\ Ends(s)

Resume(s) ==
  /\ At(s, "resume")
  /\ Update(s, [Stamped(op[s].lane, "active") EXCEPT !.session = s, !.beat = writes + 1])

SetStatus(s) ==
  /\ op[s].step \in {"handoff", "abandoned", "completed"}
  /\ Update(s, Stamped(op[s].lane, op[s].step))

-----------------------------------------------------------------------------
(* session-close: the file says "closing", the worktree goes, then "completed" *)

\* Mutant: only lanes of the same plan are siblings.
SiblingsOfPlan(l) ==
  {m \in Lane \ {l} : Active(m) /\ WorktreeOf[m] = WorktreeOf[l] /\ Of(m).plan = Of(l).plan}

Siblings(l) == {m \in Lane \ {l} : Active(m) /\ WorktreeOf[m] = WorktreeOf[l]}

\* Mutant: a lane whose file is gone can be closed.
BeginCloseMissing(s, l) == Siblings(l) = {} /\ Begin(s, l, "close")

BeginClose(s, l) ==
  /\ OnFile(l)
  /\ Siblings(l) = {}
  /\ Begin(s, l, "close")

\* The payload that was read is written back, with a new status.
WriteBack(s, status) ==
  /\ Put(op[s].lane, [op[s].seen EXCEPT !.status = status, !.updated = writes + 1])
  /\ UNCHANGED unvetted

MarkClosing(s) ==
  /\ At(s, "close")
  /\ WriteBack(s, "closing")
  /\ op' = [op EXCEPT ![s] = IF projection' = Compiled(registry')
                             THEN [@ EXCEPT !.step = "remove"] ELSE Idle]

RemoveWorktree(s) ==
  /\ At(s, "remove")
  /\ worktrees' = worktrees \ {WorktreeOf[op[s].lane]}
  /\ op' = [op EXCEPT ![s].step = "record"]
  /\ UNCHANGED <<registry, writes, lapsed, cold, projection, unvetted>>

RecordClosed(s) ==
  /\ At(s, "record")
  /\ WriteBack(s, "completed")
  /\ Ends(s)

-----------------------------------------------------------------------------

SessionStep(s) ==
  \/ \E l \in Lane : \/ \E c \in Shape : UpdateClaim(s, l, c)
                     \/ BeginResume(s, l) \/ BeginStatus(s, l) \/ BeginClose(s, l)
  \/ Resume(s) \/ SetStatus(s)
  \/ MarkClosing(s) \/ RemoveWorktree(s) \/ RecordClosed(s)
  \/ Stop(s)

Next == \/ RegistryStep /\ UNCHANGED op
        \/ \E s \in Session : SessionStep(s)

Spec == Init /\ [][Next]_vars

-----------------------------------------------------------------------------
(* Properties *)

Operation == [step: Steps, lane: Lane, seen: Claim, at: Nat]

\* Type invariant of the registry, the projection and the operations.
TypeOK ==
  /\ registry \in [Lane -> Claim \cup {NoClaim}]
  /\ writes \in Nat /\ lapsed \in 0..writes /\ cold \in 0..writes /\ lapsed <= cold
  /\ \A l \in Lane : OnFile(l) => /\ registry[l].updated \in 1..writes
                                  /\ registry[l].expires \in 1..writes
                                  /\ registry[l].beat \in 1..writes
  /\ worktrees \subseteq Worktree
  /\ \/ projection = NoProjection
     \/ projection \in [of: [Lane -> Claim \cup {NoClaim}], live: SUBSET Lane]
  /\ unvetted \subseteq Lane
  /\ op \in [Session -> Operation \cup {Idle}]

\* Two claims that may not be held at once: overlapping write claims of two
\* agents, and two roots of one plan.
Conflict(l, m) ==
  \/ /\ AgentOf[l] # AgentOf[m]
     /\ Of(l).type = "write" /\ Of(m).type = "write"
     /\ Overlapping(Of(l).paths, Of(m).paths)
  \/ /\ Of(l).plan = Of(m).plan
     /\ IsRoot(Of(l)) /\ IsRoot(Of(m))

\* Claims in force, and preserved ones that may come back without a check, never
\* conflict, whatever sessions end, resume, hand off or close: but for a lane that
\* an update widened or an operation revived after it had been given up.
HeldLanesCompatible ==
  \A l, m \in Lane :
    l # m /\ Held(l) /\ Held(m) /\ Conflict(l, m) => l \in unvetted \/ m \in unvetted

\* The gate lets a session write what its own claim covers in the registry of this
\* moment, never by a projection that an error or a crash left behind; and two agents
\* never get the same path by vetted write claims, but for a claim on ".", which the
\* two path tests read differently.
GateAllowsOwner ==
  LET allowed == {a \in [session: Session, path: Path, lane: Lane] :
                    Allows(a.session, a.path, a.lane)}
  IN Current =>
       /\ \A a \in allowed : /\ Active(a.lane) /\ registry[a.lane].session = a.session
                             /\ Covered(a.path, Of(a.lane).paths)
       /\ \A a, b \in allowed :
            /\ AgentOf[a.session] # AgentOf[b.session] /\ a.path = b.path
            /\ Of(a.lane).type = "write" /\ Of(b.lane).type = "write"
            => \/ a.lane \in unvetted \/ b.lane \in unvetted
               \/ Root \in Of(a.lane).paths \cup Of(b.lane).paths

\* A close only takes a worktree away from claims that were written after it had
\* looked for them.
CloseSparesSiblings ==
  [][\A l \in Lane : WorktreeOf[l] \in worktrees \ worktrees' /\ Active(l)
       => \E s \in Session : At(s, "remove") /\ registry[l].updated > op[s].at]_vars
=============================================================================
