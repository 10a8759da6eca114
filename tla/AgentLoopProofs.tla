---------------------------- MODULE AgentLoopProofs ----------------------------
(***************************************************************************)
(* For every limit, every set of settings and of requests a turn may make: *)
(* a refused submit is run again only after the progress it was refused    *)
(* for, the gates never lock out an agent that made progress, an accepted  *)
(* answer is kept, and the completion says what happened.                  *)
(***************************************************************************)
EXTENDS AgentLoop, FiniteSetTheorems, TLAPS

-----------------------------------------------------------------------------
(* Types *)

InLoop  == {"top", "asking", "running"}
Phases  == InLoop \cup {"settling", "closing", "resolving", "over"}
Reasons == {"none", "max_turns", "max_tool_calls", "retrieval_stagnation", "control_churn"}
Texts   == {"", "error", "text", "final", "answer", "submitted"}

EndingType ==
  [reason : Reasons, content : Texts, finish : {"stop", "error", "submitted"},
   submitted : BOOLEAN, guess : BOOLEAN, answer : Texts \cup {"none", "guess", "submit"},
   forced : BOOLEAN]

Gates == [up : BOOLEAN, at : Int]

\* The part of the state that the gates and the completion are about.
TypeOK ==
  /\ mode \in Modes
  /\ phase \in Phases
  /\ evidence \in Nat /\ board \in Nat /\ lastLine \in Int
  /\ evidenceGate \in Gates /\ todoGate \in Gates
  /\ ending \in EndingType
  /\ accepted \in BOOLEAN
  /\ history \in [pending : BOOLEAN, wanting : BOOLEAN, idle : BOOLEAN]

\* The switches of the settings are Boolean.
LEMMA ModeIsSwitches ==
  ASSUME NEW m \in Modes
  PROVE  /\ m.submits \in BOOLEAN /\ m.suppresses \in BOOLEAN /\ m.accepts \in BOOLEAN
         /\ m.forces \in BOOLEAN /\ m.lines \in BOOLEAN
BY LimitsAssumption

\* A submit with a fate in S counts.
LEMMA NumberPositive ==
  ASSUME NEW d, NEW S, d.factual \in S \/ d.terminal \in S
  PROVE  Number(d, S) > 0
<1> DEFINE N == {submit \in {"factual", "terminal"} : d[submit] \in S}
<1>1. IsFiniteSet({"factual", "terminal"})
  <2>1. {"factual", "terminal"} = {"factual"} \cup {"terminal"}
    OBVIOUS
  <2>2. IsFiniteSet({"factual"})
    BY FS_Singleton
  <2> QED
    BY <2>1, <2>2, FS_AddElement, Zenon
<1>2. IsFiniteSet(N) /\ N # {}
  BY <1>1, FS_Subset
<1>3. Cardinality(N) \in Nat /\ Cardinality(N) # 0
  BY <1>2, FS_CardinalityType, FS_EmptySet
<1> QED
  BY <1>3 DEF Number

\* What may become of the calls of a turn.
LEMMA OutcomeFacts ==
  ASSUME TypeOK, NEW d \in Outcomes
  PROVE  /\ d.found \in BOOLEAN /\ d.needs \in BOOLEAN
         /\ d.factual = "suppressed" => Suppressed
         /\ d.factual \in Verdicts => ~Suppressed
         /\ d.terminal # "suppressed"
         /\ d.seen = board \/ (d.seen = board + 1 /\ d.todo = "moved")
         /\ d.needs => Failing(d)
<1>1. /\ d.found \in BOOLEAN /\ d.needs \in BOOLEAN
      /\ d.factual \in Fates(calls.factual, IF Suppressed THEN {"suppressed"} ELSE Verdicts)
      /\ d.terminal \in Fates(calls.terminal, Verdicts)
      /\ d.seen \in {board, board + 1}
      /\ d.seen = board + 1 => d.todo = "moved"
      /\ d.needs => {d.factual, d.terminal} \cap Rejected # {}
  BY DEF Outcomes
<1>2. d.needs => Failing(d)
  <2> SUFFICES ASSUME d.needs PROVE Failing(d)
    OBVIOUS
  <2>1. d.factual \in {"refused", "suppressed", "failed"} \cup Rejected
        \/ d.terminal \in {"refused", "suppressed", "failed"} \cup Rejected
    BY <1>1
  <2> QED
    BY <2>1, NumberPositive DEF Failing
<1>3. /\ d.factual = "suppressed" => Suppressed
      /\ d.factual \in Verdicts => ~Suppressed
      /\ d.terminal # "suppressed"
  BY <1>1 DEF Fates, Verdicts
<1> QED
  BY <1>1, <1>2, <1>3

-----------------------------------------------------------------------------
(* The gates *)

\* The status line the loop holds is that of the board; when rejections carry
\* theirs, the TODO gate is up exactly while the board is the one a rejection
\* for pending atoms saw; the gate of evidence is up while a demand for
\* evidence is unmet, and only while nothing came in since a submit failed.
GatesTell ==
  /\ lastLine \in {None, board}
  /\ mode.lines => todoGate = (IF history.pending THEN Raised(board) ELSE Down)
  /\ mode.lines /\ history.wanting => evidenceGate = Raised(evidence)
  /\ evidenceGate.up => history.idle

-----------------------------------------------------------------------------
(* The ending *)

\* What the ending says of the submits, in each phase of the run.
EndingTells ==
  /\ phase # "over" => ~ending.forced
  /\ phase \in InLoop => ~accepted /\ ~ending.submitted
  /\ phase = "settling" => (accepted <=> ending.submitted)
  /\ ending.submitted /\ ~ending.forced => accepted
  /\ accepted => Grounded \/ ending.reason = "retrieval_stagnation"
  /\ phase \notin InLoop \cup {"settling"} /\ accepted =>
       ending.finish = "submitted" \/ ending.reason \in {"retrieval_stagnation", "control_churn"}
  /\ ending.content = "error" => ending.finish = "error"
  /\ ending.content \in {"answer", "submitted"} => Grounded
  /\ ending.forced => mode.accepts /\ ending.answer \in {"guess", "text", "final"}

-----------------------------------------------------------------------------
(* Types are kept *)

LEMMA RaisedType == Down \in Gates /\ \A x \in Int : Raised(x) \in Gates
BY DEF Down, Raised, Gates, None

LEMMA TypeInit == Init => TypeOK
<1> SUFFICES ASSUME Init PROVE TypeOK
  OBVIOUS
<1>1. mode \in Modes /\ phase \in Phases /\ evidence \in Nat /\ board \in Nat /\ accepted \in BOOLEAN
  BY DEF Init, Phases, InLoop
<1>2. lastLine \in Int /\ evidenceGate \in Gates /\ todoGate \in Gates
  <2>1. lastLine = None /\ evidenceGate = Down /\ todoGate = Down
    BY DEF Init
  <2> QED
    BY <2>1, RaisedType DEF None
<1>3. ending \in EndingType
  BY DEF Init, EndingType, Reasons, Texts
<1>4. history \in [pending : BOOLEAN, wanting : BOOLEAN, idle : BOOLEAN]
  BY DEF Init
<1> QED
  BY <1>1, <1>2, <1>3, <1>4 DEF TypeOK

LEMMA RunToolsTypes ==
  ASSUME TypeOK, NEW d \in Outcomes, RunTools(d)
  PROVE  TypeOK'
<1>1. evidence' \in Nat /\ board' \in Nat /\ lastLine' \in Int
  BY DEF RunTools, TypeOK, EvidenceNow
<1>2. d.seen \in Nat
  BY OutcomeFacts DEF TypeOK
<1>3. todoGate' \in Gates
  <2>1. TodoAfterVerdicts(d) \in Gates
    BY <1>2, RaisedType DEF TodoAfterVerdicts, TodoGate, TypeOK
  <2> QED
    BY <2>1, RaisedType DEF RunTools
<1>4. evidenceGate' \in Gates
  <2>1. EvidenceNow(d) \in Int
    BY DEF EvidenceNow, TypeOK
  <2>2. EvidenceAfterVerdicts(d) \in Gates
    BY <2>1, RaisedType DEF EvidenceAfterVerdicts, GateBefore, EvidenceGate, TypeOK
  <2> QED
    BY <2>2, RaisedType DEF RunTools
<1>5. ending' \in EndingType
  BY DEF RunTools, TypeOK, EndingType, Reasons, Texts
<1>6. history' \in [pending : BOOLEAN, wanting : BOOLEAN, idle : BOOLEAN]
  BY DEF RunTools
<1>7. mode' \in Modes /\ phase' \in Phases /\ accepted' \in BOOLEAN
  BY DEF RunTools, Noted, TypeOK, Phases, InLoop
<1> QED
  BY <1>1, <1>3, <1>4, <1>5, <1>6, <1>7 DEF TypeOK

\* Leaving the loop resets its locals.
LEMMA LoopEndsTypes ==
  ASSUME TypeOK, LoopEnds, ending' \in EndingType, accepted' \in BOOLEAN
  PROVE  TypeOK'
BY DEF LoopEnds, TypeOK, Phases, InLoop, Gates, Down, None

LEMMA TypeStep == TypeOK /\ [Next]_vars => TypeOK'
<1> SUFFICES ASSUME TypeOK, [Next]_vars PROVE TypeOK'
  OBVIOUS
<1>1. CASE StartTurn \/ GraceTurn \/ RepairTurn
  BY <1>1 DEF StartTurn, GraceTurn, RepairTurn, Ask, Loop, TypeOK, Phases, InLoop
<1>2. CASE BudgetEnds \/ TurnsEnd
  <2>1. ending' \in EndingType
    BY <1>2 DEF BudgetEnds, TurnsEnd, Leave, TypeOK, EndingType, Reasons
  <2> QED
    BY <1>2, <2>1, LoopEndsTypes DEF BudgetEnds, TurnsEnd, Leave, TypeOK
<1>3. CASE CallFails
  <2>1. ending' \in EndingType
    BY <1>3 DEF CallFails, Leave, TypeOK, EndingType, Texts
  <2> QED
    BY <1>3, <2>1, LoopEndsTypes DEF CallFails, Leave, TypeOK
<1>4. CASE TextNudged \/ AskForTools \/ TurnEnds
  BY <1>4 DEF TextNudged, AskForTools, TurnEnds, Loop, TypeOK, Phases, InLoop
<1>5. CASE PlainText
  <2>1. ending' \in EndingType
    BY <1>5 DEF PlainText, Leave, TypeOK, EndingType, Texts
  <2> QED
    BY <1>5, <2>1, LoopEndsTypes DEF PlainText, Leave, TypeOK
<1>6. ASSUME NEW d \in Outcomes, RunTools(d) PROVE TypeOK'
  BY <1>6, RunToolsTypes
<1>7. ASSUME NEW d \in Outcomes, StagnationFuse(d) PROVE TypeOK'
  <2>1. ending' \in EndingType /\ accepted' \in BOOLEAN
    BY <1>7 DEF StagnationFuse, Noted, TypeOK, EndingType, Reasons
  <2> QED
    BY <1>7, <2>1, LoopEndsTypes DEF StagnationFuse
<1>8. CASE FuseStops \/ ErrorsEnd
  <2>1. ending' \in EndingType
    BY <1>8 DEF FuseStops, ErrorsEnd, Leave, TypeOK, EndingType, Reasons
  <2> QED
    BY <1>8, <2>1, LoopEndsTypes DEF FuseStops, ErrorsEnd, Leave, TypeOK
<1>9. CASE SubmitEnds
  <2>1. ending' \in EndingType
    BY <1>9 DEF SubmitEnds, Leave, TypeOK, EndingType, Texts
  <2> QED
    BY <1>9, <2>1, LoopEndsTypes DEF SubmitEnds, Leave, TypeOK
<1>10. ASSUME NEW class, ForcedFails(class) PROVE TypeOK'
  BY <1>10 DEF ForcedFails, Locals, TypeOK, Phases, InLoop, EndingType, Texts
<1>11. CASE ForcedAnswers
  BY <1>11 DEF ForcedAnswers, Locals, TypeOK, Phases, InLoop, EndingType, Texts
<1>12. CASE Resolve
  <2>1. ForcedAccept \in BOOLEAN
    BY <1>12, ModeIsSwitches DEF ForcedAccept, Owed, TypeOK, EndingType
  <2>2. ending' \in EndingType
    BY <1>12, <2>1 DEF Resolve, TypeOK, EndingType
  <2> QED
    BY <1>12, <2>2 DEF Resolve, Locals, TypeOK, Phases, InLoop
<1>13. CASE UNCHANGED vars
  BY <1>13 DEF vars, TypeOK
<1> QED
  BY <1>1, <1>2, <1>3, <1>4, <1>5, <1>6, <1>7, <1>8, <1>9, <1>10, <1>11, <1>12, <1>13
  DEF Next

-----------------------------------------------------------------------------
(* The gates, step by step *)

\* Steps that leave alone what the gates compare.
Quiet == UNCHANGED <<mode, evidence, board, lastLine, evidenceGate, todoGate, history>>

LEMMA QuietGates == TypeOK /\ GatesTell /\ Quiet => GatesTell'
BY DEF Quiet, GatesTell

LEMMA QuietSteps ==
  ASSUME \/ StartTurn \/ GraceTurn \/ RepairTurn \/ TextNudged \/ AskForTools \/ TurnEnds
         \/ \E class \in {"raised", "tools", "empty"} : ForcedFails(class)
         \/ ForcedAnswers \/ Resolve \/ UNCHANGED vars
  PROVE  Quiet
BY DEF StartTurn, GraceTurn, RepairTurn, TextNudged, AskForTools, TurnEnds, ForcedFails,
       ForcedAnswers, Resolve, Ask, Loop, Locals, Quiet, vars

\* The loop is left with a clean slate.
LEMMA LoopEndsGates == LoopEnds => GatesTell' /\ phase' = "closing" /\ mode' = mode
BY DEF LoopEnds, GatesTell, Down, None

LEMMA LeavingSteps ==
  ASSUME \/ BudgetEnds \/ TurnsEnd \/ CallFails \/ PlainText \/ FuseStops \/ SubmitEnds
         \/ ErrorsEnd \/ \E d \in Outcomes : StagnationFuse(d)
  PROVE  LoopEnds
BY DEF BudgetEnds, TurnsEnd, CallFails, PlainText, FuseStops, SubmitEnds, ErrorsEnd,
       StagnationFuse, Leave

\* What a turn's outcome does to the gates.
LEMMA RunToolsGates ==
  ASSUME TypeOK, GatesTell, NEW d \in Outcomes, RunTools(d)
  PROVE  GatesTell'
<1> DEFINE pending == Fate(d, "pending")
           moved == IF pending THEN d.seen # board' ELSE history.pending /\ board' # board
<1>1. /\ d.found \in BOOLEAN /\ d.needs \in BOOLEAN
      /\ d.seen = board \/ (d.seen = board + 1 /\ d.todo = "moved")
      /\ d.needs => Failing(d)
  BY OutcomeFacts
<1>2. /\ board' = IF d.todo = "moved" THEN board + 1 ELSE board
      /\ lastLine' = IF d.todo \in {"same", "moved"} THEN board' ELSE lastLine
      /\ evidence' = EvidenceNow(d) /\ mode' = mode
      /\ evidenceGate' = IF TodoMoved(d) THEN Down ELSE EvidenceAfterVerdicts(d)
      /\ todoGate' = IF TodoMoved(d) THEN Down ELSE TodoAfterVerdicts(d)
      /\ history'.pending = ((pending \/ history.pending) /\ ~moved)
      /\ history'.wanting = ((d.needs \/ history.wanting) /\ ~d.found /\ ~moved)
      /\ history'.idle = (Failing(d) \/ (history.idle /\ ~d.found))
  BY DEF RunTools
<1>3. board \in Nat /\ board' \in Nat /\ evidence \in Nat /\ mode.lines \in BOOLEAN
  BY <1>2, ModeIsSwitches DEF TypeOK
<1>4. lastLine' \in {None, board'}
  BY <1>2 DEF GatesTell
<1>5. ASSUME mode.lines
      PROVE  /\ todoGate' = (IF history'.pending THEN Raised(board') ELSE Down)
             /\ TodoMoved(d) => moved
  <2>1. todoGate = IF history.pending THEN Raised(board) ELSE Down
    BY <1>5 DEF GatesTell
  <2>2. CASE pending
    <3>1. TodoAfterVerdicts(d) = Raised(d.seen)
      BY <1>5, <2>2 DEF TodoAfterVerdicts
    <3>2. TodoMoved(d) <=> d.seen # board'
      BY <1>1, <1>2, <1>3, <1>4, <3>1 DEF TodoMoved, Raised, None
    <3> QED
      BY <1>2, <2>2, <3>1, <3>2
  <2>3. CASE ~pending /\ history.pending
    <3>1. todoGate = Raised(board) /\ TodoBlocks
      BY <2>1, <2>3 DEF TodoBlocks, Raised, GatesTell
    <3>2. TodoAfterVerdicts(d) = Raised(board)
      BY <2>3, <3>1 DEF TodoAfterVerdicts, TodoGate
    <3>3. TodoMoved(d) <=> board' # board
      BY <1>2, <1>3, <1>4, <3>2 DEF TodoMoved, Raised, None, GatesTell
    <3> QED
      BY <1>2, <2>3, <3>2, <3>3
  <2>4. CASE ~pending /\ ~history.pending
    <3>1. TodoAfterVerdicts(d) = Down
      BY <2>1, <2>4 DEF TodoAfterVerdicts, TodoGate
    <3>2. ~TodoMoved(d)
      BY <3>1 DEF TodoMoved, Down
    <3>3. history'.pending = FALSE
      BY <1>2, <2>4
    <3> QED
      BY <1>2, <3>1, <3>2, <3>3
  <2> QED
    BY <2>2, <2>3, <2>4
<1>6. ASSUME mode.lines, history'.wanting
      PROVE  evidenceGate' = Raised(evidence')
  <2>1. ~d.found /\ ~moved /\ (d.needs \/ history.wanting)
    BY <1>2, <1>6
  <2>2. evidenceGate' = EvidenceAfterVerdicts(d) /\ evidence' = evidence
    BY <1>2, <1>5, <1>6, <2>1 DEF EvidenceNow
  <2>3. ASSUME ~d.needs PROVE GateBefore(d) = Raised(evidence)
    <3>1. evidenceGate = Raised(evidence)
      BY <1>6, <2>1, <2>3 DEF GatesTell
    <3>2. EvidenceBlocks
      BY <3>1 DEF EvidenceBlocks, Raised
    <3> QED
      BY <2>1, <3>1, <3>2 DEF GateBefore, EvidenceGate, EvidencePassed
  <2> QED
    BY <2>1, <2>2, <2>3 DEF EvidenceAfterVerdicts, EvidenceNow, Raised
<1>7. ASSUME evidenceGate'.up
      PROVE  history'.idle
  <2>1. evidenceGate' = EvidenceAfterVerdicts(d)
    BY <1>2, <1>7 DEF Down
  <2>2. d.found => GateBefore(d) = Down
    BY DEF GateBefore
  <2>3. ~d.found => GateBefore(d) \in {Down, evidenceGate}
    BY DEF GateBefore, EvidenceGate
  <2>4. CASE Failing(d)
    BY <1>2, <2>4
  <2>5. CASE ~Failing(d)
    <3>1. evidenceGate' = GateBefore(d)
      BY <1>1, <2>1, <2>5 DEF EvidenceAfterVerdicts
    <3>2. ~d.found /\ evidenceGate' = evidenceGate
      BY <1>1, <1>7, <2>2, <2>3, <3>1 DEF Down
    <3> QED
      BY <1>2, <1>7, <3>2 DEF GatesTell
  <2> QED
    BY <2>4, <2>5
<1> HIDE DEF moved, pending
<1> QED
  BY <1>2, <1>4, <1>5, <1>6, <1>7 DEF GatesTell

LEMMA GatesStep == TypeOK /\ GatesTell /\ [Next]_vars => GatesTell'
<1> SUFFICES ASSUME TypeOK, GatesTell, [Next]_vars PROVE GatesTell'
  OBVIOUS
<1>1. ASSUME NEW d \in Outcomes, RunTools(d) PROVE GatesTell'
  BY <1>1, RunToolsGates
<1>2. ASSUME NEW d \in Outcomes, StagnationFuse(d) PROVE GatesTell'
  BY <1>2, LeavingSteps, LoopEndsGates
<1> QED
  BY <1>1, <1>2, QuietSteps, QuietGates, LeavingSteps, LoopEndsGates DEF Next

-----------------------------------------------------------------------------
(* The ending, step by step *)

\* Steps inside the loop that change neither the ending nor what was accepted.
LEMMA EndingQuiet ==
  ASSUME TypeOK, EndingTells, phase \in InLoop, UNCHANGED <<mode, ending, accepted>>,
         phase' \in InLoop \cup {"settling", "closing"}
  PROVE  EndingTells'
BY DEF EndingTells, InLoop, Grounded, TypeOK, EndingType

LEMMA EndingStep == TypeOK /\ EndingTells /\ [Next]_vars => EndingTells'
<1> SUFFICES ASSUME TypeOK, EndingTells, [Next]_vars PROVE EndingTells'
  OBVIOUS
<1> USE DEF InLoop, Grounded
<1>1. CASE StartTurn \/ GraceTurn \/ RepairTurn
  BY <1>1, EndingQuiet DEF StartTurn, GraceTurn, RepairTurn, AtTop, Ask, Loop
<1>2. CASE BudgetEnds \/ TurnsEnd
  BY <1>2 DEF BudgetEnds, TurnsEnd, AtTop, Leave, LoopEnds, EndingTells, TypeOK, EndingType
<1>3. CASE CallFails
  BY <1>3 DEF CallFails, Leave, LoopEnds, EndingTells, TypeOK, EndingType
<1>4. CASE TextNudged \/ AskForTools
  BY <1>4, EndingQuiet DEF TextNudged, AskForTools, Loop
<1>5. CASE PlainText
  <2>1. PICK text \in {"text", ""} : ending' = [ending EXCEPT !.content = text]
    BY <1>5 DEF PlainText, Leave
  <2>2. phase = "asking" /\ phase' = "closing" /\ UNCHANGED <<mode, accepted>>
    BY <1>5 DEF PlainText, Leave, LoopEnds
  <2> QED
    BY <2>1, <2>2 DEF EndingTells, TypeOK, EndingType
<1>6. ASSUME NEW d \in Outcomes, RunTools(d) PROVE EndingTells'
  BY <1>6 DEF RunTools, Noted, EndingTells, TypeOK, EndingType
<1>7. ASSUME NEW d \in Outcomes, StagnationFuse(d) PROVE EndingTells'
  BY <1>7 DEF StagnationFuse, LoopEnds, Noted, EndingTells, TypeOK, EndingType
<1>8. CASE FuseStops
  BY <1>8 DEF FuseStops, Leave, LoopEnds, EndingTells, TypeOK, EndingType
<1>9. CASE SubmitEnds
  BY <1>9 DEF SubmitEnds, Leave, LoopEnds, EndingTells, TypeOK, EndingType
<1>10. CASE ErrorsEnd
  BY <1>10 DEF ErrorsEnd, GoesOn, Leave, LoopEnds, EndingTells, TypeOK, EndingType
<1>11. CASE TurnEnds
  BY <1>11 DEF TurnEnds, GoesOn, EndingTells, TypeOK, EndingType
<1>12. ASSUME NEW class, ForcedFails(class) PROVE EndingTells'
  BY <1>12 DEF ForcedFails, ForcedOwed, Locals, EndingTells, TypeOK, EndingType
<1>13. CASE ForcedAnswers
  BY <1>13 DEF ForcedAnswers, ForcedOwed, Locals, EndingTells, TypeOK, EndingType
<1>14. CASE Resolve
  BY <1>14, ModeIsSwitches
  DEF Resolve, Locals, ForcedAccept, Owed, HasFinalContent, EndingTells, TypeOK, EndingType, Texts
<1>15. CASE UNCHANGED vars
  BY <1>15 DEF vars, EndingTells
<1> QED
  BY <1>1, <1>2, <1>3, <1>4, <1>5, <1>6, <1>7, <1>8, <1>9, <1>10, <1>11, <1>12, <1>13, <1>14,
     <1>15 DEF Next

-----------------------------------------------------------------------------
(* Results *)

LEMMA AgentInvariant == Spec => [](TypeOK /\ GatesTell /\ EndingTells)
<1>1. ASSUME Init PROVE GatesTell
  <2>1. /\ lastLine = None /\ evidenceGate = Down /\ todoGate = Down
        /\ ~history.pending /\ ~history.wanting
    BY <1>1 DEF Init
  <2> QED
    BY <2>1 DEF GatesTell, Down
<1>2. ASSUME Init PROVE EndingTells
  <2>1. /\ phase = "top" /\ ~accepted
        /\ ~ending.forced /\ ~ending.submitted /\ ending.content = ""
    BY <1>2 DEF Init
  <2> QED
    BY <2>1 DEF EndingTells, InLoop, Grounded
<1> QED
  BY <1>1, <1>2, TypeInit, TypeStep, GatesStep, EndingStep, PTL DEF Spec

\* A turn's calls are answered by one of the outcomes.
LEMMA RunningStep ==
  ASSUME Next, phase = "running"
  PROVE  \E d \in Outcomes : did'.factual = d.factual
<1>1. PICK d \in Outcomes : RunTools(d) \/ StagnationFuse(d)
  BY DEF Next, StartTurn, GraceTurn, RepairTurn, BudgetEnds, TurnsEnd, AtTop, CallFails,
         TextNudged, PlainText, AskForTools, FuseStops, SubmitEnds, ErrorsEnd, TurnEnds,
         GoesOn, ForcedFails, ForcedAnswers, Resolve
<1> QED
  BY <1>1 DEF RunTools, StagnationFuse, Noted

\* A submit the validator refused for pending atoms is run again only after the board
\* changed, and one refused for want of evidence only after evidence or a change of
\* the board: the gates are up for as long as the demand of the rejection stands.
THEOREM AgentSubmitNeedsProgress == Spec => SubmitNeedsProgress
<1> DEFINE Progressed ==
      phase = "running" /\ mode.suppresses /\ mode.lines /\ did'.factual \in Verdicts =>
        ~history.pending /\ ~history.wanting
<1>1. ASSUME TypeOK, GatesTell, [Next]_vars PROVE [Progressed]_vars
  <2> SUFFICES ASSUME Next, phase = "running", mode.suppresses, mode.lines,
                      did'.factual \in Verdicts
               PROVE  ~history.pending /\ ~history.wanting
    BY <1>1
  <2>1. PICK d \in Outcomes : did'.factual = d.factual
    BY RunningStep
  <2>2. ~EvidenceBlocks /\ ~TodoBlocks
    BY <1>1, <2>1, OutcomeFacts DEF Suppressed
  <2> QED
    BY <1>1, <2>2 DEF EvidenceBlocks, TodoBlocks, GatesTell, Raised
<1>2. TypeOK /\ GatesTell /\ [Next]_vars => [Progressed]_vars
  BY <1>1
<1> QED
  BY <1>2, AgentInvariant, PTL DEF Spec, SubmitNeedsProgress

\* A submit is suppressed only while nothing came in since the last failing submit or the
\* board is the one the last rejection for pending atoms saw.
THEOREM AgentSuppressedOnlyWithoutProgress == Spec => SuppressedOnlyWithoutProgress
<1> DEFINE Stuck ==
      phase = "running" /\ mode.lines /\ did'.factual = "suppressed" =>
        history.idle \/ history.pending
<1>1. ASSUME TypeOK, GatesTell, [Next]_vars PROVE [Stuck]_vars
  <2> SUFFICES ASSUME Next, phase = "running", mode.lines, did'.factual = "suppressed"
               PROVE  history.idle \/ history.pending
    BY <1>1
  <2>1. PICK d \in Outcomes : did'.factual = d.factual
    BY RunningStep
  <2>2. EvidenceBlocks \/ TodoBlocks
    BY <1>1, <2>1, OutcomeFacts DEF Suppressed
  <2> QED
    BY <1>1, <2>2 DEF EvidenceBlocks, TodoBlocks, GatesTell, Down
<1>2. TypeOK /\ GatesTell /\ [Next]_vars => [Stuck]_vars
  BY <1>1
<1> QED
  BY <1>2, AgentInvariant, PTL DEF Spec, SuppressedOnlyWithoutProgress

\* An accepted answer is the final answer of the run, unless a fuse trips in its turn.
THEOREM AgentAcceptedSubmitKept == Spec => []AcceptedSubmitKept
<1>1. TypeOK /\ EndingTells => AcceptedSubmitKept
  BY DEF EndingTells, AcceptedSubmitKept, InLoop
<1> QED
  BY <1>1, AgentInvariant, PTL

\* A grounded submit was accepted, a required one counts as made only if it was or the
\* caller lets a forced answer stand in, and the text of an error never does.
THEOREM AgentHonestCompletion == Spec => []HonestCompletion
<1>1. TypeOK /\ EndingTells => HonestCompletion
  BY DEF EndingTells, HonestCompletion, Grounded, RunCompleted, Missing
<1> QED
  BY <1>1, AgentInvariant, PTL
=============================================================================
