----------------------------- MODULE AgentLoop -----------------------------
(***************************************************************************)
(* The turn loop of a tool-calling agent                                   *)
(* (llm_client/agent/mcp_turn_execution.py and the stages it calls): the   *)
(* budget of retrieval calls, the model's turn, the compliance gate, the   *)
(* suppression of submits that bring nothing new, what the tools answer,   *)
(* the fuses (stagnation, churn, stall, error budget), the forced final    *)
(* answer and the completion that is reported.                             *)
(*                                                                         *)
(* The model, the tools and the submit validator are the environment: they *)
(* may answer anything.  A turn's calls are counted by kind: retrieval     *)
(* calls, a todo_write, a submit_answer with a factual answer and one with *)
(* a no-answer terminal.  The evidence is the number of distinct pointers, *)
(* the TODO board the number of changes made to it; its status line names  *)
(* the board it was read from.  One model answers all turns, and the       *)
(* validator has one repair hint.                                          *)
(***************************************************************************)
EXTENDS Integers, FiniteSetsExt

CONSTANTS
  MaxTurns,         \* max_turns
  MaxToolCalls,     \* max_tool_calls (None, no budget, is left out)
  StagnationTurns,  \* retrieval_stagnation_turns
  ChurnTurns,       \* DEFAULT_TOOL_CALL_STALL_TURNS
  StallTurns,       \* submit_progress_stall_turn_threshold
  ForcedAttempts,   \* forced_final_max_attempts
  BreakerAt,        \* forced_final_circuit_breaker_threshold
  MaxAgentTurns, ErrorsPerModel, MaxErrors,   \* AgentErrorBudget
  Asked,            \* the calls a turn of the model may ask for
  Modes             \* the combinations of settings a run looks at

NoCalls == [search |-> 0, todo |-> FALSE, factual |-> FALSE, terminal |-> FALSE]
Requests == [search : 0..2, todo : BOOLEAN, factual : BOOLEAN, terminal : BOOLEAN] \ {NoCalls}

ASSUME LimitsAssumption ==
  /\ {MaxTurns, MaxToolCalls, StagnationTurns, ChurnTurns, StallTurns, ForcedAttempts,
      BreakerAt, MaxAgentTurns, ErrorsPerModel, MaxErrors} \subseteq Nat \ {0}
  /\ Asked \subseteq Requests
  /\ Modes \subseteq [submits    : BOOLEAN,   \* a submit_answer tool is offered
                      suppresses : BOOLEAN,   \* suppress_control_loop_calls
                      accepts    : BOOLEAN,   \* accept_forced_answer_on_max_tool_calls
                      forces     : BOOLEAN,   \* retrieval_stagnation_action = "force_final"
                      lines      : BOOLEAN]   \* a rejection carries todo_status_line

GraceTurns  == 2
RepairTurns == 1
RepeatLimit == 3
None == -1
Down == [up |-> FALSE, at |-> None]
Raised(at) == [up |-> TRUE, at |-> at]

VARIABLES
  mode,       \* the settings of this run
  phase, turn,
  evidence,   \* len(evidence_pointer_labels)
  board,      \* the TODO board, outside the loop
  lastLine,   \* _last_todo_status_line
  evidenceGate, todoGate,   \* submit_requires_..., ..._at_last_failure
  rejections, \* submit_validation_reason_counts
  fuses,      \* streaks of stagnation, churn and stalled submits
  budget,     \* retrieval calls used, grace and repair turns
  errors,     \* ErrorBudgetState
  calls,      \* tool_calls_this_turn, after trimming
  did,        \* what became of them, as far as the end of the turn needs it
  forced,     \* the forced-final attempts
  ending,     \* force_final_reason, final_content, final_finish_reason, ...
  accepted,   \* the validator accepted a submit (for the properties)
  history     \* for the properties: the validator has seen this board and found atoms
              \* pending; it asked for evidence and nothing moved since; no evidence
              \* came in since a submit failed

vars == <<mode, phase, turn, evidence, board, lastLine, evidenceGate, todoGate, rejections,
          fuses, budget, errors, calls, did, forced, ending, accepted, history>>

Verdicts == {"failed", "pending", "other", "accepted"}
Rejected == {"pending", "other"}
Nothing == [factual |-> "none", faults |-> 0, fatal |-> FALSE]

Init ==
  /\ mode \in Modes
  /\ phase = "top" /\ turn = 0
  /\ evidence = 0 /\ board = 0 /\ lastLine = None
  /\ evidenceGate = Down /\ todoGate = Down
  /\ rejections = [r \in Rejected |-> 0]
  /\ fuses = [stale |-> 0, alerted |-> FALSE, churn |-> 0, stall |-> 0, mark |-> Down]
  /\ budget = [used |-> 0, grace |-> 0, repair |-> 0, offered |-> FALSE]
  /\ errors = [turns |-> 0, total |-> 0, inRow |-> 0]
  /\ calls = NoCalls /\ did = Nothing
  /\ forced = [attempts |-> 0, class |-> "none", streak |-> 0, open |-> FALSE]
  /\ ending = [reason |-> "none", content |-> "", finish |-> "stop", submitted |-> FALSE,
               guess |-> FALSE, answer |-> "none", forced |-> FALSE]
  /\ accepted = FALSE
  /\ history = [pending |-> FALSE, wanting |-> FALSE, idle |-> FALSE]

\* The loop is left.  Nothing that follows reads its other locals, so they start over.
LoopEnds ==
  /\ phase' = "closing" /\ turn' = 0
  /\ evidence' = 0 /\ board' = 0 /\ lastLine' = None
  /\ evidenceGate' = Down /\ todoGate' = Down
  /\ rejections' = [r \in Rejected |-> 0]
  /\ fuses' = [stale |-> 0, alerted |-> FALSE, churn |-> 0, stall |-> 0, mark |-> Down]
  /\ budget' = [used |-> 0, grace |-> 0, repair |-> 0, offered |-> FALSE]
  /\ errors' = [turns |-> 0, total |-> 0, inRow |-> 0]
  /\ calls' = NoCalls
  /\ history' = [pending |-> FALSE, wanting |-> FALSE, idle |-> FALSE]
  /\ UNCHANGED <<mode, forced>>

(***************************************************************************)
(* The top of a turn: the budget of retrieval calls.                       *)
(***************************************************************************)
Remaining == MaxToolCalls - budget.used
Owed == mode.submits /\ ~ending.submitted
MayGrace == Owed /\ budget.grace < GraceTurns
MayRepair == Owed /\ budget.grace = GraceTurns /\ budget.offered /\ budget.repair < RepairTurns

Loop == <<mode, evidence, board, lastLine, evidenceGate, todoGate, rejections, fuses, errors,
          calls, did, forced, accepted, history>>

Ask == phase' = "asking" /\ turn' = turn + 1 /\ UNCHANGED <<Loop, ending>>
Leave(end) == LoopEnds /\ did' = Nothing /\ ending' = end /\ UNCHANGED accepted

AtTop == phase = "top" /\ turn < MaxTurns
StartTurn == AtTop /\ Remaining > 0 /\ Ask /\ UNCHANGED budget
GraceTurn ==
  /\ AtTop /\ Remaining <= 0 /\ MayGrace
  /\ budget' = [budget EXCEPT !.grace = @ + 1] /\ Ask
RepairTurn ==
  /\ AtTop /\ Remaining <= 0 /\ MayRepair
  /\ budget' = [budget EXCEPT !.repair = @ + 1] /\ Ask
BudgetEnds ==
  /\ AtTop /\ Remaining <= 0 /\ ~MayGrace /\ ~MayRepair
  /\ Leave(IF Owed /\ ~mode.accepts THEN ending
           ELSE [ending EXCEPT !.reason = "max_tool_calls"])
TurnsEnd ==
  phase = "top" /\ turn = MaxTurns /\ Leave([ending EXCEPT !.reason = "max_turns"])

(***************************************************************************)
(* The model answers: it fails, writes plain text, or asks for tools.      *)
(***************************************************************************)
CallFails ==
  phase = "asking" /\ Leave([ending EXCEPT !.content = "error", !.finish = "error"])

\* Plain text does not end the loop while a submit is owed and a turn is left.
TextNudged ==
  /\ phase = "asking" /\ Owed /\ turn < MaxTurns
  /\ phase' = "top" /\ UNCHANGED <<Loop, turn, budget, ending>>
PlainText ==
  /\ phase = "asking" /\ ~(Owed /\ turn < MaxTurns)
  /\ \E text \in {"text", ""} : Leave([ending EXCEPT !.content = text])

\* Retrieval calls over the budget are dropped from the turn without a record.
AskForTools ==
  /\ phase = "asking" /\ phase' = "running"
  /\ \E c \in Asked :
       /\ (c.factual \/ c.terminal) => mode.submits
       /\ calls' = [c EXCEPT !.search = Min({c.search, Max({Remaining, 0})})]
  /\ UNCHANGED <<mode, turn, evidence, board, lastLine, evidenceGate, todoGate, rejections, fuses,
                 budget, errors, did, forced, ending, accepted, history>>

(***************************************************************************)
(* The compliance gate and the tool contracts refuse calls; a factual      *)
(* submit whose gates have not reopened is suppressed; the rest is run.    *)
(***************************************************************************)
EvidenceBlocks == evidenceGate.up /\ (evidenceGate.at = None \/ evidence = evidenceGate.at)
\* Mutant: the gate opens as soon as no status line is at hand to compare.
TodoBlocksIfSeen == todoGate.up /\ lastLine # None /\ lastLine = todoGate.at
TodoBlocks ==
  todoGate.up /\ (todoGate.at = None \/ lastLine = None \/ lastLine = todoGate.at)
Suppressed == mode.suppresses /\ (EvidenceBlocks \/ TodoBlocks)

Fates(asked, ran) == IF asked THEN {"refused"} \cup ran ELSE {"none"}

\* What may become of the turn's calls: how many retrieval calls ran and how many of
\* them well, whether they found new pointers, the other calls' fates, and what the
\* verdicts say: the board the validator saw, whether it demands new evidence, whether
\* it offers a terminal mode.  fatal: the last error is of a non-recoverable class.
Outcomes ==
  {d \in [ran : 0..calls.search, good : 0..calls.search, found : BOOLEAN,
          todo : Fates(calls.todo, {"failed", "same", "moved"}),
          factual : Fates(calls.factual, IF Suppressed THEN {"suppressed"} ELSE Verdicts),
          terminal : Fates(calls.terminal, Verdicts),
          needs : BOOLEAN, offers : BOOLEAN, fatal : BOOLEAN, seen : {board, board + 1}] :
     /\ d.good <= d.ran /\ (d.found => d.good > 0)
     /\ (d.needs \/ d.offers) => {d.factual, d.terminal} \cap Rejected # {}
     /\ d.fatal => d.good < d.ran \/ "failed" \in {d.todo, d.factual, d.terminal}
     /\ d.seen = board + 1 => d.todo = "moved" /\ "pending" \in {d.factual, d.terminal}}

\* A gate that no longer blocks is opened by the submit that passes it.
EvidencePassed(d) == mode.suppresses /\ d.factual \notin {"none", "refused"} /\ ~EvidenceBlocks
EvidenceGate(d) == IF EvidencePassed(d) THEN Down ELSE evidenceGate
TodoGate(d) == IF EvidencePassed(d) /\ ~TodoBlocks THEN Down ELSE todoGate

Fate(d, s) == s \in {d.factual, d.terminal}
Number(d, S) == Cardinality({submit \in {"factual", "terminal"} : d[submit] \in S})
Failing(d) == Number(d, {"refused", "suppressed", "failed"} \cup Rejected) > 0

\* A rejected submit is an answer; these calls leave a record with an error.
Faults(d) ==
  (calls.search - d.good) + (IF d.todo \in {"refused", "failed"} THEN 1 ELSE 0)
  + Number(d, {"refused", "suppressed", "failed"})

\* What the end of the turn needs, and what the properties look at.
Noted(d) ==
  /\ did' = [factual |-> d.factual, faults |-> Faults(d), fatal |-> d.fatal]
  /\ accepted' = (accepted \/ Fate(d, "accepted"))

(***************************************************************************)
(* The outcome of the turn: evidence and stagnation first, then the submit *)
(* verdicts and the gates they raise, the TODO transition, and the streak  *)
(* of turns whose calls were all blocked.                                  *)
(***************************************************************************)
EvidenceNow(d) == IF d.found THEN evidence + 1 ELSE evidence
GateBefore(d) == IF d.found THEN Down ELSE EvidenceGate(d)
Stale(d) == IF d.good > 0 /\ ~d.found THEN fuses.stale + 1 ELSE 0
Stagnates(d) == Stale(d) >= StagnationTurns /\ ~fuses.alerted

\* Stagnation forces the final answer before the submits of the turn are read.
StagnationFuse(d) ==
  /\ phase = "running" /\ Stagnates(d) /\ mode.forces
  /\ LoopEnds /\ Noted(d)
  /\ ending' = [ending EXCEPT !.reason = "retrieval_stagnation"]

Counted(d) ==
  [r \in Rejected |-> Min({RepeatLimit, rejections[r] + Number(d, {r})})]
\* Mutant: the gate remembers the loop's last status line, not the one of the rejection.
TodoAfterStaleLine(d) == IF Fate(d, "pending") THEN Raised(lastLine) ELSE TodoGate(d)
\* The status line the loop will compare the TODO board with.
TodoAfterVerdicts(d) ==
  IF Fate(d, "pending") THEN Raised(IF mode.lines THEN d.seen ELSE lastLine) ELSE TodoGate(d)
EvidenceAfterVerdicts(d) ==
  LET asked == IF d.needs /\ ~d.found THEN Raised(EvidenceNow(d)) ELSE GateBefore(d)
  IN  IF Failing(d) /\ ~asked.up /\ \E r \in Rejected : Counted(d)[r] >= RepeatLimit
      THEN Raised(EvidenceNow(d))
      ELSE asked

\* A TODO transition reopens both gates.
TodoMoved(d) ==
  LET gate == TodoAfterVerdicts(d)
  IN  gate.up /\ gate.at # None /\ lastLine' # None /\ lastLine' # gate.at

AllBlocked(d) ==
  /\ calls # NoCalls
  /\ d.ran = 0 /\ d.todo \in {"none", "refused"}
  /\ {d.factual, d.terminal} \subseteq {"none", "refused", "suppressed"}
Churn(d) == IF AllBlocked(d) THEN fuses.churn + 1 ELSE 0

RunTools(d) ==
  /\ phase = "running" /\ ~(Stagnates(d) /\ mode.forces)
  /\ phase' = "settling" /\ calls' = NoCalls /\ Noted(d)
  /\ evidence' = EvidenceNow(d)
  /\ board' = IF d.todo = "moved" THEN board + 1 ELSE board
  /\ lastLine' = IF d.todo \in {"same", "moved"} THEN board' ELSE lastLine
  /\ rejections' = Counted(d)
  /\ evidenceGate' = IF TodoMoved(d) THEN Down ELSE EvidenceAfterVerdicts(d)
  /\ todoGate' = IF TodoMoved(d) THEN Down ELSE TodoAfterVerdicts(d)
  /\ fuses' = [fuses EXCEPT !.stale = Stale(d), !.churn = Churn(d),
                            !.alerted = Stagnates(d) \/ (@ /\ Stale(d) > 0)]
  /\ budget' = [budget EXCEPT !.used = @ + calls.search, !.offered = @ \/ d.offers]
  /\ ending' = [ending EXCEPT
                  !.guess = @ \/ calls.factual,
                  !.submitted = @ \/ Fate(d, "accepted"),
                  !.answer = IF d.factual = "accepted" THEN "submit" ELSE @,
                  !.reason = IF Churn(d) >= ChurnTurns THEN "control_churn" ELSE @]
  /\ history' =
       LET pending == Fate(d, "pending")
           moved == IF pending THEN d.seen # board' ELSE history.pending /\ board' # board
       IN  [pending |-> (pending \/ history.pending) /\ ~moved,
            wanting |-> (d.needs \/ history.wanting) /\ ~d.found /\ ~moved,
            idle    |-> Failing(d) \/ (history.idle /\ ~d.found)]
  /\ UNCHANGED <<mode, turn, errors, forced>>

(***************************************************************************)
(* The end of a turn: the streak of suppressed submits, the fuses, the     *)
(* accepted submit, the error budget.                                      *)
(***************************************************************************)
Signature == Raised(IF todoGate.at # None THEN todoGate.at ELSE lastLine)
Stall ==
  LET again == IF did.factual = "suppressed" THEN 1 ELSE 0
  IN  IF fuses.mark = Signature THEN fuses.stall + again ELSE again
Marked ==
  IF todoGate.up THEN [fuses EXCEPT !.stall = Stall, !.mark = Signature]
                 ELSE [fuses EXCEPT !.stall = 0, !.mark = Down]
Churned == ending.reason = "control_churn"
Stalls == ~Churned /\ todoGate.up /\ Stall >= StallTurns

FuseStops ==
  /\ phase = "settling" /\ (Stalls \/ Churned)
  /\ Leave([ending EXCEPT !.reason = "control_churn"])

SubmitEnds ==
  /\ phase = "settling" /\ ~Stalls /\ ~Churned /\ ending.submitted
  /\ Leave([ending EXCEPT !.finish = "submitted",
              !.content = IF ending.answer = "submit" THEN "answer" ELSE "submitted"])

Charged ==
  IF did.faults > 0
  THEN [turns |-> errors.turns + did.faults, total |-> errors.total + did.faults,
        inRow |-> errors.inRow + did.faults]
  ELSE [errors EXCEPT !.turns = @ + 1, !.inRow = 0]
Exhausted ==
  \/ Charged.turns >= MaxAgentTurns
  \/ Charged.total >= MaxErrors
  \/ did.fatal
  \/ Charged.inRow >= ErrorsPerModel

\* Mutant: the error budget is looked at before the accepted submit.
GoesOnUnread == phase = "settling" /\ ~Stalls /\ ~Churned
GoesOn == phase = "settling" /\ ~Stalls /\ ~Churned /\ ~ending.submitted
ErrorsEnd == GoesOn /\ Exhausted /\ Leave(ending)
TurnEnds ==
  /\ GoesOn /\ ~Exhausted
  /\ phase' = "top" /\ fuses' = Marked /\ errors' = Charged /\ did' = Nothing
  /\ UNCHANGED <<mode, turn, evidence, board, lastLine, evidenceGate, todoGate, rejections,
                 budget, calls, forced, ending, accepted, history>>

(***************************************************************************)
(* The forced final answer: attempts without tools until one has text, the *)
(* attempts are spent or the breaker opens.                                *)
(***************************************************************************)
Locals == <<mode, turn, evidence, board, lastLine, evidenceGate, todoGate, rejections, fuses,
            budget, errors, calls, did, accepted, history>>
ForcedOwed == ending.reason # "none" /\ ~ending.submitted

ForcedFails(class) ==
  /\ phase = "closing" /\ ForcedOwed
  /\ LET streak == IF class = forced.class THEN forced.streak + 1 ELSE 1
     IN  forced' = [attempts |-> forced.attempts + 1, class |-> class, streak |-> streak,
                    open |-> streak >= BreakerAt]
  /\ phase' = IF forced'.open \/ forced'.attempts = ForcedAttempts THEN "resolving"
              ELSE "closing"
  /\ ending' = [ending EXCEPT !.content = "error", !.finish = "error"]
  /\ UNCHANGED Locals

ForcedAnswers ==
  /\ phase = "closing" /\ ForcedOwed /\ phase' = "resolving"
  /\ forced' = [forced EXCEPT !.attempts = @ + 1, !.class = "none", !.streak = 0]
  /\ ending' = [ending EXCEPT !.content = "final", !.finish = "stop"]
  /\ UNCHANGED Locals

(***************************************************************************)
(* The completion: a forced answer may stand in for the submit.            *)
(***************************************************************************)
\* Mutant: any text counts, that of an error included.
HasFinalText == ending.content # ""
HasFinalContent == ending.finish # "error" /\ ending.content # ""
ForcedAccept ==
  /\ ending.reason # "none" /\ Owed
  /\ mode.accepts /\ (HasFinalContent \/ ending.guess)

Resolve ==
  /\ phase = "resolving" \/ (phase = "closing" /\ ~ForcedOwed)
  /\ phase' = "over"
  /\ ending' = [ending EXCEPT
                  !.submitted = @ \/ ForcedAccept,
                  !.forced = ForcedAccept,
                  !.answer = IF ForcedAccept
                             THEN IF ending.guess THEN "guess" ELSE ending.content
                             ELSE @]
  /\ UNCHANGED <<Locals, forced>>

\* submit_completion_mode, required_submit_missing and run_completed of the summary.
Grounded == ending.submitted /\ ~ending.forced
Missing == mode.submits /\ ~ending.submitted
RunCompleted == ~Missing /\ (ending.submitted \/ ending.finish # "error")

Next ==
  \/ StartTurn \/ GraceTurn \/ RepairTurn \/ BudgetEnds \/ TurnsEnd
  \/ CallFails \/ TextNudged \/ PlainText \/ AskForTools
  \/ \E d \in Outcomes : RunTools(d) \/ StagnationFuse(d)
  \/ FuseStops \/ SubmitEnds \/ ErrorsEnd \/ TurnEnds
  \/ \E class \in {"raised", "tools", "empty"} : ForcedFails(class)
  \/ ForcedAnswers \/ Resolve

Spec == Init /\ [][Next]_vars

-----------------------------------------------------------------------------
(***************************************************************************)
(* Properties.                                                             *)
(***************************************************************************)
\* A factual submit the validator refused for pending atoms is run again only after
\* the TODO board has changed, and one it refused for want of evidence only after new
\* evidence came in or the board changed (mcp_turn_tools.py suppresses it until then).
SubmitNeedsProgress ==
  [][phase = "running" /\ mode.suppresses /\ mode.lines /\ did'.factual \in Verdicts =>
       ~history.pending /\ ~history.wanting]_vars

\* The other direction, the gates do not lock the agent out: a submit is suppressed only
\* while no evidence was added since the last failing submit, or the board is the one the
\* last pending-atoms rejection saw.
SuppressedOnlyWithoutProgress ==
  [][phase = "running" /\ mode.lines /\ did'.factual = "suppressed" =>
       history.idle \/ history.pending]_vars

\* An answer the validator accepted is the final answer of the run, unless a fuse trips in
\* the turn that accepted it; the run is reported as not submitted only if that fuse is the
\* stagnation one, which leaves before the verdicts of the turn are read.
AcceptedSubmitKept ==
  phase = "over" /\ accepted =>
    /\ ending.finish = "submitted" \/ ending.reason \in {"retrieval_stagnation", "control_churn"}
    /\ Grounded \/ ending.reason = "retrieval_stagnation"

\* What the completion says is what happened: a grounded submit was accepted by the
\* validator, a required submit counts as made only if it was accepted or the caller lets
\* a forced answer stand in, and the text of an error is never that answer.
HonestCompletion ==
  phase = "over" =>
    /\ Grounded => accepted
    /\ mode.submits /\ RunCompleted => accepted \/ (ending.forced /\ mode.accepts)
    /\ ending.forced => ending.answer \in {"guess", "text", "final"}

=============================================================================
