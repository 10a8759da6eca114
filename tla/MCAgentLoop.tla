---------------------------- MODULE MCAgentLoop ----------------------------
(* An instance of AgentLoop.  Submits are always offered; without them only the  *)
(* budgets remain.                                                               *)
EXTENDS AgentLoop

Setting(suppresses, accepts, forces, lines) ==
  [submits |-> TRUE, suppresses |-> suppresses, accepts |-> accepts,
   forces |-> forces, lines |-> lines]

\* The default settings; and a run that suppresses submits, lets a forced answer stand in
\* and only observes stagnation.
SmallModes ==
  {Setting(FALSE, FALSE, TRUE, TRUE), Setting(TRUE, TRUE, FALSE, TRUE)}

\* Each kind of call alone, and the pairs that meet in a turn: a submit after new
\* evidence, after a TODO change, and two submits.
Turns ==
  LET With(search, todo, factual, terminal) ==
        [search |-> search, todo |-> todo, factual |-> factual, terminal |-> terminal]
  IN  {With(1, FALSE, FALSE, FALSE), With(2, FALSE, FALSE, FALSE), With(0, TRUE, FALSE, FALSE),
       With(0, FALSE, TRUE, FALSE), With(0, FALSE, FALSE, TRUE), With(0, TRUE, TRUE, FALSE),
       With(1, FALSE, TRUE, FALSE), With(0, FALSE, TRUE, TRUE)}
=============================================================================
