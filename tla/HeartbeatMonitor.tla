--------------------------- MODULE HeartbeatMonitor ---------------------------
(***************************************************************************)
(* The liveness monitor beside one call (_SyncLLMCallHeartbeatMonitor and  *)
(* _AsyncLLMCallHeartbeatMonitor of llm_client/execution/call_lifecycle.py)*)
(* and the lifecycle events it and its call write.                         *)
(*                                                                         *)
(* Times are relative: how long until something is due, or how long the    *)
(* call has been idle, cut off where no test can tell the difference.      *)
(***************************************************************************)
EXTENDS Naturals, FiniteSets, FiniteSetsExt

CONSTANTS Interval,    \* heartbeat intervals a caller may choose, 0 is off
          Threshold,   \* stall thresholds a caller may choose, 0 is off
          MaxLost      \* bound on the event writes the store refuses

ASSUME MonitorAssumption ==
  /\ Interval \subseteq Nat /\ Threshold \subseteq Nat
  /\ MaxLost \in Nat

VARIABLES async,       \* the monitor is a task, not a thread
          beat,        \* heartbeat_interval_s
          stall,       \* stall_after_s
          monitor,     \* where _run stands
          stopping,    \* _stop_event
          wakeIn,      \* how long the wait of _run goes on
          beatIn,      \* how long until next_heartbeat
          idle,        \* time since the last progress, at most stall
          progressed,  \* a unit of progress was marked
          due,         \* what the snapshot of _run says of the threshold
          marked,      \* _stalled_emitted
          stalls,      \* history: stalled events since the last progress
          terminal,    \* the terminal event of the call
          late,        \* history: phases written after the terminal event
          lost         \* history: event writes that were refused

settings == <<async, beat, stall>>
timers   == <<wakeIn, beatIn, idle>>
marks    == <<progressed, due, marked, stalls>>
record   == <<terminal, late, lost>>
monitorVars == <<settings, monitor, stopping, timers, marks, record>>

Working == {"looping", "beating", "judging", "stalling", "marking"}

MonitorInit ==
  /\ async \in BOOLEAN /\ beat \in Interval /\ stall \in Threshold
  /\ monitor = "off" /\ stopping = FALSE
  /\ wakeIn = 0 /\ beatIn = beat /\ idle = 0
  /\ progressed = FALSE /\ due = FALSE /\ marked = FALSE /\ stalls = 0
  /\ terminal = "none" /\ late = {} /\ lost = 0

-----------------------------------------------------------------------------
(* Lifecycle events: _emit_llm_call_lifecycle_event *)

Written(phase) ==
  /\ late' = IF terminal = "none" THEN late ELSE late \cup {phase}
  /\ UNCHANGED <<terminal, lost>>

Refused == lost < MaxLost /\ lost' = lost + 1 /\ UNCHANGED <<terminal, late>>

-----------------------------------------------------------------------------
(* What the call does with its monitor *)

Start ==
  /\ monitor' = IF beat = 0 /\ stall = 0 THEN "off" ELSE "looping"
  /\ UNCHANGED <<settings, stopping, timers, marks>>

\* Mutant: progress does not end the idle period that was reported.
ProgressKeepsMark ==
  /\ progressed' = TRUE /\ stalls' = 0
  /\ idle' = 0
  /\ UNCHANGED <<settings, monitor, stopping, wakeIn, beatIn, due, marked>>

\* mark_progress, under its lock.
Progress ==
  /\ progressed' = TRUE /\ marked' = FALSE /\ stalls' = 0
  /\ idle' = 0
  /\ UNCHANGED <<settings, monitor, stopping, wakeIn, beatIn, due>>

\* The progress event, written outside the lock and not for every unit.
ReportProgress(raises) ==
  \/ ~raises /\ Written("progress")
  \/ ~raises /\ progressed /\ beat > 0 /\ UNCHANGED record
  \/ raises /\ Refused

RequestStop == stopping' = (monitor # "off") /\ UNCHANGED <<settings, monitor, timers, marks>>

Stopped == monitor \in {"off", "gone"}

-----------------------------------------------------------------------------
(* The loop: _run *)

Pending == stall > 0 /\ ~marked

Waits == (IF beat > 0 THEN {beatIn} ELSE {}) \cup (IF Pending THEN {stall - idle} ELSE {})

\* Nothing left to wait for ends the loop for good.
Loop ==
  /\ monitor = "looping"
  /\ IF Waits = {} THEN monitor' = "gone" /\ UNCHANGED wakeIn
     ELSE monitor' = "waiting" /\ wakeIn' = Min(Waits)
  /\ UNCHANGED <<settings, stopping, beatIn, idle, marks, record>>

\* Mutant: the wait does not watch the stop event.
WaitStoppedLate ==
  /\ monitor = "waiting" /\ stopping /\ beat = 0 /\ wakeIn = 0
  /\ monitor' = "gone"
  /\ UNCHANGED <<settings, stopping, timers, marks, record>>

WaitStopped ==
  /\ monitor = "waiting" /\ stopping
  /\ monitor' = "gone"
  /\ UNCHANGED <<settings, stopping, timers, marks, record>>

\* The wait times out and the snapshot is taken.  The next heartbeat is the first instant of the grid
\* that has not passed.
Wake ==
  /\ monitor = "waiting" /\ wakeIn = 0 /\ ~stopping
  /\ due' = (stall > 0 /\ idle >= stall)
  /\ IF beat > 0 /\ beatIn = 0
     THEN monitor' = "beating" /\ beatIn' \in 1 .. beat
     ELSE monitor' = "judging" /\ UNCHANGED beatIn
  /\ UNCHANGED <<settings, stopping, wakeIn, idle, progressed, marked, stalls, record>>

\* A refused write ends the thread or task without a word.
Beat ==
  /\ monitor = "beating"
  /\ \/ Written("heartbeat") /\ monitor' = "judging"
     \/ Refused /\ monitor' = "gone"
  /\ UNCHANGED <<settings, stopping, timers, marks>>

\* _should_emit_stalled: the snapshot is old, the mark is not.
Judge ==
  /\ monitor = "judging"
  /\ monitor' = IF due /\ ~marked THEN "stalling" ELSE "looping"
  /\ UNCHANGED <<settings, stopping, timers, marks, record>>

ReportStall ==
  /\ monitor = "stalling"
  /\ \/ Written("stalled") /\ monitor' = "marking" /\ stalls' = stalls + 1
     \/ Refused /\ monitor' = "gone" /\ UNCHANGED stalls
  /\ UNCHANGED <<settings, stopping, timers, progressed, due, marked>>

MarkStall ==
  /\ monitor = "marking"
  /\ marked' = TRUE
  /\ monitor' = "looping"
  /\ UNCHANGED <<settings, stopping, timers, progressed, due, stalls, record>>

MonitorStep ==
  Loop \/ WaitStopped \/ Wake \/ Beat \/ Judge \/ ReportStall \/ MarkStall

Down(t) == IF t = 0 THEN 0 ELSE t - 1

Elapse ==
  /\ wakeIn' = Down(wakeIn) /\ beatIn' = Down(beatIn)
  /\ idle' = IF idle < stall THEN idle + 1 ELSE idle
  /\ UNCHANGED <<settings, monitor, stopping, marks, record>>

=============================================================================
