----------------------------- MODULE StreamCustody -----------------------------
(***************************************************************************)
(* One streamed call (stream_llm, astream_llm): opening the stream, the    *)
(* adapter of llm_client/execution/stream_runtime.py that the caller reads *)
(* chunk by chunk, the stream of llm_client/execution/streaming.py inside  *)
(* it, and the lease that must be given back when the reading ends.        *)
(***************************************************************************)
EXTENDS HeartbeatMonitor

CONSTANTS MaxRows,     \* bound on the rows of one stream
          Fault        \* the faults that may happen

Faults == {"plan", "hook", "ledger", "interrupt", "slow"}

ASSUME StreamAssumption == MaxRows \in Nat /\ Fault \subseteq Faults

VARIABLES at,          \* where the call or its adapter stands
          opened,      \* the caller has an adapter
          finalized,   \* _finalized
          failing,     \* _finalize was given an error
          exhausted,   \* the provider's stream came to its end
          rows,        \* llm_calls rows the inner stream wrote
          lease,       \* the budget lease of the call
          again,       \* history: the caller read on after the end
          slow,        \* history: stop() gave up waiting for the thread
          harmed       \* history: something raised before custody was given back

stream  == <<opened, finalized, failing, exhausted, rows>>
history == <<again, slow, harmed>>
vars == <<monitorVars, at, stream, lease, history>>

Init ==
  /\ MonitorInit
  /\ at = "new" /\ lease = "none"
  /\ opened = FALSE /\ finalized = FALSE /\ failing = FALSE
  /\ exhausted = FALSE /\ rows = 0
  /\ again = FALSE /\ slow = FALSE /\ harmed = FALSE

\* A task and its monitor take turns at the points where they await.
Turn == async => monitor \notin Working

MonitorTurn == async => at \in {"opening", "open", "joining", "failed", "dropped"}

\* The call goes from one point to another.
Goes(from, to) == Turn /\ at = from /\ at' = to

\* Control leaves with the lease unaccounted for.
Drops(from) == Goes(from, "dropped") /\ harmed' = TRUE /\ UNCHANGED <<again, slow>>

-----------------------------------------------------------------------------
(* Opening: stream_llm_impl and astream_llm_impl *)

Acquire ==
  /\ Goes("new", "planning")
  /\ lease' = "held"
  /\ UNCHANGED <<monitorVars, stream, history>>

\* The steps between custody and the try block: settings, plan, route policy.
Plan ==
  /\ \/ Goes("planning", "starting") /\ UNCHANGED history
     \/ "plan" \in Fault /\ Drops("planning")
  /\ UNCHANGED <<monitorVars, stream, lease>>

Begin ==
  /\ \/ Goes("starting", "opening") /\ Start /\ UNCHANGED <<record, history>>
     \/ /\ Drops("starting") /\ Refused
        /\ UNCHANGED <<settings, monitor, stopping, timers, marks>>
  /\ UNCHANGED <<stream, lease>>

\* The retry kernel ends with a stream, an error, or a cancellation, which the
\* handler of errors does not catch.
Open ==
  /\ \/ Goes("opening", "open") /\ opened' = TRUE /\ UNCHANGED history
     \/ Goes("opening", "refused") /\ UNCHANGED <<opened, history>>
     \/ "interrupt" \in Fault /\ Drops("opening") /\ UNCHANGED opened
  /\ UNCHANGED <<monitorVars, finalized, failing, exhausted, rows, lease>>

\* The handler: the terminal event, then the lease; the monitor goes on.
RecordRefusal ==
  /\ \/ Goes("refused", "releasing") /\ terminal' = "failed"
        /\ UNCHANGED <<late, lost, history>>
     \/ Drops("refused") /\ Refused
  /\ UNCHANGED <<settings, monitor, stopping, timers, marks, stream, lease>>

\* The release raises: the lease is no longer tracked and will expire.
Untracked == "ledger" \in Fault /\ lease' = "lost"

ReleaseRefused ==
  /\ Goes("releasing", "failed")
  /\ lease' = "released" \/ Untracked
  /\ UNCHANGED <<monitorVars, stream, history>>

-----------------------------------------------------------------------------
(* Reading: __next__ and __anext__ *)

\* Mutant: it runs again.
MayFinalizeAgain == TRUE

\* _finalize returns at once when it has run before.
MayFinalize == ~finalized

Finalize(error) ==
  /\ Turn /\ at = "open"
  /\ IF MayFinalize
     THEN at' = "stopping" /\ finalized' = TRUE /\ failing' = error
     ELSE UNCHANGED <<at, finalized, failing>>

Reads == again' = (again \/ finalized) /\ UNCHANGED <<slow, harmed>>

\* A chunk is marked as progress; when that raises, the stream stays open.
ReadChunk ==
  /\ Goes("open", "open")
  /\ ~exhausted
  /\ Progress
  /\ \E raises \in BOOLEAN : ReportProgress(raises)
  /\ Reads
  /\ UNCHANGED <<stream, lease>>

\* The provider's stream ends, now or long ago: the inner stream builds its
\* result, calls after_call and writes its row, each time.
ReadEnd ==
  /\ exhausted' = TRUE
  /\ \/ rows < MaxRows /\ rows' = rows + 1 /\ Finalize(FALSE)
     \/ "hook" \in Fault /\ UNCHANGED rows /\ Finalize(TRUE)
  /\ Reads
  /\ UNCHANGED <<monitorVars, opened, lease>>

ReadError ==
  /\ Finalize(TRUE)
  /\ Reads
  /\ UNCHANGED <<monitorVars, opened, exhausted, rows, lease>>

\* close() and aclose(); the error of the inner close does not change it.
Close ==
  /\ Finalize(TRUE)
  /\ UNCHANGED <<monitorVars, opened, exhausted, rows, lease, history>>

-----------------------------------------------------------------------------
(* Finalizing: _finalize *)

StopMonitor ==
  /\ Goes("stopping", "joining")
  /\ RequestStop
  /\ UNCHANGED <<record, stream, lease, history>>

\* Mutant: a task is not awaited.
JoinedAtOnce == TRUE

Joined == Stopped

Join ==
  /\ Goes("joining", "writing")
  /\ Joined
  /\ UNCHANGED <<monitorVars, stream, lease, history>>

\* join() waits a second; a thread in the middle of a write may need longer.
JoinTimesOut ==
  /\ "slow" \in Fault
  /\ ~async /\ monitor \in {"beating", "stalling"}
  /\ Goes("joining", "writing")
  /\ slow' = TRUE
  /\ UNCHANGED <<monitorVars, stream, lease, again, harmed>>

\* A cancellation ends the awaited task too; a thread only loses its waiter.
InterruptJoin ==
  /\ "interrupt" \in Fault
  /\ Goes("joining", "open")
  /\ harmed' = TRUE
  /\ monitor' = IF async /\ monitor # "off" THEN "gone" ELSE monitor
  /\ UNCHANGED <<settings, stopping, timers, marks, record, stream, lease, again, slow>>

\* _emit_stream_terminal_event: a completion that cannot be written is
\* recorded as a failure; a failure that cannot be written raises.
RecordEnd ==
  /\ \/ /\ Goes("writing", "giving")
        /\ terminal' = IF failing THEN "failed" ELSE "completed"
        /\ UNCHANGED <<late, lost, history>>
     \/ /\ Goes("writing", "giving")
        /\ ~failing /\ lost < MaxLost
        /\ lost' = lost + 1 /\ terminal' = "failed"
        /\ UNCHANGED <<late, history>>
     \/ /\ Goes("writing", "open")
        /\ lost + (IF failing THEN 1 ELSE 2) <= MaxLost
        /\ lost' = lost + (IF failing THEN 1 ELSE 2)
        /\ harmed' = TRUE
        /\ UNCHANGED <<terminal, late, again, slow>>
  /\ UNCHANGED <<settings, monitor, stopping, timers, marks, stream, lease>>

\* The lease is settled with the result's cost or released.
GiveBack ==
  /\ Goes("giving", "open")
  /\ lease' = (IF failing THEN "released" ELSE "settled") \/ Untracked
  /\ UNCHANGED <<monitorVars, stream, history>>

-----------------------------------------------------------------------------

Caller ==
  \/ Acquire \/ Open \/ ReadChunk \/ ReadEnd \/ ReadError \/ Close \/ InterruptJoin

Runtime ==
  \/ Plan \/ Begin \/ RecordRefusal \/ ReleaseRefused
  \/ StopMonitor \/ Join \/ JoinTimesOut \/ RecordEnd \/ GiveBack

Monitor == MonitorTurn /\ MonitorStep /\ UNCHANGED <<at, stream, lease, history>>

Tick == at \notin {"new", "planning"} /\ Elapse /\ UNCHANGED <<at, stream, lease, history>>

Next == Caller \/ Runtime \/ Monitor \/ Tick

Spec == Init /\ [][Next]_vars

\* What was begun goes on, the monitor runs and time passes; the caller need
\* not read or close.
FairSpec == Spec /\ WF_vars(Runtime) /\ WF_vars(Monitor) /\ WF_vars(Tick)

-----------------------------------------------------------------------------
(* Properties *)

\* The lease and the record of the stream tell one story: it is settled only
\* for a stream that was read to its end and has its row, it is released only
\* with a failure on record, and a completion on record never goes with a
\* release.  Only a completion the store refused is settled as a failure.
CustodyMatchesEvent ==
  /\ lease = "settled" =>
       /\ exhausted /\ rows > 0
       /\ terminal = "completed" \/ (terminal = "failed" /\ lost > 0)
  /\ lease = "released" => terminal = "failed"
  /\ terminal = "completed" => exhausted /\ lease # "released"

\* After the terminal event of a stream that was opened its monitor is silent,
\* unless a write of the thread outlasted the wait for it; and progress is only
\* reported when the caller reads on after the end.
QuietAfterEnd ==
  opened /\ ~slow => late \subseteq {"progress"} /\ (late # {} => again)

\* A stream that is read to its end, fails or is closed gives back its lease,
\* once, unless something raises on the way.
GivesBack == finalized /\ lease = "held" ~> lease # "held" \/ harmed

\* A task that watches an idle stream reports it, once in every idle period,
\* whatever else it does: until then it only ends when it is stopped, when the
\* store refused an event, or, without heartbeats, after an earlier report.
StallReported ==
  (async /\ monitor \notin {"off", "gone"} /\ stall > 0 /\ idle = stall)
    ~> (stalls = 1 \/ idle < stall \/ stopping \/ lost > 0 \/ (beat = 0 /\ monitor = "gone"))
=============================================================================
