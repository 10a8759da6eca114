-------------------------- MODULE StreamCustodyProofs --------------------------
(***************************************************************************)
(* For every choice of intervals, bounds and faults: the lease and the     *)
(* record of a streamed call tell one story, and its monitor is silent     *)
(* after the end of an opened stream unless the wait for it timed out.     *)
(***************************************************************************)
EXTENDS StreamCustody, TLAPS

Opening   == {"new", "planning", "starting", "opening", "refused", "dropped"}
Declining == {"releasing", "failed"}
Reading   == {"open", "stopping", "joining", "writing", "giving"}

Points    == {"new", "planning", "starting", "opening", "refused", "dropped", "releasing",
              "failed", "open", "stopping", "joining", "writing", "giving"}

Flags ==
  /\ opened \in BOOLEAN /\ finalized \in BOOLEAN /\ failing \in BOOLEAN
  /\ exhausted \in BOOLEAN /\ again \in BOOLEAN /\ slow \in BOOLEAN

\* The part of the state that custody and the record are about.
TypeOK ==
  /\ at \in Points
  /\ Flags
  /\ rows \in Nat /\ lost \in Nat
  /\ lease \in {"none", "held", "settled", "released", "lost"}
  /\ terminal \in {"none", "completed", "failed"}

-----------------------------------------------------------------------------
(* Custody *)

\* A stream that ends well was read to its end and has its row.
EndsWell == ~failing => exhausted /\ rows > 0

\* The event on record is the one of the ending.
EventTells ==
  IF failing THEN terminal = "failed"
  ELSE terminal = "completed" \/ (terminal = "failed" /\ lost > 0)

\* Until the stream is finalized nothing is on record and the lease is held;
\* then the ending is decided, put on record, and paid for, in this order.
Custody ==
  /\ at \in Opening =>
       terminal = "none" /\ ~finalized /\ lease = (IF at = "new" THEN "none" ELSE "held")
  /\ at \in Declining => terminal = "failed" /\ lease # "settled" /\ ~finalized
  /\ at \in Reading /\ ~finalized => at = "open" /\ terminal = "none" /\ lease = "held"
  /\ at \in {"stopping", "joining", "writing"} => terminal = "none" /\ lease = "held"
  /\ at = "giving" => lease = "held" /\ EventTells
  /\ finalized => EndsWell
  /\ terminal # "none" /\ finalized => EventTells
  /\ terminal = "none" => lease \in {"none", "held"}
  /\ lease = "settled" => finalized /\ ~failing
  /\ lease = "released" => terminal = "failed" /\ (finalized => failing)

-----------------------------------------------------------------------------
(* Silence *)

\* An opened stream has its terminal event only after the monitor has stopped,
\* or the wait for it timed out; what comes after is what the caller reads on.
Silence ==
  /\ opened <=> at \in Reading
  /\ opened /\ ~slow /\ (at \in {"writing", "giving"} \/ terminal # "none") => Stopped
  /\ terminal = "none" => late = {}
  /\ QuietAfterEnd

-----------------------------------------------------------------------------
(* Steps *)

LEMMA StartsIdle ==
  Init => /\ at = "new" /\ lease = "none" /\ terminal = "none" /\ late = {}
          /\ ~opened /\ ~finalized /\ lost = 0
BY DEF Init, MonitorInit

LEMMA TypeInit == Init => TypeOK
<1> SUFFICES ASSUME Init PROVE TypeOK
  OBVIOUS
<1>1. Flags
  BY Zenon DEF Init, Flags
<1>2. rows = 0
  BY DEF Init
<1> QED
  BY <1>1, <1>2, StartsIdle DEF TypeOK, Points

\* The monitor and the clock touch nothing of the call.
LEMMA MonitorKeeps ==
  ASSUME TypeOK, Monitor \/ Tick
  PROVE  /\ UNCHANGED <<at, stream, lease, history, terminal>>
         /\ lost' \in Nat /\ lost <= lost'
         /\ late' # late => terminal # "none" /\ monitor \notin {"off", "gone"}
         /\ Stopped => Stopped'
<1>1. CASE Monitor
  BY <1>1 DEF Monitor, MonitorStep, Loop, WaitStopped, Wake, Beat, Judge, ReportStall, MarkStall,
              Written, Refused, record, TypeOK, Stopped
<1>2. CASE Tick
  BY <1>2 DEF Tick, Elapse, record, TypeOK, Stopped
<1> QED
  BY <1>1, <1>2

LEMMA FlagsStep == Flags /\ [Next]_vars => Flags'
<1> SUFFICES ASSUME Flags, [Next]_vars PROVE Flags'
  OBVIOUS
<1> USE DEF Flags, Goes, Drops, stream, history
<1>1. CASE Acquire \/ Plan \/ Begin \/ Open \/ RecordRefusal \/ ReleaseRefused
  BY <1>1, Zenon DEF Acquire, Plan, Begin, Open, RecordRefusal, ReleaseRefused
<1>2. CASE ReadChunk \/ ReadEnd \/ ReadError \/ Close
  BY <1>2, Zenon DEF ReadChunk, ReadEnd, ReadError, Close, Finalize, Reads
<1>3. CASE StopMonitor \/ Join \/ JoinTimesOut \/ InterruptJoin \/ RecordEnd \/ GiveBack
  BY <1>3, Zenon DEF StopMonitor, Join, JoinTimesOut, InterruptJoin, RecordEnd, GiveBack
<1>4. CASE Monitor \/ Tick
  BY <1>4, Zenon DEF Monitor, Tick
<1>5. CASE UNCHANGED vars
  BY <1>5, Zenon DEF vars
<1> QED
  BY <1>1, <1>2, <1>3, <1>4, <1>5 DEF Next, Caller, Runtime

LEMMA TypeStep == TypeOK /\ [Next]_vars => TypeOK'
<1> SUFFICES ASSUME TypeOK, [Next]_vars PROVE TypeOK'
  OBVIOUS
<1>0. Flags'
  BY FlagsStep DEF TypeOK
<1> USE <1>0 DEF TypeOK, Points, Goes, Drops, monitorVars, record, stream, history,
                 Refused, Written
<1>1. CASE Acquire \/ Plan
  BY <1>1 DEF Acquire, Plan
<1>2. CASE Begin
  BY <1>2 DEF Begin
<1>3. CASE Open
  BY <1>3 DEF Open
<1>4. CASE RecordRefusal
  BY <1>4 DEF RecordRefusal
<1>5. CASE ReleaseRefused \/ GiveBack
  BY <1>5 DEF ReleaseRefused, GiveBack, Untracked
<1>6. CASE ReadChunk
  BY <1>6 DEF ReadChunk, ReportProgress
<1>7. CASE ReadEnd
  <2>1. \A error \in BOOLEAN : Finalize(error) => at' \in Points
    BY DEF Finalize
  <2>2. at' \in Points
    BY <1>7, <2>1 DEF ReadEnd
  <2>3. rows' = rows + 1 \/ rows' = rows
    BY <1>7, Zenon DEF ReadEnd
  <2>4. UNCHANGED <<lost, lease, terminal>>
    BY <1>7, Zenon DEF ReadEnd
  <2> QED
    BY <2>2, <2>3, <2>4
<1>8. CASE ReadError \/ Close
  BY <1>8 DEF ReadError, Close, Finalize
<1>9. CASE StopMonitor \/ Join \/ JoinTimesOut \/ InterruptJoin
  BY <1>9 DEF StopMonitor, Join, JoinTimesOut, InterruptJoin
<1>10. CASE RecordEnd
  BY <1>10 DEF RecordEnd
<1>11. CASE Monitor \/ Tick
  BY <1>11, MonitorKeeps
<1>12. CASE UNCHANGED vars
  BY <1>12 DEF vars
<1> QED
  BY <1>1, <1>2, <1>3, <1>4, <1>5, <1>6, <1>7, <1>8, <1>9, <1>10, <1>11, <1>12
  DEF Next, Caller, Runtime

LEMMA CustodyStep == TypeOK /\ Custody /\ [Next]_vars => Custody'
<1> SUFFICES ASSUME TypeOK, Custody, [Next]_vars PROVE Custody'
  OBVIOUS
<1> USE DEF TypeOK, Custody, EndsWell, EventTells, Points, Opening, Declining, Reading, Goes, Drops,
            monitorVars, record, stream, history, Refused, Written
<1>1. CASE Acquire \/ Plan
  BY <1>1 DEF Acquire, Plan
<1>2. CASE Begin
  BY <1>2 DEF Begin
<1>3. CASE Open
  BY <1>3 DEF Open
<1>4. CASE RecordRefusal
  BY <1>4 DEF RecordRefusal
<1>5. CASE ReleaseRefused \/ GiveBack
  BY <1>5 DEF ReleaseRefused, GiveBack, Untracked
<1>6. CASE ReadChunk
  BY <1>6 DEF ReadChunk, Progress, ReportProgress, Reads
<1>7. CASE ReadEnd
  BY <1>7 DEF ReadEnd, Finalize, MayFinalize, Reads
<1>8. CASE ReadError \/ Close
  BY <1>8 DEF ReadError, Close, Finalize, MayFinalize, Reads
<1>9. CASE StopMonitor \/ Join \/ JoinTimesOut \/ InterruptJoin
  BY <1>9 DEF StopMonitor, Join, JoinTimesOut, InterruptJoin
<1>10. CASE RecordEnd
  BY <1>10 DEF RecordEnd
<1>11. CASE Monitor \/ Tick
  BY <1>11, MonitorKeeps
<1>12. CASE UNCHANGED vars
  BY <1>12 DEF vars
<1> QED
  BY <1>1, <1>2, <1>3, <1>4, <1>5, <1>6, <1>7, <1>8, <1>9, <1>10, <1>11, <1>12
  DEF Next, Caller, Runtime

LEMMA SilenceStep == TypeOK /\ Custody /\ Silence /\ [Next]_vars => Silence'
<1> SUFFICES ASSUME TypeOK, Custody, Silence, [Next]_vars PROVE Silence'
  OBVIOUS
<1> USE DEF TypeOK, Custody, Silence, QuietAfterEnd, Stopped, Points, Opening, Declining, Reading, Goes,
            Drops, monitorVars, record, stream, history, Refused, Written
<1>1. CASE Acquire \/ Plan
  BY <1>1 DEF Acquire, Plan
<1>2. CASE Begin
  BY <1>2 DEF Begin, Start
<1>3. CASE Open
  BY <1>3 DEF Open
<1>4. CASE RecordRefusal
  BY <1>4 DEF RecordRefusal
<1>5. CASE ReleaseRefused \/ GiveBack
  BY <1>5 DEF ReleaseRefused, GiveBack
<1>6. CASE ReadChunk
  BY <1>6 DEF ReadChunk, Progress, ReportProgress, Reads
<1>7. CASE ReadEnd
  BY <1>7 DEF ReadEnd, Finalize, MayFinalize, Reads
<1>8. CASE ReadError \/ Close
  BY <1>8 DEF ReadError, Close, Finalize, MayFinalize, Reads
<1>9. CASE StopMonitor \/ Join \/ JoinTimesOut \/ InterruptJoin
  BY <1>9 DEF StopMonitor, RequestStop, Join, Joined, JoinTimesOut, InterruptJoin
<1>10. CASE RecordEnd
  BY <1>10 DEF RecordEnd
<1>11. CASE Monitor \/ Tick
  BY <1>11, MonitorKeeps
<1>12. CASE UNCHANGED vars
  BY <1>12 DEF vars
<1> QED
  BY <1>1, <1>2, <1>3, <1>4, <1>5, <1>6, <1>7, <1>8, <1>9, <1>10, <1>11, <1>12
  DEF Next, Caller, Runtime

-----------------------------------------------------------------------------
(* Results *)

LEMMA StreamInvariant == Spec => [](TypeOK /\ Custody /\ Silence)
<1>1. Init => Custody
  BY StartsIdle DEF Custody, EndsWell, Opening, Declining, Reading
<1>2. Init => Silence
  BY StartsIdle DEF Silence, QuietAfterEnd, Reading
<1> QED
  BY <1>1, <1>2, TypeInit, TypeStep, CustodyStep, SilenceStep, PTL DEF Spec

\* The lease is settled only for a stream read to its end, released only with a failure
\* on record, and a completion on record never goes with a release.
THEOREM StreamCustodyMatchesEvent == Spec => []CustodyMatchesEvent
<1>1. TypeOK /\ Custody => CustodyMatchesEvent
  BY DEF TypeOK, Custody, EndsWell, EventTells, CustodyMatchesEvent, Points, Opening, Declining, Reading
<1> QED
  BY <1>1, StreamInvariant, PTL

\* After the terminal event of an opened stream its monitor writes nothing.
THEOREM StreamQuietAfterEnd == Spec => []QuietAfterEnd
<1>1. Silence => QuietAfterEnd
  BY DEF Silence
<1> QED
  BY <1>1, StreamInvariant, PTL
=============================================================================
