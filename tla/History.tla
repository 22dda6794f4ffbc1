------------------------------- MODULE History ------------------------------
(***************************************************************************)
(* The history of the last days: HistoryBuffer (core/history_buffer.cpp),  *)
(* appendHistory on Core 1 (main.cpp:806-828) and the event flags the mail *)
(* task and setup() accumulate for the next record (main.cpp:99-101,       *)
(* 501-506, 1046, 1150).                                                   *)
(*                                                                         *)
(* appendHistory copies the snapshot in one critical section, reads the    *)
(* averages without one, and appends in another: an action each side.      *)
(***************************************************************************)
EXTENDS Integers, Sequences

CONSTANTS
    Depth,       \* HistoryBuffer::kCapacity, 1008
    Temps,       \* averages
    NoTemp,      \* kTempInvalid
    AlarmFlags,  \* kFire, kSensorOpen, kDiffExceeded
    MailFlags    \* kEmailSent, kEmailFailed

\* Flags of a record that its state decides, and those that report events.
StateFlags == AlarmFlags \cup {"InnerInvalid", "OuterInvalid"}
EventFlags == MailFlags \cup {"BrownoutRecover"}

ASSUME HistoryAssumption ==
    /\ Depth \in Nat \ {0}
    /\ NoTemp \notin Temps
    /\ AlarmFlags \subseteq {"Fire", "SensorOpen", "DiffExceeded"}
    /\ MailFlags \subseteq {"EmailSent", "EmailFailed"}

VARIABLES
    avg,          \* g_innerAvg.average(), g_outerAvg.average()
    snapshot,     \* g_snapshot: averages and alarms
    windowFlags,  \* g_windowFlags
    buf, head, count,  \* g_history
    recorder      \* appendHistory: program counter and its snapshot s

ring == <<buf, head, count>>
vars == <<avg, snapshot, windowFlags, ring, recorder>>

-----------------------------------------------------------------------------

Average  == Temps \cup {NoTemp}
Snapshot == [inner : Average, outer : Average, alarms : SUBSET AlarmFlags]
HistoryRecord == [inner : Average, outer : Average,
                  flags : SUBSET (StateFlags \cup EventFlags)]

kEmpty     == [inner |-> NoTemp, outer |-> NoTemp, flags |-> {}]
NoSnapshot == [inner |-> NoTemp, outer |-> NoTemp, alarms |-> {}]
AtRest     == [pc |-> "idle", s |-> NoSnapshot]

TypeOK ==
    /\ avg \in [inner : Average, outer : Average]
    /\ snapshot \in Snapshot
    /\ windowFlags \subseteq EventFlags
    /\ buf \in [0 .. Depth - 1 -> HistoryRecord]
    /\ head \in 0 .. Depth - 1
    /\ count \in 0 .. Depth
    /\ recorder \in [pc : {"idle", "append"}, s : Snapshot]

\* Mutant of At: indexes from the newest.
AtFromNewest(idx) ==
    IF idx >= count THEN kEmpty ELSE buf[(head + Depth - 1 - idx) % Depth]

\* HistoryBuffer::at
At(idx) ==
    IF idx >= count THEN kEmpty ELSE buf[(head + Depth - count + idx) % Depth]

\* What /api/history serialises: at(0) .. at(count - 1) of a copy made under
\* the lock.
Contents == [i \in 1 .. count |-> At(i - 1)]

\* After a brownout setup() reports it before any task runs.
Init ==
    /\ avg = [inner |-> NoTemp, outer |-> NoTemp]
    /\ snapshot = NoSnapshot
    /\ windowFlags \in {{}, {"BrownoutRecover"}}
    /\ buf = [i \in 0 .. Depth - 1 |-> kEmpty]
    /\ head = 0 /\ count = 0
    /\ recorder = AtRest

\* measurementCycle, on the same task as appendHistory: new averages, and the
\* snapshot that shows them.
MeasurementCycle ==
    /\ recorder.pc = "idle"
    /\ \E in, out \in Average, alarms \in SUBSET AlarmFlags :
        /\ avg' = [inner |-> in, outer |-> out]
        /\ snapshot' = [inner |-> in, outer |-> out, alarms |-> alarms]
    /\ UNCHANGED <<windowFlags, ring, recorder>>

\* addWindowFlags
AddWindowFlags(f) ==
    /\ windowFlags' = windowFlags \cup {f}
    /\ UNCHANGED <<avg, snapshot, ring, recorder>>

\* appendHistory: s = snapshotCopy() ...
AppendCopies ==
    /\ recorder.pc = "idle"
    /\ recorder' = [pc |-> "append", s |-> snapshot]
    /\ UNCHANGED <<avg, snapshot, windowFlags, ring>>

\* Mutant of FlagsOf: the sensors are swapped.
FlagsSwapped(s) ==
    s.alarms \cup (IF s.outer = NoTemp THEN {"InnerInvalid"} ELSE {})
             \cup (IF s.inner = NoTemp THEN {"OuterInvalid"} ELSE {})

\* ... the flags that follow from it ...
FlagsOf(s) ==
    s.alarms \cup (IF s.inner = NoTemp THEN {"InnerInvalid"} ELSE {})
             \cup (IF s.outer = NoTemp THEN {"OuterInvalid"} ELSE {})

\* ... and the critical section, with HistoryBuffer::append.
AppendRecords ==
    /\ recorder.pc = "append"
    /\ buf' = [buf EXCEPT ![head] =
                  [inner |-> avg.inner, outer |-> avg.outer,
                   flags |-> FlagsOf(recorder.s) \cup windowFlags]]
    /\ head' = (head + 1) % Depth
    /\ count' = IF count < Depth THEN count + 1 ELSE count
    /\ windowFlags' = {}
    /\ recorder' = AtRest
    /\ UNCHANGED <<avg, snapshot>>

Next ==
    \/ MeasurementCycle
    \/ \E f \in MailFlags : AddWindowFlags(f)
    \/ AppendCopies \/ AppendRecords

Spec == Init /\ [][Next]_vars

-----------------------------------------------------------------------------
(* Properties *)

\* history_buffer.h:17-19 and main.cpp:824-825: the ring shows the most recent
\* records, oldest first, before and after it has wrapped; and an event the
\* mail task reports at any moment is in the next record and in no other.
Keeps == INSTANCE HistoryContract WITH
            items <- Contents, events <- windowFlags,
            Averages <- Average, Alarms <- StateFlags, Events <- EventFlags

HistoryIsKept == Keeps!Spec

\* main.cpp:815-822: a record takes its flags from the snapshot and its
\* temperatures from the averages; still the two agree on what was invalid, so
\* that the web page neither draws a missing point nor hides a real one.
FlagsMatchTemperatures ==
    \A i \in 1 .. count :
        /\ "InnerInvalid" \in Contents[i].flags <=> Contents[i].inner = NoTemp
        /\ "OuterInvalid" \in Contents[i].flags <=> Contents[i].outer = NoTemp
=============================================================================
