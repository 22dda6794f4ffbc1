------------------------------ MODULE EventLog ------------------------------
(***************************************************************************)
(* The event log (core/event_log.cpp): a ring of the most recent entries.  *)
(* logLine (main.cpp:153-158) appends from five tasks on two cores without *)
(* a lock, so appends interleave at every access to the shared fields.     *)
(*                                                                         *)
(* An entry is two stores: what names its origin (time, level, module) and *)
(* its text, so that an entry mixed from two appends is visible.           *)
(***************************************************************************)
EXTENDS Integers, Sequences

CONSTANTS
    Tasks,     \* the tasks that call logLine
    Messages,  \* what they log
    Capacity   \* cfg::log::kEventLogCapacity, 32

ASSUME LogAssumption == Capacity \in Nat \ {0}

VARIABLES
    logBuf, logHead, logCount,  \* g_log
    task,    \* per task: program counter and the locals of append
    raced,   \* history: appends in progress have overlapped
    since    \* history: the latest messages appended since the last overlap

shared  == <<logBuf, logHead, logCount>>
logVars == <<shared, task, raced, since>>

-----------------------------------------------------------------------------

Slots    == 0 .. Capacity - 1
NoMsg    == "none"
LogEntry == [origin : Messages \cup {NoMsg}, message : Messages \cup {NoMsg}]

kEmptyEntry == [origin |-> NoMsg, message |-> NoMsg]
TaskAtRest  == [pc |-> "idle", msg |-> NoMsg, slot |-> 0, n |-> 0]

\* Whoever reads or writes the log, however the appends have interleaved, stays
\* within the buffer: the indexes have no check of their own
\* (event_log.cpp:13, 20-24, 31-33).
LogTypeOK ==
    /\ logBuf \in [Slots -> LogEntry]
    /\ logHead \in Slots
    /\ logCount \in 0 .. Capacity
    /\ task \in [Tasks -> [pc : {"idle", "origin", "message", "head", "next",
                                 "count", "more"},
                           msg : Messages \cup {NoMsg}, slot : Slots,
                           n : 0 .. Capacity]]
    /\ raced \in BOOLEAN
    /\ since \in Seq(Messages) /\ Len(since) <= Capacity

LogInit ==
    /\ logBuf = [s \in Slots |-> kEmptyEntry]
    /\ logHead = 0 /\ logCount = 0
    /\ task = [t \in Tasks |-> TaskAtRest]
    /\ raced = FALSE /\ since = <<>>

Busy(t)    == task[t].pc # "idle"
Others(t)  == {u \in Tasks \ {t} : Busy(u)}
Latest(s)  == IF Len(s) > Capacity THEN Tail(s) ELSE s

\* EventLog::at; the sum is not negative because count <= Capacity.
LogAt(idx) ==
    IF idx >= logCount THEN kEmptyEntry
    ELSE logBuf[(logHead + Capacity - logCount + idx) % Capacity]

-----------------------------------------------------------------------------
(* EventLog::append, access by access.                                     *)

\* LogEntry& e = buf_[head_]
TakeSlot(t) ==
    /\ ~Busy(t)
    /\ \E m \in Messages :
        task' = [task EXCEPT ![t] = [pc |-> "origin", msg |-> m,
                                     slot |-> logHead, n |-> 0]]
    /\ raced' = (raced \/ Others(t) # {})
    /\ UNCHANGED <<shared, since>>

StoreOrigin(t) ==
    /\ task[t].pc = "origin"
    /\ logBuf' = [logBuf EXCEPT ![task[t].slot].origin = task[t].msg]
    /\ task' = [task EXCEPT ![t].pc = "message"]
    /\ UNCHANGED <<logHead, logCount, raced, since>>

StoreMessage(t) ==
    /\ task[t].pc = "message"
    /\ logBuf' = [logBuf EXCEPT ![task[t].slot].message = task[t].msg]
    /\ task' = [task EXCEPT ![t].pc = "head"]
    /\ UNCHANGED <<logHead, logCount, raced, since>>

\* head_ is read again, or the value read before is still in a register.
LoadHead(t) ==
    /\ task[t].pc = "head"
    /\ \E h \in {logHead, task[t].slot} :
        task' = [task EXCEPT ![t].pc = "next", ![t].slot = h]
    /\ UNCHANGED <<shared, raced, since>>

\* Mutant of StoreHead: the index does not wrap in time.
StoreHeadLate(t) ==
    /\ task[t].pc = "next"
    /\ logHead' = (task[t].slot + 1) % (Capacity + 1)
    /\ task' = [task EXCEPT ![t].pc = "count"]
    /\ UNCHANGED <<logBuf, logCount, raced, since>>

StoreHead(t) ==
    /\ task[t].pc = "next"
    /\ logHead' = (task[t].slot + 1) % Capacity
    /\ task' = [task EXCEPT ![t].pc = "count"]
    /\ UNCHANGED <<logBuf, logCount, raced, since>>

\* if (count_ < kEventLogCapacity): the build loads count_ once.
LoadCount(t) ==
    /\ task[t].pc = "count"
    /\ task' = [task EXCEPT ![t].pc = "more", ![t].n = logCount]
    /\ UNCHANGED <<shared, raced, since>>

\* The end of append, for the history variables.
Ends(t) ==
    /\ task' = [task EXCEPT ![t] = TaskAtRest]
    /\ raced' = (raced /\ Others(t) # {})
    /\ since' = IF raced THEN <<>> ELSE Latest(Append(since, task[t].msg))

\* Mutant of StoreCount: a full ring starts over.
StoreCountRestarts(t) ==
    /\ task[t].pc = "more"
    /\ logCount' = IF task[t].n < Capacity THEN task[t].n + 1 ELSE 0
    /\ Ends(t)
    /\ UNCHANGED <<logBuf, logHead>>

StoreCount(t) ==
    /\ task[t].pc = "more"
    /\ logCount' = IF task[t].n < Capacity THEN task[t].n + 1 ELSE logCount
    /\ Ends(t)
    /\ UNCHANGED <<logBuf, logHead>>

LogLine(t) ==
    \/ TakeSlot(t) \/ StoreOrigin(t) \/ StoreMessage(t)
    \/ LoadHead(t) \/ StoreHead(t)
    \/ LoadCount(t) \/ StoreCount(t)

LogNext == \E t \in Tasks : LogLine(t)

LogSpec == LogInit /\ [][LogNext]_logVars

-----------------------------------------------------------------------------

\* event_log.h:15-16, "circular log of the most recent ... entries": overlapping
\* appends lose and mix entries, but leave nothing behind.  With no append in
\* progress the newest entries are, whole and in order, those logged since the
\* last overlap, or the whole ring if there were that many.
NewestAreKept ==
    (\A t \in Tasks : ~Busy(t)) =>
        /\ Len(since) <= logCount
        /\ \A i \in 1 .. Len(since) :
            LogAt(logCount - Len(since) + i - 1) =
                [origin |-> since[i], message |-> since[i]]
=============================================================================
