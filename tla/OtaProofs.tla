------------------------------ MODULE OtaProofs -----------------------------
(***************************************************************************)
(* The firmware update, for every queue depth, image size, number of       *)
(* sessions and posts and every combination of lost links, stalled writer, *)
(* failing flash and loss of power.  First BleOta: the flag that guards    *)
(* the handle, the handles that stay open, the way of the chunks from the  *)
(* tool to the image made bootable.  Then OtaChannels: what may run after  *)
(* updates over both channels in any interleaving, and whether what the    *)
(* channels and the tool report is true.                                   *)
(***************************************************************************)
EXTENDS OtaChannels, SequenceTheorems, TLAPS

LEMMA HandleInit == Init => ActiveHandleIsOpen
  BY DEF Init, ActiveHandleIsOpen

\* The host task, which shares the flag with the writer without a lock, never
\* sets it and never touches the handle.
LEMMA HandleHost == ActiveHandleIsOpen /\ HostTask => ActiveHandleIsOpen'
<1> SUFFICES ASSUME ActiveHandleIsOpen, HostTask PROVE ActiveHandleIsOpen'
  OBVIOUS
<1>1. active' => active
  BY DEF HostTask, Callback, Connect, Disconnect, CtrlStart, CtrlStartDrain,
         CtrlStartSend, Data, DataSend, DataQueueFull, DataAbortSend,
         CtrlCommit, CtrlCommitSend, CtrlAbort, ToolStarted
<1>2. UNCHANGED espVars
  BY DEF HostTask, Callback, Connect, Disconnect, CtrlStart, CtrlStartDrain,
         CtrlStartSend, Data, DataSend, DataQueueFull, DataAbortSend,
         CtrlCommit, CtrlCommitSend, CtrlAbort, ToolStarted
<1> QED
  BY <1>1, <1>2 DEF ActiveHandleIsOpen, espVars

\* The writer sets the flag where it opens a handle, and clears it wherever it
\* closes one.
LEMMA HandleWriter == ActiveHandleIsOpen /\ WriterTask => ActiveHandleIsOpen'
<1> SUFFICES ASSUME ActiveHandleIsOpen, WriterTask PROVE ActiveHandleIsOpen'
  OBVIOUS
<1> USE DEF ActiveHandleIsOpen
<1>1. CASE Receive \/ BeginFails \/ WriteSkipped \/ Write \/ Drain \/ Drained
  <2>1. active' = active /\ handle' = handle /\ open' = open
    <3>1. CASE Receive
      BY <3>1 DEF Receive, espVars
    <3>2. CASE BeginFails
      BY <3>2 DEF BeginFails, espVars
    <3>3. CASE WriteSkipped \/ Drain \/ Drained
      BY <3>3 DEF WriteSkipped, Drain, Drained, espVars
    <3>4. CASE Write
      BY <3>4 DEF Write
    <3> QED
      BY <1>1, <3>1, <3>2, <3>3, <3>4
  <2> QED
    BY <2>1
<1>2. CASE StartAborts \/ Abort
  BY <1>2 DEF StartAborts, Abort, CloseHandle
<1>3. CASE Begin
  BY <1>3 DEF Begin
<1>4. CASE WriteFails \/ CommitFails \/ Commit
  BY <1>4 DEF WriteFails, CommitFails, Commit, CloseHandle
<1>5. CASE CommitRejected
  BY <1>5 DEF CommitRejected, CloseHandle
<1>6. CASE Restart
  BY <1>6 DEF Restart, Reset
<1> QED
  BY <1>1, <1>2, <1>3, <1>4, <1>5, <1>6 DEF WriterTask

\* main.cpp:197: whenever the flag is set, the handle is open.
THEOREM HandleAlwaysOpen == Spec => []ActiveHandleIsOpen
<1>1. ActiveHandleIsOpen /\ [Next]_vars => ActiveHandleIsOpen'
  <2>1. ActiveHandleIsOpen /\ UNCHANGED vars => ActiveHandleIsOpen'
    BY DEF vars, espVars, ActiveHandleIsOpen
  <2> QED
    BY <2>1, HandleHost, HandleWriter DEF Next
<1> QED
  BY <1>1, HandleInit, PTL DEF Spec

-----------------------------------------------------------------------------
(* Types, for any bounds.                                                  *)

ClientRecord == [pc : {"offline", "idle", "starting", "upload", "waiting",
                       "leaving"},
                 sent : 0 .. NChunks, status : {"none", "ok", "error"}]
WriterRecord == [pc : {"idle", "start", "begin", "data", "commit", "abort",
                       "drain", "restart"},
                 item : OtaChunk]

\* Sending to the queue and receiving from it.
LEMMA QueueAppend ==
    ASSUME NEW q \in Seq(OtaChunk), NEW c \in OtaChunk
    PROVE  Append(q, c) \in Seq(OtaChunk) /\ Len(Append(q, c)) = Len(q) + 1
BY AppendProperties

LEMMA QueueTail ==
    ASSUME NEW q \in Seq(OtaChunk), q # <<>>
    PROVE  /\ Head(q) \in OtaChunk
           /\ Tail(q) \in Seq(OtaChunk)
           /\ Len(Tail(q)) = Len(q) - 1
BY HeadTailProperties

LEMMA ItemType ==
    ASSUME NEW k \in Kinds, NEW s \in 0 .. MaxSessions, NEW p \in 0 .. NChunks
    PROVE  Item(k, s, p) \in OtaChunk
BY DEF Item, OtaChunk

\* A queue item is received with a program counter named after its kind.
LEMMA ReceiveType ==
    ASSUME NEW c \in OtaChunk
    PROVE  [pc |-> c.kind, item |-> c] \in WriterRecord /\ c.kind \in Kinds
BY DEF WriterRecord, OtaChunk, Kinds

\* The queue keeps its type and capacity whether an item is sent or dropped.
LEMMA SendType ==
    ASSUME TypeOK, NEW c \in OtaChunk,
           SendOrDrop(c) \/ (Room /\ queue' = Append(queue, c))
    PROVE  queue' \in Seq(OtaChunk) /\ Len(queue') <= QueueDepth
<1>1. queue \in Seq(OtaChunk) /\ Len(queue) \in Nat /\ Len(queue) <= QueueDepth
      /\ QueueDepth \in Nat
  BY OtaAssumption DEF TypeOK, OtaAssumption
<1>2. CASE Room /\ queue' = Append(queue, c)
  BY <1>1, <1>2, QueueAppend DEF Room
<1>3. CASE queue' = queue
  BY <1>1, <1>3
<1> QED
  BY <1>2, <1>3 DEF SendOrDrop

LEMMA TypeInit == Init => TypeOK
<1> SUFFICES ASSUME Init PROVE TypeOK
  OBVIOUS
<1> USE OtaAssumption DEF OtaAssumption, Init
<1>1. client \in ClientRecord
  BY DEF ClientOff, ClientRecord
<1>2. writer \in WriterRecord
  <2>1. NoItem \in OtaChunk
    BY DEF NoItem, Item, OtaChunk, Kinds
  <2> QED
    BY <2>1 DEF WriterRecord
<1>3. queue \in Seq(OtaChunk) /\ flash \in Seq(Chunk) /\ boot \in Seq(Chunk)
      /\ Len(queue) <= QueueDepth
  OBVIOUS
<1>4. session \in 0 .. MaxSessions /\ handle \in 0 .. MaxSessions
      /\ received \in Nat /\ expected \in {0, NChunks}
  OBVIOUS
<1>5. lagged \in BOOLEAN /\ active \in BOOLEAN
      /\ givenUp \subseteq 0 .. MaxSessions /\ open \subseteq 0 .. MaxSessions
  OBVIOUS
<1>6. host \in {"idle", "drain", "data", "full", "commit"}
  OBVIOUS
<1> QED
  BY <1>1, <1>2, <1>3, <1>4, <1>5, <1>6 DEF TypeOK, ClientRecord, WriterRecord

\* A notification, a change of the program counter and the end of a session
\* keep the types.
LEMMA NotifiedType ==
    ASSUME NEW c \in ClientRecord, NEW status \in {"ok", "error"}
    PROVE  Notified(c, status) \in ClientRecord
BY DEF Notified, ClientRecord

LEMMA GoesType ==
    ASSUME TypeOK, NEW pc \in {"idle", "begin", "drain", "restart"},
           WriterGoes(pc)
    PROVE  writer' \in WriterRecord
BY DEF TypeOK, WriterGoes, WriterRecord

LEMMA CloseType ==
    ASSUME TypeOK, CloseHandle
    PROVE  open' \subseteq 0 .. MaxSessions /\ active' \in BOOLEAN
BY DEF TypeOK, CloseHandle

LEMMA TypeHost == TypeOK /\ HostTask => TypeOK'
<1> SUFFICES ASSUME TypeOK, HostTask PROVE TypeOK'
  OBVIOUS
<1> USE OtaAssumption DEF OtaAssumption
<1>0. client \in ClientRecord /\ writer \in WriterRecord
  BY DEF TypeOK, ClientRecord, WriterRecord
<1>1. CASE Connect
  <2>1. client' = [pc |-> "idle", sent |-> 0, status |-> "none"]
    BY <1>1 DEF Connect, ClientOff
  <2>2. lagged' \in BOOLEAN
    BY <1>1 DEF Connect
  <2>3. client' \in ClientRecord
    BY <2>1, OtaAssumption DEF ClientRecord, OtaAssumption
  <2> QED
    BY <1>1, <2>2, <2>3 DEF Connect, TypeOK, espVars, ClientRecord
<1>2. CASE CtrlStart
  <2>1. client' \in ClientRecord
    <3>1. client' = [client EXCEPT !.pc = "starting", !.sent = 0]
      BY <1>2 DEF CtrlStart, ToolStarts
    <3>2. 0 \in 0 .. NChunks
      OBVIOUS
    <3> QED
      BY <1>0, <3>1, <3>2 DEF ClientRecord
  <2>2. session' \in 0 .. MaxSessions
    BY <1>2 DEF CtrlStart, TypeOK
  <2>3. expected' \in {0, NChunks} /\ host' = "drain"
    BY <1>2 DEF CtrlStart
  <2> QED
    BY <1>2, <2>1, <2>2, <2>3 DEF CtrlStart, TypeOK, espVars, ClientRecord
<1>3. CASE CtrlStartDrain
  BY <1>3, QueueTail DEF CtrlStartDrain, TypeOK, espVars, clientVars
<1>4. CASE CtrlStartSend
  <2>1. Item("start", session, 0) \in OtaChunk
    BY ItemType DEF TypeOK, Kinds
  <2>2. queue' \in Seq(OtaChunk) /\ Len(queue') = 1
    BY <1>4, <2>1 DEF CtrlStartSend
  <2> QED
    BY <1>4, <2>2 DEF CtrlStartSend, TypeOK, espVars, clientVars
<1>5. CASE Data
  <2>1. client.sent + 1 \in 0 .. NChunks
    BY <1>0, <1>5 DEF Data, ClientRecord
  <2>2. client' \in ClientRecord
    BY <1>0, <1>5, <2>1 DEF Data, ToolUploads, ClientRecord
  <2>3. host' \in {"data", "idle"}
    BY <1>5 DEF Data
  <2> QED
    BY <1>5, <2>2, <2>3 DEF Data, TypeOK, espVars, ClientRecord
<1>6. CASE DataSend
  <2>1. Item("data", session, client.sent) \in OtaChunk
    BY ItemType DEF TypeOK, Kinds
  <2> QED
    BY <1>6, <2>1, SendType DEF DataSend, TypeOK, espVars, clientVars
<1>7. CASE DataQueueFull
  BY <1>7 DEF DataQueueFull, TypeOK, espVars
<1>8. CASE DataAbortSend
  <2>1. Item("abort", session, 0) \in OtaChunk
    BY ItemType DEF TypeOK, Kinds
  <2> QED
    BY <1>8, <2>1, SendType DEF DataAbortSend, TypeOK, espVars, clientVars
<1>9. CASE CtrlCommit
  <2>1. ToolCommits(client) \in ClientRecord
    BY <1>0 DEF ClientRecord, ToolCommits
  <2>2. client' \in ClientRecord /\ host' \in {"idle", "drain", "data", "full", "commit"}
    BY <1>9, <2>1, NotifiedType DEF CtrlCommit, TypeOK
  <2> QED
    BY <1>9, <2>2 DEF CtrlCommit, TypeOK, espVars, ClientRecord
<1>10. CASE CtrlCommitSend
  <2>1. Item("commit", session, 0) \in OtaChunk
    BY ItemType DEF TypeOK, Kinds
  <2> QED
    BY <1>10, <2>1, SendType DEF CtrlCommitSend, TypeOK, espVars, clientVars
<1>11. CASE CtrlAbort \/ Disconnect
  <2>1. Item("abort", session, 0) \in OtaChunk
    BY ItemType DEF TypeOK, Kinds
  <2>2. queue' \in Seq(OtaChunk) /\ Len(queue') <= QueueDepth
    BY <1>11, <2>1, SendType DEF CtrlAbort, Disconnect
  <2>3. client' \in ClientRecord
    BY <1>0, <1>11 DEF CtrlAbort, ToolAborts, Disconnect, ClientOff, ClientRecord
  <2> QED
    BY <1>11, <2>2, <2>3
       DEF CtrlAbort, Disconnect, TypeOK, espVars, ClientRecord
<1>12. CASE ToolStarted
  <2>1. client' \in ClientRecord
    BY <1>0, <1>12 DEF ToolStarted, ClientRecord
  <2> QED
    BY <1>12, <2>1 DEF ToolStarted, TypeOK, espVars, ClientRecord
<1> QED
  BY <1>1, <1>2, <1>3, <1>4, <1>5, <1>6, <1>7, <1>8, <1>9, <1>10, <1>11, <1>12
     DEF HostTask, Callback

LEMMA TypeReset == TypeOK /\ Reset => TypeOK'
<1> SUFFICES ASSUME TypeOK, Reset PROVE TypeOK'
  OBVIOUS
<1>1. client' \in ClientRecord
  BY OtaAssumption DEF Reset, ClientOff, ClientRecord
<1>2. writer' \in WriterRecord
  BY OtaAssumption, ItemType DEF Reset, NoItem, WriterRecord, Kinds
<1>3. queue' \in Seq(OtaChunk) /\ Len(queue') = 0 /\ flash' \in Seq(Chunk)
  BY DEF Reset
<1>4. handle' \in 0 .. MaxSessions /\ open' \subseteq 0 .. MaxSessions
      /\ expected' \in {0, NChunks} /\ received' \in Nat
  BY OtaAssumption DEF Reset
<1>5. UNCHANGED <<session, lagged, givenUp, boot>> /\ host' = "idle"
      /\ active' \in BOOLEAN
  BY DEF Reset
<1> QED
  BY <1>1, <1>2, <1>3, <1>4, <1>5, OtaAssumption
  DEF TypeOK, WriterRecord, ClientRecord

LEMMA TypeWriter == TypeOK /\ WriterTask => TypeOK'
<1> SUFFICES ASSUME TypeOK, WriterTask PROVE TypeOK'
  OBVIOUS
<1> USE OtaAssumption DEF OtaAssumption
<1>0. client \in ClientRecord /\ writer \in WriterRecord
      /\ writer.item \in OtaChunk
  BY DEF TypeOK, ClientRecord, WriterRecord
<1>1. CASE Receive
  <2>1. Head(queue) \in OtaChunk /\ Tail(queue) \in Seq(OtaChunk)
        /\ Len(Tail(queue)) <= QueueDepth
    BY <1>1, QueueTail DEF Receive, TypeOK
  <2>2. writer' \in WriterRecord
    BY <1>1, <2>1, ReceiveType DEF Receive
  <2> QED
    BY <1>1, <2>1, <2>2 DEF Receive, TypeOK, espVars, clientVars, WriterRecord
<1>2. CASE StartAborts
  <2>1. writer' \in WriterRecord
    BY <1>2, GoesType DEF StartAborts
  <2>2. open' \subseteq 0 .. MaxSessions /\ active' \in BOOLEAN
    BY <1>2, CloseType DEF StartAborts, TypeOK
  <2> QED
    BY <1>2, <2>1, <2>2 DEF StartAborts, TypeOK, clientVars, WriterRecord
<1>3. CASE Begin
  <2>1. writer' \in WriterRecord
    BY <1>3, GoesType DEF Begin
  <2>2. handle' \in 0 .. MaxSessions /\ open' \subseteq 0 .. MaxSessions
    BY <1>0, <1>3 DEF Begin, TypeOK, OtaChunk
  <2>3. flash' \in Seq(Chunk) /\ received' \in Nat /\ active' \in BOOLEAN
    BY <1>3 DEF Begin
  <2> QED
    BY <1>3, <2>1, <2>2, <2>3 DEF Begin, TypeOK, clientVars, WriterRecord
<1>4. CASE BeginFails
  <2>1. writer' \in WriterRecord /\ client' \in ClientRecord
    BY <1>0, <1>4, GoesType, NotifiedType DEF BeginFails
  <2> QED
    BY <1>4, <2>1 DEF BeginFails, TypeOK, espVars, WriterRecord, ClientRecord
<1>5. CASE WriteSkipped
  <2>1. writer' \in WriterRecord
    BY <1>5, GoesType DEF WriteSkipped
  <2> QED
    BY <1>5, <2>1 DEF WriteSkipped, TypeOK, espVars, clientVars, WriterRecord
<1>6. CASE Write
  <2>1. writer' \in WriterRecord
    BY <1>6, GoesType DEF Write
  <2>2. [sess |-> writer.item.sess, pos |-> writer.item.pos] \in Chunk
    BY <1>0 DEF OtaChunk, Chunk
  <2>3. flash' \in Seq(Chunk)
    BY <1>6, <2>2, AppendProperties DEF Write, TypeOK
  <2>4. received' \in Nat
    BY <1>6 DEF Write, TypeOK
  <2> QED
    BY <1>6, <2>1, <2>3, <2>4 DEF Write, TypeOK, clientVars, WriterRecord
<1>7. CASE WriteFails \/ CommitFails \/ CommitRejected
  <2>1. writer' \in WriterRecord /\ client' \in ClientRecord
    BY <1>0, <1>7, GoesType, NotifiedType
       DEF WriteFails, CommitFails, CommitRejected
  <2>2. open' \subseteq 0 .. MaxSessions /\ active' \in BOOLEAN
    BY <1>7, CloseType DEF WriteFails, CommitFails, CommitRejected, TypeOK
  <2>3. UNCHANGED <<session, lagged, givenUp, host, queue, expected, received,
                    handle, flash, boot>>
    BY <1>7 DEF WriteFails, CommitFails, CommitRejected
  <2> QED
    BY <2>1, <2>2, <2>3 DEF TypeOK, WriterRecord, ClientRecord
<1>8. CASE Commit
  <2>1. writer' \in WriterRecord /\ client' \in ClientRecord
    BY <1>0, <1>8, GoesType, NotifiedType DEF Commit
  <2>2. open' \subseteq 0 .. MaxSessions /\ active' \in BOOLEAN
    BY <1>8, CloseType DEF Commit
  <2> QED
    BY <1>8, <2>1, <2>2 DEF Commit, TypeOK, WriterRecord, ClientRecord
<1>9. CASE Restart
  BY <1>9, TypeReset DEF Restart
<1>10. CASE Abort
  <2>1. writer' \in WriterRecord
    BY <1>10, GoesType DEF Abort
  <2>2. open' \subseteq 0 .. MaxSessions /\ active' \in BOOLEAN
    BY <1>10, CloseType DEF Abort, TypeOK
  <2> QED
    BY <1>10, <2>1, <2>2 DEF Abort, TypeOK, clientVars, WriterRecord
<1>11. CASE Drain
  BY <1>11, QueueTail DEF Drain, TypeOK, espVars, clientVars
<1>12. CASE Drained
  <2>1. writer' \in WriterRecord
    BY <1>12, GoesType DEF Drained
  <2> QED
    BY <1>12, <2>1 DEF Drained, TypeOK, espVars, clientVars, WriterRecord
<1> QED
  BY <1>1, <1>2, <1>3, <1>4, <1>5, <1>6, <1>7, <1>8, <1>9, <1>10, <1>11, <1>12
     DEF WriterTask

LEMMA TypeStep == TypeOK /\ [Next]_vars => TypeOK'
<1>1. TypeOK /\ UNCHANGED vars => TypeOK'
  BY DEF vars, clientVars, espVars, TypeOK
<1> QED
  BY <1>1, TypeHost, TypeWriter DEF Next

\* The queue never exceeds its depth (main.cpp:364) and every variable keeps its
\* type, for any bounds.
THEOREM OtaTypeOK == Spec => []TypeOK
BY TypeInit, TypeStep, PTL DEF Spec

-----------------------------------------------------------------------------
(* No handle is forgotten, except by a full queue.                         *)

\* START has ended the previous session when it opens the next one.
LeakInv ==
    /\ TypeOK
    /\ OnlyFullQueueLeaks
    /\ writer.pc = "begin" => ~active

LEMMA LeakInit == Init => LeakInv
  BY TypeInit DEF Init, LeakInv, OnlyFullQueueLeaks

\* The host task clears the flag in one place only, where it gives up.
LEMMA LeakHost == LeakInv /\ HostTask => LeakInv'
<1> SUFFICES ASSUME LeakInv, HostTask PROVE LeakInv'
  OBVIOUS
<1>1. UNCHANGED <<writer, handle, open>> /\ TypeOK'
  BY TypeHost
     DEF LeakInv, HostTask, Callback, Connect, Disconnect, CtrlStart,
         CtrlStartDrain, CtrlStartSend, Data, DataSend, DataQueueFull,
         DataAbortSend, CtrlCommit, CtrlCommitSend, CtrlAbort, ToolStarted,
         espVars
<1>2. CASE DataQueueFull
  BY <1>1, <1>2 DEF DataQueueFull, LeakInv, OnlyFullQueueLeaks
<1>3. CASE ~DataQueueFull
  <2>1. UNCHANGED <<active, givenUp>>
    BY <1>3 DEF HostTask, Callback, Connect, Disconnect, CtrlStart,
         CtrlStartDrain, CtrlStartSend, Data, DataSend, DataAbortSend,
         CtrlCommit, CtrlCommitSend, CtrlAbort, ToolStarted, clientVars
  <2> QED
    BY <1>1, <2>1 DEF LeakInv, OnlyFullQueueLeaks
<1> QED
  BY <1>2, <1>3

\* The writer closes the handle wherever it clears the flag.
LEMMA LeakWriter == LeakInv /\ WriterTask => LeakInv'
<1> SUFFICES ASSUME LeakInv, WriterTask PROVE LeakInv'
  OBVIOUS
<1> USE DEF OnlyFullQueueLeaks
<1>0. TypeOK /\ TypeOK'
  BY TypeWriter DEF LeakInv
<1>pc. ASSUME NEW pc \in {"idle", "begin", "drain", "restart"}, WriterGoes(pc)
       PROVE  writer'.pc = pc
  BY <1>0, <1>pc DEF WriterGoes, TypeOK
<1>1. CASE Receive
  <2>1. Head(queue) \in OtaChunk
    BY <1>0, <1>1, QueueTail DEF Receive, TypeOK
  <2>2. writer'.pc \in Kinds
    BY <1>1, <2>1, ReceiveType DEF Receive
  <2> QED
    BY <1>0, <1>1, <2>2 DEF Receive, LeakInv, Kinds, espVars, clientVars
<1>2. CASE StartAborts
  BY <1>0, <1>2 DEF StartAborts, CloseHandle, LeakInv, clientVars
<1>3. CASE Begin
  <2>1. ~active /\ writer'.pc = "idle"
    BY <1>3, <1>pc DEF Begin, LeakInv, WriterAt
  <2> QED
    BY <1>0, <1>3, <2>1 DEF Begin, LeakInv, clientVars
<1>4. CASE BeginFails \/ WriteSkipped \/ Write \/ Drain \/ Drained
  <2>1. UNCHANGED <<active, handle, open, givenUp>>
    BY <1>4 DEF BeginFails, WriteSkipped, Write, Drain, Drained, espVars,
                clientVars
  <2>2. writer'.pc # "begin"
    BY <1>4, <1>pc DEF BeginFails, WriteSkipped, Write, Drain, Drained, WriterAt
  <2> QED
    BY <1>0, <2>1, <2>2 DEF LeakInv
<1>5. CASE WriteFails \/ CommitFails \/ Commit \/ CommitRejected \/ Abort
  <2>1. writer'.pc # "begin" /\ UNCHANGED <<handle, givenUp>>
    BY <1>5, <1>pc DEF WriteFails, CommitFails, Commit, CommitRejected, Abort,
                       clientVars
  <2>2. CASE CloseHandle
    BY <1>0, <2>1, <2>2 DEF CloseHandle, LeakInv
  <2>3. CASE UNCHANGED <<open, active>>
    BY <1>0, <2>1, <2>3 DEF LeakInv
  <2> QED
    BY <1>5, <2>2, <2>3 DEF WriteFails, CommitFails, Commit, CommitRejected, Abort
<1>6. CASE Restart
  BY <1>0, <1>6 DEF Restart, Reset, LeakInv
<1> QED
  BY <1>1, <1>2, <1>3, <1>4, <1>5, <1>6 DEF WriterTask

LEMMA LeakStep == LeakInv /\ [Next]_vars => LeakInv'
<1>1. LeakInv /\ UNCHANGED vars => LeakInv'
  BY TypeStep DEF vars, espVars, clientVars, LeakInv, OnlyFullQueueLeaks
<1> QED
  BY <1>1, LeakHost, LeakWriter DEF Next

\* A handle is left open only where a full queue gives a session up, for any
\* bounds: no lost link, dropped sentinel or failing flash leaks one.
THEOREM LeaksAreKnown == Spec => []OnlyFullQueueLeaks
<1>1. LeakInv => OnlyFullQueueLeaks
  BY DEF LeakInv
<1> QED
  BY <1>1, LeakInit, LeakStep, PTL DEF Spec

-----------------------------------------------------------------------------
(* One upload in flash.  The invariants speak of a tool that has connected *)
(* to an empty queue (~lagged) and say that everything between the tool    *)
(* and the flash stands in line: the START of the latest session comes     *)
(* before its chunks, and every chunk is further on in the image than      *)
(* those ahead of it.                                                      *)

\* The tool has a session of its own.
Online == client.pc \notin {"offline", "idle"}

\* The tool has written place p, and its callback has queued it.
Uploaded(p) ==
    /\ Online => p <= client.sent
    /\ host = "data" => p < client.sent

\* The START of the latest session is still to come.
StartNext == host = "drain" \/ (queue # <<>> /\ queue[1].kind = "start")

\* Place p comes after what is in flash.
Follows(p) == \A i \in 1 .. Len(flash) : flash[i].pos < p

ClientInLine ==
    /\ host # "idle" => Online
    /\ host = "data" => client.sent >= 1
    /\ host = "drain" => session >= 1 /\ queue = <<>>
    /\ client.pc = "idle" => queue = <<>>

QueueInLine ==
    /\ \A k \in 1 .. Len(queue) :
        /\ queue[k].sess = session
        /\ queue[k].kind = "start" => session >= 1
        /\ queue[k].kind = "data" => queue[k].pos >= 1 /\ Uploaded(queue[k].pos)
    /\ \A j, k \in 1 .. Len(queue) :
        j < k /\ queue[j].kind = "data" /\ queue[k].kind = "data" =>
            queue[j].pos < queue[k].pos

WriterInLine ==
    /\ handle <= session
    /\ writer.item.sess <= session
    /\ writer.pc \in {"start", "begin"} =>
        /\ writer.item.sess >= 1
        /\ writer.item.sess # session => StartNext
    /\ writer.pc = "data" => writer.item.pos >= 1
    /\ writer.pc \in {"begin", "drain", "restart"} => ~active

FlashInLine ==
    active =>
        /\ handle >= 1
        /\ handle # session => StartNext \/ writer.pc = "start"
        /\ received = Len(flash)
        /\ \A i \in 1 .. Len(flash) : flash[i].sess = handle /\ flash[i].pos >= i
        /\ \A i, j \in 1 .. Len(flash) :
            i <= j => flash[j].pos >= flash[i].pos + (j - i)
        /\ writer.pc = "data" => /\ writer.item.sess = handle
                                 /\ Follows(writer.item.pos)

SessionInLine ==
    active /\ handle = session =>
        /\ \A i \in 1 .. Len(flash) : Uploaded(flash[i].pos)
        /\ \A k \in 1 .. Len(queue) :
            queue[k].kind = "data" => Follows(queue[k].pos)
        /\ writer.pc = "data" =>
            /\ Uploaded(writer.item.pos)
            /\ \A k \in 1 .. Len(queue) :
                queue[k].kind = "data" => writer.item.pos < queue[k].pos

BootIsImage == boot = <<>> \/ \E s \in Sessions : boot = Image(s)

InLine ==
    /\ ClientInLine /\ QueueInLine /\ WriterInLine /\ FlashInLine
    /\ SessionInLine /\ BootIsImage

UploadInv == TypeOK /\ (~lagged => InLine)

\* The numbers the invariants compare.
LEMMA Numbers ==
    ASSUME TypeOK
    PROVE  /\ client.sent \in Nat /\ client.sent <= NChunks
           /\ session \in Nat /\ handle \in Nat /\ received \in Nat
           /\ writer.item.sess \in Nat /\ writer.item.pos \in Nat
           /\ Len(queue) \in Nat /\ Len(flash) \in Nat
           /\ \A k \in 1 .. Len(queue) :
                queue[k] \in OtaChunk /\ queue[k].sess \in Nat
                /\ queue[k].pos \in Nat
           /\ \A i \in 1 .. Len(flash) :
                /\ flash[i] \in Chunk
                /\ flash[i].sess \in Nat
                /\ flash[i].pos \in Nat /\ flash[i].pos <= NChunks
<1>1. NChunks \in Nat /\ MaxSessions \in Nat
  BY OtaAssumption
<1>2. writer.item \in OtaChunk /\ client.sent \in 0 .. NChunks
  BY DEF TypeOK
<1>3. queue \in Seq(OtaChunk) /\ flash \in Seq(Chunk)
  BY DEF TypeOK
<1>4. \A k \in 1 .. Len(queue) : queue[k] \in OtaChunk
  BY <1>3, ElementOfSeq
<1>5. \A i \in 1 .. Len(flash) : flash[i] \in Chunk
  BY <1>3, ElementOfSeq
<1>6. \A c \in OtaChunk : c.sess \in 0 .. MaxSessions /\ c.pos \in 0 .. NChunks
  BY DEF OtaChunk
<1>7. \A c \in Chunk : c.sess \in 0 .. MaxSessions /\ c.pos \in 0 .. NChunks
  BY DEF Chunk
<1> QED
  BY <1>1, <1>2, <1>3, <1>4, <1>5, <1>6, <1>7 DEF TypeOK

\* What a callback may do to the queue: leave it, or put an item that is neither
\* a START nor a chunk at its end.
Adds(kind) ==
    \/ queue' = queue
    \/ queue' = Append(queue, Item(kind, session, 0))

LEMMA AddsItem ==
    ASSUME TypeOK, NEW kind \in {"commit", "abort"}, Adds(kind)
    PROVE  /\ Len(queue') \in Nat
           /\ \A k \in 1 .. Len(queue') :
                \/ k \in 1 .. Len(queue) /\ queue'[k] = queue[k]
                \/ queue'[k].kind = kind /\ queue'[k].sess = session
           /\ queue # <<>> => queue' # <<>> /\ queue'[1] = queue[1]
<1>1. queue \in Seq(OtaChunk)
  BY DEF TypeOK
<1>2. CASE queue' = queue
  BY <1>1, <1>2
<1>3. CASE queue' = Append(queue, Item(kind, session, 0))
  <2> DEFINE c == Item(kind, session, 0)
  <2>1. c.kind = kind /\ c.sess = session
    BY DEF Item
  <2>2. c \in OtaChunk
    BY ItemType, OtaAssumption DEF TypeOK, Kinds
  <2>3. queue' = Append(queue, c)
    BY <1>3
  <2> HIDE DEF c
  <2>4. /\ Len(queue') = Len(queue) + 1
        /\ \A k \in 1 .. Len(queue) : queue'[k] = queue[k]
        /\ queue'[Len(queue) + 1] = c
    BY <1>1, <2>2, <2>3, AppendProperties
  <2>5. queue # <<>> => Len(queue) >= 1
    BY <1>1, EmptySeq
  <2> QED
    BY <1>1, <2>1, <2>4, <2>5
<1> QED
  BY <1>2, <1>3 DEF Adds

\* A callback that sends no chunk and no START leaves the line as it is.
LEMMA HostQuiet ==
    ASSUME TypeOK, InLine, NEW kind \in {"commit", "abort"}, Adds(kind),
           UNCHANGED <<session, writer, received, espVars>>,
           active' \in BOOLEAN, active' => active,
           host # "drain", host' # "drain", ClientInLine',
           \A p \in Nat : Uploaded(p) => Uploaded(p)'
    PROVE  InLine'
<1>1. /\ UNCHANGED <<session, writer, received, handle, flash, boot>>
      /\ UNCHANGED handle
  BY DEF espVars
<1>2. /\ Len(queue') \in Nat
      /\ \A k \in 1 .. Len(queue') :
           \/ k \in 1 .. Len(queue) /\ queue'[k] = queue[k]
           \/ queue'[k].kind = kind /\ queue'[k].sess = session
  BY AddsItem
<1>3. StartNext => StartNext'
  BY AddsItem DEF StartNext
<1>4. QueueInLine'
  BY <1>1, <1>2, Numbers DEF InLine, QueueInLine
<1>5. WriterInLine'
  BY <1>1, <1>3 DEF InLine, WriterInLine
<1>6. FlashInLine'
  BY <1>1, <1>3 DEF InLine, FlashInLine, Follows
<1>7. SessionInLine'
  BY <1>1, <1>2, Numbers DEF InLine, SessionInLine, Follows
<1>8. BootIsImage'
  BY <1>1 DEF InLine, BootIsImage
<1> QED
  BY <1>4, <1>5, <1>6, <1>7, <1>8 DEF InLine

\* A step of the writer that ends with no active session.
LEMMA WriterCloses ==
    ASSUME TypeOK, InLine, ~active',
           UNCHANGED <<session, host, queue, handle>>,
           client'.pc = client.pc, client'.sent = client.sent,
           writer'.item = writer.item,
           writer'.pc \in {"idle", "drain", "restart"}
             \/ (writer'.pc = "begin" /\ writer.pc = "start"),
           BootIsImage'
    PROVE  InLine'
<1>1. Online' = Online /\ (\A p : Uploaded(p)' = Uploaded(p))
      /\ StartNext' = StartNext
  BY DEF Online, Uploaded, StartNext
<1>2. ClientInLine'
  BY <1>1 DEF InLine, ClientInLine
<1>3. QueueInLine'
  BY <1>1 DEF InLine, QueueInLine
<1>4. WriterInLine'
  BY <1>1 DEF InLine, WriterInLine
<1> QED
  BY <1>2, <1>3, <1>4 DEF InLine, FlashInLine, SessionInLine

\* START: the new session has an empty queue before it.
LEMMA LineStart == TypeOK /\ InLine /\ CtrlStart => InLine'
<1> SUFFICES ASSUME TypeOK, InLine, CtrlStart PROVE InLine'
  OBVIOUS
<1>1. /\ client.pc = "idle" /\ session' = session + 1 /\ host' = "drain"
      /\ client'.pc = "starting"
      /\ UNCHANGED <<queue, writer, active, received, handle, flash, boot>>
  BY DEF CtrlStart, ToolStarts, TypeOK, espVars
<1>2. queue = <<>> /\ Len(queue) = 0
  BY <1>1 DEF InLine, ClientInLine
<1>3. StartNext'
  BY <1>1 DEF StartNext
<1>4. session \in Nat /\ handle \in Nat /\ writer.item.sess \in Nat
  BY Numbers
<1>5. ClientInLine'
  BY <1>1, <1>2, <1>4 DEF ClientInLine, Online
<1>6. QueueInLine'
  BY <1>1, <1>2 DEF QueueInLine
<1>7. WriterInLine'
  BY <1>1, <1>3, <1>4 DEF InLine, WriterInLine
<1>8. FlashInLine'
  BY <1>1, <1>3 DEF InLine, FlashInLine, Follows
<1>9. SessionInLine'
  BY <1>1, <1>4 DEF InLine, SessionInLine, WriterInLine
<1> QED
  BY <1>1, <1>5, <1>6, <1>7, <1>8, <1>9 DEF InLine, BootIsImage

\* The START item is alone in the queue.
LEMMA LineStartSend == TypeOK /\ InLine /\ CtrlStartSend => InLine'
<1> SUFFICES ASSUME TypeOK, InLine, CtrlStartSend PROVE InLine'
  OBVIOUS
<1> DEFINE c == Item("start", session, 0)
<1>1. /\ host = "drain" /\ host' = "idle" /\ queue' = <<c>>
      /\ UNCHANGED <<client, session, writer, active, received, handle, flash,
                     boot>>
  BY DEF CtrlStartSend, clientVars, espVars
<1>2. c.kind = "start" /\ c.sess = session
  BY DEF Item
<1> HIDE DEF c
<1>3. Len(queue') = 1 /\ queue'[1] = c /\ queue' # <<>>
  BY <1>1
<1>4. StartNext' /\ session >= 1
  BY <1>1, <1>2, <1>3 DEF StartNext, InLine, ClientInLine
<1>5. Online' = Online /\ Online
  BY <1>1 DEF Online, InLine, ClientInLine
<1>6. \A p \in Nat : Uploaded(p) => Uploaded(p)'
  BY <1>1, <1>5 DEF Uploaded
<1>7. ClientInLine'
  BY <1>1, <1>5 DEF ClientInLine, Online
<1>8. QueueInLine'
  BY <1>1, <1>2, <1>3, <1>4 DEF QueueInLine
<1>9. WriterInLine'
  BY <1>1, <1>4 DEF InLine, WriterInLine
<1>10. FlashInLine'
  BY <1>1, <1>4 DEF InLine, FlashInLine, Follows
<1>11. SessionInLine'
  BY <1>1, <1>2, <1>3, <1>6, Numbers DEF InLine, SessionInLine
<1> QED
  BY <1>1, <1>7, <1>8, <1>9, <1>10, <1>11 DEF InLine, BootIsImage

\* A chunk joins the line behind all the others.
LEMMA LineDataSend == TypeOK /\ InLine /\ DataSend => InLine'
<1> SUFFICES ASSUME TypeOK, InLine, DataSend PROVE InLine'
  OBVIOUS
<1> DEFINE c == Item("data", session, client.sent)
<1>1. /\ host = "data" /\ host' = "idle" /\ queue' = Append(queue, c)
      /\ UNCHANGED <<client, session, writer, active, received, handle, flash,
                     boot>>
  BY DEF DataSend, clientVars, espVars
<1>2. c.kind = "data" /\ c.sess = session /\ c.pos = client.sent
  BY DEF Item
<1>3. c \in OtaChunk
  BY ItemType DEF TypeOK, Kinds
<1> HIDE DEF c
<1>4. queue \in Seq(OtaChunk)
  BY DEF TypeOK
<1>5. /\ Len(queue') = Len(queue) + 1
      /\ \A k \in 1 .. Len(queue) : queue'[k] = queue[k]
      /\ queue'[Len(queue) + 1] = c
      /\ queue' # <<>>
  BY <1>1, <1>3, <1>4, AppendProperties
<1>6. queue # <<>> => Len(queue) >= 1
  BY <1>4, EmptySeq
<1>7. StartNext => StartNext'
  BY <1>1, <1>5, <1>6, Numbers DEF StartNext
<1>8. Online /\ Online' = Online /\ client.sent >= 1
  BY <1>1 DEF Online, InLine, ClientInLine
<1>9. \A p \in Nat : Uploaded(p) => Uploaded(p)' /\ p < client.sent
  BY <1>1, <1>8 DEF Uploaded
<1>10. Uploaded(client.sent)'
  BY <1>1, Numbers DEF Uploaded
<1>11. \A k \in 1 .. Len(queue') :
          \/ k \in 1 .. Len(queue) /\ queue'[k] = queue[k]
          \/ k = Len(queue) + 1 /\ queue'[k] = c
  BY <1>5, Numbers
<1>12. ClientInLine'
  BY <1>1, <1>8 DEF ClientInLine, Online
<1>13. QueueInLine'
  <2>1. \A k \in 1 .. Len(queue') :
          /\ queue'[k].sess = session'
          /\ queue'[k].kind = "start" => session' >= 1
          /\ queue'[k].kind = "data" =>
                queue'[k].pos >= 1 /\ Uploaded(queue[k].pos)'
    <3> SUFFICES ASSUME NEW k \in 1 .. Len(queue')
                 PROVE  /\ queue'[k].sess = session'
                        /\ queue'[k].kind = "start" => session' >= 1
                        /\ queue'[k].kind = "data" =>
                              queue'[k].pos >= 1 /\ Uploaded(queue[k].pos)'
      OBVIOUS
    <3>1. CASE k \in 1 .. Len(queue) /\ queue'[k] = queue[k]
      BY <1>1, <1>8, <3>1, Numbers DEF InLine, QueueInLine, Uploaded
    <3>2. CASE queue'[k] = c
      BY <1>1, <1>2, <1>8, <3>2, Numbers DEF Uploaded, InLine, ClientInLine
    <3> QED
      BY <1>11, <3>1, <3>2
  <2>2. \A j, k \in 1 .. Len(queue') :
          j < k /\ queue'[j].kind = "data" /\ queue'[k].kind = "data" =>
              queue'[j].pos < queue'[k].pos
    <3> SUFFICES ASSUME NEW j \in 1 .. Len(queue'), NEW k \in 1 .. Len(queue'),
                        j < k, queue'[j].kind = "data", queue'[k].kind = "data"
                 PROVE  queue'[j].pos < queue'[k].pos
      OBVIOUS
    <3>1. j \in 1 .. Len(queue) /\ queue'[j] = queue[j]
      BY <1>5, Numbers
    <3>2. CASE k \in 1 .. Len(queue) /\ queue'[k] = queue[k]
      BY <3>1, <3>2 DEF InLine, QueueInLine
    <3>3. CASE queue'[k] = c
      BY <1>2, <1>9, <3>1, <3>3, Numbers DEF InLine, QueueInLine
    <3> QED
      BY <1>11, <3>2, <3>3
  <2> QED
    BY <2>1, <2>2 DEF QueueInLine
<1>14. WriterInLine'
  BY <1>1, <1>7 DEF InLine, WriterInLine
<1>15. FlashInLine'
  BY <1>1, <1>7 DEF InLine, FlashInLine, Follows
<1>16. SessionInLine'
  <2> SUFFICES ASSUME active, handle = session
               PROVE  /\ \A i \in 1 .. Len(flash) : Uploaded(flash[i].pos)'
                      /\ \A k \in 1 .. Len(queue') :
                           queue'[k].kind = "data" => Follows(queue'[k].pos)
                      /\ writer.pc = "data" =>
                           /\ Uploaded(writer.item.pos)'
                           /\ \A k \in 1 .. Len(queue') :
                                queue'[k].kind = "data" =>
                                    writer.item.pos < queue'[k].pos
    BY <1>1 DEF SessionInLine, Follows
  <2>1. /\ \A i \in 1 .. Len(flash) : Uploaded(flash[i].pos)
        /\ \A k \in 1 .. Len(queue) :
             queue[k].kind = "data" => Follows(queue[k].pos)
        /\ writer.pc = "data" =>
             /\ Uploaded(writer.item.pos)
             /\ \A k \in 1 .. Len(queue) :
                  queue[k].kind = "data" => writer.item.pos < queue[k].pos
    BY DEF InLine, SessionInLine
  <2>2. Follows(c.pos)
    BY <1>2, <1>9, <2>1, Numbers DEF Follows
  <2>3. \A i \in 1 .. Len(flash) : Uploaded(flash[i].pos)'
    BY <1>1, <1>8, <2>1 DEF Uploaded
  <2>4. writer.pc = "data" => Uploaded(writer.item.pos)'
    BY <1>1, <1>8, <2>1 DEF Uploaded
  <2>5. \A k \in 1 .. Len(queue') :
          queue'[k].kind = "data" => Follows(queue'[k].pos)
    BY <1>11, <2>1, <2>2
  <2>6. writer.pc = "data" =>
          \A k \in 1 .. Len(queue') :
            queue'[k].kind = "data" => writer.item.pos < queue'[k].pos
    BY <1>2, <1>9, <1>11, <2>1, Numbers
  <2> QED
    BY <2>3, <2>4, <2>5, <2>6
<1> QED
  BY <1>1, <1>12, <1>13, <1>14, <1>15, <1>16 DEF InLine, BootIsImage

\* A callback is a step of one of these kinds.
LEMMA LineHost == TypeOK /\ TypeOK' /\ ~lagged' /\ (~lagged => InLine) /\ HostTask
                    => InLine'
<1> SUFFICES ASSUME TypeOK, TypeOK', ~lagged', ~lagged => InLine, HostTask
             PROVE  InLine'
  OBVIOUS
<1>1. ~lagged /\ InLine
  <2>1. CASE Connect
    BY <2>1 DEF Connect
  <2>2. CASE ~Connect
    <3>1. UNCHANGED lagged
      BY <2>2
      DEF HostTask, Callback, Disconnect, CtrlStart, CtrlStartDrain,
          CtrlStartSend, Data, DataSend, DataQueueFull, DataAbortSend,
          CtrlCommit, CtrlCommitSend, CtrlAbort, ToolStarted, clientVars
    <3> QED
      BY <3>1
  <2> QED
    BY <2>1, <2>2
<1>2. CASE CtrlStart \/ CtrlStartSend \/ DataSend
  BY <1>1, <1>2, LineStart, LineStartSend, LineDataSend
<1>3. CASE CtrlStartDrain
  BY <1>1, <1>3 DEF CtrlStartDrain, InLine, ClientInLine
<1>4. CASE DataAbortSend \/ CtrlAbort \/ Disconnect
  <2>1. Adds("abort")
    BY <1>4 DEF DataAbortSend, CtrlAbort, Disconnect, SendOrDrop, Adds
  <2>2. /\ UNCHANGED <<session, writer, received, espVars, active>>
        /\ host # "drain" /\ host' = "idle"
        /\ \/ client' = client
           \/ client.pc = "waiting" /\ client' = [client EXCEPT !.pc = "leaving"]
           \/ client' = ClientOff
        /\ client'.pc = "idle" => queue' = queue /\ client.pc = "idle"
    BY <1>1, <1>4
    DEF DataAbortSend, CtrlAbort, Disconnect, clientVars, ToolAborts, InLine,
        ClientInLine, Online, ClientOff, TypeOK
  <2>3. client'.pc # "offline" =>
           client'.sent = client.sent /\ (Online' => Online)
    BY <2>2 DEF TypeOK, Online, ClientOff
  <2>4. ClientInLine'
    BY <1>1, <2>2 DEF ClientInLine, InLine
  <2>5. \A p \in Nat : Uploaded(p) => Uploaded(p)'
    BY <2>2, <2>3 DEF Uploaded, Online
  <2> QED
    BY <1>1, <2>1, <2>2, <2>4, <2>5, HostQuiet DEF TypeOK
<1>5. CASE CtrlCommitSend
  <2>1. Adds("commit")
    BY <1>5 DEF CtrlCommitSend, SendOrDrop, Adds
  <2>2. /\ UNCHANGED <<client, session, writer, received, espVars, active>>
        /\ host = "commit" /\ host' = "idle"
    BY <1>5 DEF CtrlCommitSend, clientVars
  <2>3. ClientInLine'
    BY <1>1, <2>2 DEF ClientInLine, InLine, Online
  <2>4. \A p \in Nat : Uploaded(p) => Uploaded(p)'
    BY <2>2 DEF Uploaded, Online
  <2> QED
    BY <1>1, <2>1, <2>2, <2>3, <2>4, HostQuiet DEF TypeOK
<1>6. CASE Connect
  <2>1. /\ UNCHANGED <<session, writer, received, espVars, active, queue, host>>
        /\ host = "idle" /\ queue = <<>> /\ client'.pc = "idle"
    BY <1>6 DEF Connect, ClientOff
  <2>2. Adds("abort") /\ ~Online'
    BY <2>1 DEF Adds, Online
  <2>3. ClientInLine' /\ \A p \in Nat : Uploaded(p) => Uploaded(p)'
    BY <2>1, <2>2 DEF ClientInLine, Uploaded
  <2> QED
    BY <1>1, <2>1, <2>2, <2>3, HostQuiet DEF TypeOK
<1>7. CASE ToolStarted \/ CtrlCommit
  <2>1. /\ UNCHANGED <<session, writer, received, espVars, active, queue>>
        /\ host = "idle" /\ host' \in {"idle", "commit"}
        /\ client.pc \in {"starting", "upload"}
        /\ client'.pc \in {"upload", "waiting"}
        /\ client'.sent = client.sent
    BY <1>7
    DEF ToolStarted, CtrlCommit, ToolCommits, Notified, TypeOK
  <2>2. Adds("abort") /\ Online /\ Online'
    BY <2>1 DEF Adds, Online
  <2>3. ClientInLine' /\ \A p \in Nat : Uploaded(p) => Uploaded(p)'
    BY <2>1, <2>2 DEF ClientInLine, Uploaded
  <2> QED
    BY <1>1, <2>1, <2>2, <2>3, HostQuiet DEF TypeOK
<1>8. CASE Data
  <2>1. /\ UNCHANGED <<session, writer, received, espVars, active, queue>>
        /\ host = "idle" /\ host' \in {"idle", "data"}
        /\ client.pc = "upload" /\ client'.pc = "upload"
        /\ client'.sent = client.sent + 1
    BY <1>8 DEF Data, ToolUploads, TypeOK
  <2>2. Adds("abort") /\ Online /\ Online'
    BY <2>1 DEF Adds, Online
  <2>3. client.sent \in Nat
    BY Numbers
  <2>4. ClientInLine' /\ \A p \in Nat : Uploaded(p) => Uploaded(p)'
    BY <2>1, <2>2, <2>3 DEF ClientInLine, Uploaded
  <2> QED
    BY <1>1, <2>1, <2>2, <2>4, HostQuiet DEF TypeOK
<1>9. CASE DataQueueFull
  <2>1. /\ UNCHANGED <<client, session, writer, received, espVars, queue>>
        /\ host = "data" /\ host' = "full" /\ active' = FALSE
    BY <1>9 DEF DataQueueFull
  <2>2. Adds("abort") /\ Online /\ Online'
    BY <1>1, <2>1 DEF Adds, Online, InLine, ClientInLine
  <2>3. ClientInLine' /\ \A p \in Nat : Uploaded(p) => Uploaded(p)'
    BY <2>1, <2>2 DEF ClientInLine, Uploaded, Online
  <2> QED
    BY <1>1, <2>1, <2>2, <2>3, HostQuiet DEF TypeOK
<1> QED
  BY <1>2, <1>3, <1>4, <1>5, <1>6, <1>7, <1>8, <1>9 DEF HostTask, Callback

\* What is left of the queue when its first item is taken.
LEMMA TakesItem ==
    ASSUME TypeOK, queue # <<>>, queue' = Tail(queue)
    PROVE  /\ Len(queue') = Len(queue) - 1 /\ Len(queue) >= 1
           /\ Head(queue) = queue[1]
           /\ \A k \in 1 .. Len(queue') :
                k + 1 \in 1 .. Len(queue) /\ queue'[k] = queue[k + 1]
<1>1. queue \in Seq(OtaChunk)
  BY DEF TypeOK
<1>2. Len(queue) \in Nat \ {0}
  BY <1>1, EmptySeq
<1>3. /\ Len(queue') = Len(queue) - 1
      /\ Head(queue) = queue[1]
      /\ \A k \in 1 .. Len(queue') : queue'[k] = queue[k + 1]
  BY <1>1, HeadTailProperties
<1> QED
  BY <1>2, <1>3

\* ... stands in line as before.
LEMMA LineShortens ==
    ASSUME TypeOK, InLine, queue # <<>>, queue' = Tail(queue),
           UNCHANGED <<client, session, host>>
    PROVE  ClientInLine' /\ QueueInLine'
<1>1. /\ Len(queue') = Len(queue) - 1 /\ Len(queue) >= 1
      /\ \A k \in 1 .. Len(queue') :
           k + 1 \in 1 .. Len(queue) /\ queue'[k] = queue[k + 1]
  BY TakesItem
<1>2. ClientInLine'
  BY DEF InLine, ClientInLine, Online
<1>3. \A p : Uploaded(p)' = Uploaded(p)
  BY DEF Uploaded, Online
<1>4. \A k \in 1 .. Len(queue') :
          /\ queue'[k].sess = session'
          /\ queue'[k].kind = "start" => session' >= 1
          /\ queue'[k].kind = "data" =>
                queue'[k].pos >= 1 /\ Uploaded(queue[k].pos)'
  BY <1>1, <1>3 DEF InLine, QueueInLine, Uploaded, Online
<1>5. \A j, k \in 1 .. Len(queue') :
          j < k /\ queue'[j].kind = "data" /\ queue'[k].kind = "data" =>
              queue'[j].pos < queue'[k].pos
  <2> SUFFICES ASSUME NEW j \in 1 .. Len(queue'), NEW k \in 1 .. Len(queue'),
                      j < k, queue'[j].kind = "data", queue'[k].kind = "data"
               PROVE  queue'[j].pos < queue'[k].pos
    OBVIOUS
  <2>1. j + 1 \in 1 .. Len(queue) /\ k + 1 \in 1 .. Len(queue) /\ j + 1 < k + 1
    BY <1>1
  <2> QED
    BY <1>1, <2>1 DEF InLine, QueueInLine
<1> QED
  BY <1>2, <1>4, <1>5 DEF QueueInLine

\* The writer takes the first in line.  While an older session is still active
\* that is the START of the latest.
LEMMA LineReceive == TypeOK /\ InLine /\ Receive => InLine'
<1> SUFFICES ASSUME TypeOK, InLine, Receive PROVE InLine'
  OBVIOUS
<1>1. /\ writer.pc = "idle" /\ queue # <<>> /\ queue' = Tail(queue)
      /\ writer'.pc = Head(queue).kind /\ writer'.item = Head(queue)
      /\ UNCHANGED <<client, session, host, active, received, handle, flash,
                     boot>>
  BY DEF Receive, WriterAt, clientVars, espVars
<1> DEFINE c == queue[1]
<1>2. /\ Len(queue') = Len(queue) - 1 /\ Len(queue) >= 1 /\ Head(queue) = c
      /\ \A k \in 1 .. Len(queue') :
           k + 1 \in 1 .. Len(queue) /\ queue'[k] = queue[k + 1]
  BY <1>1, TakesItem
<1>3. /\ c \in OtaChunk /\ c.sess = session
      /\ c.kind = "start" => session >= 1
      /\ c.kind = "data" => c.pos >= 1 /\ Uploaded(c.pos)
  BY <1>2, Numbers DEF InLine, QueueInLine
<1>4. c.kind \in Kinds
  BY <1>3 DEF OtaChunk
<1>5. \A k \in 1 .. Len(queue') :
          c.kind = "data" /\ queue'[k].kind = "data" => c.pos < queue'[k].pos
  <2> SUFFICES ASSUME NEW k \in 1 .. Len(queue'), c.kind = "data",
                      queue'[k].kind = "data"
               PROVE  c.pos < queue'[k].pos
    OBVIOUS
  <2>1. /\ 1 \in 1 .. Len(queue) /\ k + 1 \in 1 .. Len(queue) /\ 1 < k + 1
        /\ queue'[k] = queue[k + 1]
    BY <1>2, Numbers
  <2>2. \A i, j \in 1 .. Len(queue) :
          i < j /\ queue[i].kind = "data" /\ queue[j].kind = "data" =>
              queue[i].pos < queue[j].pos
    BY DEF InLine, QueueInLine
  <2> HIDE DEF c
  <2> QED
    BY <2>1, <2>2 DEF c
<1>6. ClientInLine' /\ QueueInLine'
  BY <1>1, LineShortens
<1>7. writer'.item = c /\ writer'.pc = c.kind
  BY <1>1, <1>2
<1>8. host # "drain"
  BY <1>1 DEF InLine, ClientInLine
<1>9. active /\ handle # session => c.kind = "start"
  BY <1>1, <1>8 DEF InLine, FlashInLine, StartNext
<1> HIDE DEF c
<1>10. WriterInLine'
  BY <1>1, <1>3, <1>4, <1>7, Numbers DEF InLine, WriterInLine, Kinds
<1>11. active => (c.kind = "data" => handle = session /\ Follows(c.pos))
  <2> SUFFICES ASSUME active, c.kind = "data"
               PROVE  handle = session /\ Follows(c.pos)
    OBVIOUS
  <2>1. handle = session
    BY <1>9
  <2> QED
    BY <1>2, <2>1 DEF InLine, SessionInLine, c
<1>12. FlashInLine'
  BY <1>1, <1>3, <1>7, <1>9, <1>11 DEF InLine, FlashInLine, Follows
<1>13. SessionInLine'
  <2>1. \A p : Uploaded(p)' = Uploaded(p)
    BY <1>1 DEF Uploaded, Online
  <2> SUFFICES ASSUME active, handle = session
               PROVE  /\ \A i \in 1 .. Len(flash) : Uploaded(flash[i].pos)
                      /\ \A k \in 1 .. Len(queue') :
                           queue'[k].kind = "data" => Follows(queue'[k].pos)
                      /\ c.kind = "data" =>
                           /\ Uploaded(c.pos)
                           /\ \A k \in 1 .. Len(queue') :
                                queue'[k].kind = "data" => c.pos < queue'[k].pos
    BY <1>1, <1>7 DEF SessionInLine, Follows, Uploaded, Online
  <2> QED
    BY <1>2, <1>3, <1>5 DEF InLine, SessionInLine
<1> QED
  BY <1>1, <1>6, <1>10, <1>12, <1>13 DEF InLine, BootIsImage

\* A new handle: the flash holds nothing of any session.
LEMMA LineBegin == TypeOK /\ InLine /\ Begin => InLine'
<1> SUFFICES ASSUME TypeOK, InLine, Begin PROVE InLine'
  OBVIOUS
<1>1. /\ writer.pc = "begin" /\ handle' = writer.item.sess /\ flash' = <<>>
      /\ received' = 0 /\ active' = TRUE
      /\ UNCHANGED <<client, session, host, queue, boot>>
  BY DEF Begin, WriterAt, clientVars
<1>2. writer'.pc = "idle" /\ writer'.item = writer.item
  BY DEF Begin, WriterGoes, TypeOK
<1>3. Len(flash') = 0
  BY <1>1
<1>4. writer.item.sess >= 1 /\ writer.item.sess <= session
      /\ (writer.item.sess # session => StartNext)
  BY <1>1 DEF InLine, WriterInLine
<1>5. StartNext' = StartNext
  BY <1>1 DEF StartNext
<1>6. ClientInLine' /\ QueueInLine'
  BY <1>1 DEF InLine, ClientInLine, QueueInLine, Uploaded, Online
<1>7. WriterInLine'
  BY <1>1, <1>2, <1>4 DEF WriterInLine
<1>8. FlashInLine'
  BY <1>1, <1>2, <1>3, <1>4, <1>5 DEF FlashInLine, Follows
<1>9. SessionInLine'
  BY <1>1, <1>2, <1>3 DEF SessionInLine, Follows
<1> QED
  BY <1>1, <1>6, <1>7, <1>8, <1>9 DEF InLine, BootIsImage

\* A chunk goes from the head of the line to the end of the flash.
LEMMA LineWrite == TypeOK /\ InLine /\ Write => InLine'
<1> SUFFICES ASSUME TypeOK, InLine, Write PROVE InLine'
  OBVIOUS
<1> DEFINE c == [sess |-> writer.item.sess, pos |-> writer.item.pos]
           n == Len(flash)
<1>1. /\ writer.pc = "data" /\ active /\ active' /\ flash' = Append(flash, c)
      /\ received' = received + 1
      /\ UNCHANGED <<client, session, host, queue, handle, boot>>
  BY DEF Write, WriterAt, clientVars
<1>2. writer'.pc = "idle" /\ writer'.item = writer.item
  BY DEF Write, WriterGoes, TypeOK
<1>3. writer.item \in OtaChunk /\ flash \in Seq(Chunk)
  BY DEF TypeOK
<1>4. c \in Chunk /\ c.sess = writer.item.sess /\ c.pos = writer.item.pos
  BY <1>3 DEF OtaChunk, Chunk
<1> HIDE DEF c
<1>5. /\ Len(flash') = n + 1
      /\ \A i \in 1 .. n : flash'[i] = flash[i]
      /\ flash'[n + 1] = c
  BY <1>1, <1>3, <1>4, AppendProperties
<1>6. n \in Nat
  BY Numbers
<1> HIDE DEF n
<1>7. /\ handle >= 1 /\ received = n
      /\ handle # session => StartNext
      /\ \A i \in 1 .. n : flash[i].sess = handle /\ flash[i].pos >= i
      /\ \A i, j \in 1 .. n : i <= j => flash[j].pos >= flash[i].pos + (j - i)
      /\ c.sess = handle /\ (\A i \in 1 .. n : flash[i].pos < c.pos)
      /\ c.pos >= 1
  BY <1>1, <1>4 DEF InLine, FlashInLine, WriterInLine, Follows, n
<1>8. c.pos \in Nat /\ (\A i \in 1 .. n : flash[i].pos \in Nat)
  BY <1>4, Numbers DEF n
<1>9. c.pos >= n + 1
  BY <1>6, <1>7, <1>8
<1>10. \A i \in 1 .. n + 1 :
          \/ i \in 1 .. n /\ flash'[i] = flash[i]
          \/ i = n + 1 /\ flash'[i] = c
  BY <1>5, <1>6
<1>11. \A i \in 1 .. n + 1 : flash'[i].sess = handle /\ flash'[i].pos >= i
  BY <1>7, <1>9, <1>10
<1>12. \A i, j \in 1 .. n + 1 :
          i <= j => flash'[j].pos >= flash'[i].pos + (j - i)
  <2> SUFFICES ASSUME NEW i \in 1 .. n + 1, NEW j \in 1 .. n + 1, i <= j
               PROVE  flash'[j].pos >= flash'[i].pos + (j - i)
    OBVIOUS
  <2>1. CASE j \in 1 .. n
    BY <1>5, <1>6, <1>7, <2>1
  <2>2. CASE j = n + 1 /\ i = n + 1
    BY <1>5, <1>6, <1>8, <2>2
  <2>3. CASE j = n + 1 /\ i \in 1 .. n
    <3>1. /\ flash'[j] = c /\ flash'[i] = flash[i] /\ n \in 1 .. n
          /\ i <= n
      BY <1>5, <1>6, <2>3
    <3>2. flash[n].pos >= flash[i].pos + (n - i) /\ flash[n].pos < c.pos
      BY <1>7, <2>3, <3>1
    <3>3. flash[n].pos \in Nat /\ flash[i].pos \in Nat
      BY <1>8, <2>3, <3>1
    <3>4. c.pos >= flash[i].pos + (n + 1 - i)
      BY <1>6, <1>8, <3>2, <3>3
    <3> QED
      BY <2>3, <3>1, <3>4
  <2> QED
    BY <1>6, <2>1, <2>2, <2>3
<1>13. StartNext' = StartNext /\ \A p : Uploaded(p)' = Uploaded(p)
  BY <1>1 DEF StartNext, Uploaded, Online
<1>14. ClientInLine' /\ QueueInLine'
  BY <1>1 DEF InLine, ClientInLine, QueueInLine, Uploaded, Online
<1>15. WriterInLine'
  BY <1>1, <1>2 DEF InLine, WriterInLine
<1>16. FlashInLine'
  BY <1>1, <1>2, <1>5, <1>6, <1>7, <1>11, <1>12, <1>13 DEF FlashInLine
<1>17. SessionInLine'
  <2> SUFFICES ASSUME handle = session
               PROVE  /\ \A i \in 1 .. n + 1 : Uploaded(flash'[i].pos)
                      /\ \A k \in 1 .. Len(queue) :
                           queue[k].kind = "data" =>
                             \A i \in 1 .. n + 1 : flash'[i].pos < queue[k].pos
    BY <1>1, <1>2, <1>5 DEF SessionInLine, Follows, Uploaded, Online
  <2>1. /\ \A i \in 1 .. n : Uploaded(flash[i].pos)
        /\ Uploaded(c.pos)
        /\ \A k \in 1 .. Len(queue) :
             queue[k].kind = "data" =>
               /\ \A i \in 1 .. n : flash[i].pos < queue[k].pos
               /\ c.pos < queue[k].pos
    BY <1>1, <1>4 DEF InLine, SessionInLine, Follows, n
  <2> QED
    BY <1>10, <2>1
<1> QED
  BY <1>1, <1>14, <1>15, <1>16, <1>17 DEF InLine, BootIsImage

\* A flash as long as the image holds the image: its places rise from 1 on and
\* cannot rise further than the last.
LEMMA WholeImage ==
    ASSUME TypeOK, InLine, active, received = expected
    PROVE  flash = <<>> \/ \E s \in Sessions : flash = Image(s)
<1>1. /\ handle >= 1 /\ Len(flash) = expected
      /\ \A i \in 1 .. Len(flash) : flash[i].sess = handle /\ flash[i].pos >= i
      /\ \A i, j \in 1 .. Len(flash) :
           i <= j => flash[j].pos >= flash[i].pos + (j - i)
  BY DEF InLine, FlashInLine
<1>2. flash \in Seq(Chunk) /\ expected \in {0, NChunks}
      /\ handle \in 0 .. MaxSessions
  BY DEF TypeOK
<1>3. CASE expected = 0
  BY <1>1, <1>2, <1>3, EmptySeq
<1>4. CASE expected = NChunks
  <2>1. NChunks \in Nat \ {0} /\ MaxSessions \in Nat
    BY OtaAssumption
  <2>2. handle \in Sessions
    BY <1>1, <1>2, <2>1 DEF Sessions
  <2>3. Len(flash) = NChunks
    BY <1>1, <1>4
  <2>4. \A i \in 1 .. NChunks : flash[i] = [sess |-> handle, pos |-> i]
    <3> SUFFICES ASSUME NEW i \in 1 .. NChunks
                 PROVE  flash[i] = [sess |-> handle, pos |-> i]
      OBVIOUS
    <3>1. NChunks \in 1 .. NChunks /\ i <= NChunks
      BY <2>1
    <3>2. flash[NChunks].pos >= flash[i].pos + (NChunks - i)
      BY <1>1, <2>3, <3>1
    <3>3. flash[i].pos \in Nat /\ flash[NChunks].pos \in Nat
          /\ flash[NChunks].pos <= NChunks
      BY <2>3, <3>1, Numbers
    <3>4. flash[i].pos >= i /\ flash[i].sess = handle
      BY <1>1, <2>3
    <3>5. flash[i].pos = i
      BY <2>1, <3>2, <3>3, <3>4
    <3>6. flash[i] \in Chunk
      BY <1>2, <2>3, ElementOfSeq
    <3> QED
      BY <3>4, <3>5, <3>6 DEF Chunk
  <2>5. flash = [i \in 1 .. NChunks |-> flash[i]]
    BY <1>2, <2>3
  <2>6. flash = Image(handle)
    BY <2>4, <2>5 DEF Image
  <2> QED
    BY <2>2, <2>6
<1> QED
  BY <1>2, <1>3, <1>4

LEMMA LineWriter == TypeOK /\ InLine /\ WriterTask => InLine'
<1> SUFFICES ASSUME TypeOK, InLine, WriterTask PROVE InLine'
  OBVIOUS
<1>pc. ASSUME NEW pc, WriterGoes(pc)
       PROVE  writer'.pc = pc /\ writer'.item = writer.item
  BY <1>pc DEF WriterGoes, TypeOK
<1>nt. ASSUME NEW status, client' = Notified(client, status)
       PROVE  client'.pc = client.pc /\ client'.sent = client.sent
  BY <1>nt DEF Notified, TypeOK
<1>1. CASE Receive \/ Begin \/ Write
  BY <1>1, LineReceive, LineBegin, LineWrite
<1>2. CASE StartAborts \/ Abort
  <2>1. ~active' /\ UNCHANGED <<client, session, host, queue, handle, boot>>
    BY <1>2 DEF StartAborts, Abort, CloseHandle, clientVars
  <2>2. BootIsImage'
    BY <2>1 DEF InLine, BootIsImage
  <2>3. /\ writer'.item = writer.item
        /\ writer'.pc = "drain" \/ (writer'.pc = "begin" /\ writer.pc = "start")
    BY <1>2, <1>pc DEF StartAborts, Abort, WriterAt
  <2> QED
    BY <2>1, <2>2, <2>3, WriterCloses
<1>3. CASE BeginFails \/ WriteSkipped \/ Drained
  <2>1. ~active' /\ UNCHANGED <<session, host, queue, handle, boot>>
    BY <1>3 DEF BeginFails, WriteSkipped, Drained, WriterAt, clientVars,
                espVars, InLine, WriterInLine
  <2>2. BootIsImage'
    BY <2>1 DEF InLine, BootIsImage
  <2>3. writer'.item = writer.item /\ writer'.pc = "idle"
    BY <1>3, <1>pc DEF BeginFails, WriteSkipped, Drained
  <2>4. client'.pc = client.pc /\ client'.sent = client.sent
    BY <1>3, <1>nt DEF BeginFails, WriteSkipped, Drained, clientVars
  <2> QED
    BY <2>1, <2>2, <2>3, <2>4, WriterCloses
<1>4. CASE WriteFails \/ CommitRejected \/ CommitFails
  <2>1. ~active' /\ UNCHANGED <<session, host, queue, handle, boot>>
    BY <1>4 DEF WriteFails, CommitRejected, CommitFails, CloseHandle
  <2>2. BootIsImage'
    BY <2>1 DEF InLine, BootIsImage
  <2>3. writer'.item = writer.item /\ writer'.pc \in {"idle", "drain"}
    BY <1>4, <1>pc DEF WriteFails, CommitRejected, CommitFails
  <2>4. client'.pc = client.pc /\ client'.sent = client.sent
    BY <1>4, <1>nt DEF WriteFails, CommitRejected, CommitFails
  <2> QED
    BY <2>1, <2>2, <2>3, <2>4, WriterCloses
<1>5. CASE Commit
  <2>1. ~active' /\ UNCHANGED <<session, host, queue, handle>>
        /\ boot' = flash /\ active /\ received = expected
    BY <1>5 DEF Commit, CloseHandle
  <2>2. BootIsImage'
    BY <2>1, WholeImage DEF BootIsImage
  <2>3. writer'.item = writer.item /\ writer'.pc = "restart"
    BY <1>5, <1>pc DEF Commit
  <2>4. client'.pc = client.pc /\ client'.sent = client.sent
    BY <1>5, <1>nt DEF Commit
  <2> QED
    BY <2>1, <2>2, <2>3, <2>4, WriterCloses
<1>6. CASE Restart
  <2>1. /\ client'.pc = "offline" /\ host' = "idle" /\ queue' = <<>>
        /\ writer'.pc = "idle" /\ writer'.item.sess = 0
        /\ ~active' /\ handle' = 0 /\ UNCHANGED <<session, boot>>
    BY <1>6 DEF Restart, Reset, ClientOff, NoItem, Item
  <2>2. session \in Nat /\ Len(queue') = 0
    BY <2>1, Numbers
  <2>3. ClientInLine' /\ QueueInLine'
    BY <2>1, <2>2 DEF ClientInLine, QueueInLine
  <2>4. WriterInLine'
    BY <2>1, <2>2 DEF WriterInLine
  <2> QED
    BY <2>1, <2>3, <2>4 DEF InLine, FlashInLine, SessionInLine, BootIsImage
<1>7. CASE Drain
  <2>1. /\ writer.pc = "drain" /\ queue # <<>> /\ queue' = Tail(queue)
        /\ UNCHANGED <<client, session, host, writer, active, handle, boot>>
    BY <1>7 DEF Drain, WriterAt, clientVars, espVars
  <2>2. ~active
    BY <2>1 DEF InLine, WriterInLine
  <2>3. ClientInLine' /\ QueueInLine'
    BY <2>1, LineShortens
  <2>4. WriterInLine'
    BY <2>1 DEF InLine, WriterInLine
  <2> QED
    BY <2>1, <2>2, <2>3, <2>4
    DEF InLine, FlashInLine, SessionInLine, BootIsImage
<1> QED
  BY <1>1, <1>2, <1>3, <1>4, <1>5, <1>6, <1>7 DEF WriterTask

LEMMA UploadInit == Init => UploadInv
<1> SUFFICES ASSUME Init PROVE UploadInv
  OBVIOUS
<1>1. /\ client.pc = "offline" /\ session = 0 /\ host = "idle" /\ queue = <<>>
      /\ writer.pc = "idle" /\ writer.item.sess = 0 /\ active = FALSE
      /\ handle = 0 /\ boot = <<>>
  BY DEF Init, ClientOff, NoItem, Item
<1>2. ClientInLine /\ QueueInLine /\ WriterInLine
  BY <1>1 DEF ClientInLine, QueueInLine, WriterInLine
<1> QED
  BY <1>1, <1>2, TypeInit
  DEF UploadInv, InLine, FlashInLine, SessionInLine, BootIsImage

LEMMA UploadStep == UploadInv /\ [Next]_vars => UploadInv'
<1> SUFFICES ASSUME UploadInv, [Next]_vars PROVE UploadInv'
  OBVIOUS
<1>1. TypeOK /\ TypeOK' /\ (~lagged => InLine)
  BY TypeStep DEF UploadInv
<1>2. ~lagged' => InLine'
  <2> SUFFICES ASSUME ~lagged' PROVE InLine'
    OBVIOUS
  <2>1. CASE HostTask
    BY <1>1, <2>1, LineHost
  <2>2. CASE WriterTask
    <3>1. UNCHANGED lagged
      BY <2>2
      DEF WriterTask, Receive, StartAborts, Begin, BeginFails, WriteSkipped,
          Write, WriteFails, CommitRejected, CommitFails, Commit, Restart,
          Reset, Abort, Drain, Drained, clientVars
    <3> QED
      BY <1>1, <2>2, <3>1, LineWriter
  <2>3. CASE UNCHANGED vars
    BY <1>1, <2>3
    DEF vars, clientVars, espVars, InLine, ClientInLine, QueueInLine,
        WriterInLine, FlashInLine, SessionInLine, BootIsImage, Uploaded,
        Online, StartNext, Follows
  <2> QED
    BY <2>1, <2>2, <2>3 DEF Next
<1> QED
  BY <1>1, <1>2 DEF UploadInv

\* main.cpp:319-322, 232-240: whatever an upload that was cut off has left in the
\* queue, the handle gets the chunks of one upload, in order, for any image,
\* queue depth and number of sessions.
THEOREM OneUploadAlways == Spec => []OneUploadInFlash
<1>1. UploadInv => OneUploadInFlash
  <2> SUFFICES ASSUME UploadInv, active, ~lagged
               PROVE  /\ received = Len(flash)
                      /\ \A i \in 1 .. Len(flash) : flash[i].sess = handle
                      /\ \A i, j \in 1 .. Len(flash) :
                           i < j => flash[i].pos < flash[j].pos
    BY DEF OneUploadInFlash
  <2>1. /\ received = Len(flash)
        /\ \A i \in 1 .. Len(flash) : flash[i].sess = handle
        /\ \A i, j \in 1 .. Len(flash) :
             i <= j => flash[j].pos >= flash[i].pos + (j - i)
    BY DEF UploadInv, InLine, FlashInLine
  <2>2. \A i \in 1 .. Len(flash) : i \in Nat /\ flash[i].pos \in Nat
    BY Numbers DEF UploadInv
  <2>3. ASSUME NEW i \in 1 .. Len(flash), NEW j \in 1 .. Len(flash), i < j
        PROVE  flash[i].pos < flash[j].pos
    BY <2>1, <2>2, <2>3
  <2> QED
    BY <2>1, <2>3
<1> QED
  BY <1>1, UploadInit, UploadStep, PTL DEF Spec

\* main.cpp:257: the size check is enough for the image made bootable to be
\* whole and of one upload.
THEOREM BootsWholeAlways == Spec => []BootsWholeImage
<1>1. UploadInv => BootsWholeImage
  BY DEF UploadInv, InLine, BootIsImage, BootsWholeImage
<1> QED
  BY <1>1, UploadInit, UploadStep, PTL DEF Spec

-----------------------------------------------------------------------------
(* What stands in the queue, also for a client that does not keep the pace *)
(* of the writer.                                                          *)

\* A START comes after the size was announced, a chunk has a place in the image.
Sound(c, size) ==
    /\ c.kind = "start" => size = NChunks
    /\ c.kind = "data" => c.pos >= 1

ItemsInv ==
    /\ active \/ host = "drain" \/ writer.pc \in {"start", "begin"}
         => expected = NChunks
    /\ \A k \in 1 .. Len(queue) : Sound(queue[k], expected)
    /\ host = "data" => client.sent >= 1
    /\ writer.pc = "data" => writer.item.pos >= 1

\* Whether an item is sent, dropped or taken, the others stay sound.
LEMMA ItemsStay ==
    ASSUME TypeOK, ItemsInv, NEW c \in OtaChunk, Sound(c, expected),
           expected' = expected,
           \/ queue' = queue
           \/ queue' = Append(queue, c)
           \/ queue # <<>> /\ queue' = Tail(queue)
    PROVE  \A k \in 1 .. Len(queue') : Sound(queue'[k], expected')
<1>1. queue \in Seq(OtaChunk)
  BY DEF TypeOK
<1>2. \A k \in 1 .. Len(queue) : Sound(queue[k], expected)
  BY DEF ItemsInv
<1>3. CASE queue' = queue
  BY <1>2, <1>3
<1>4. CASE queue' = Append(queue, c)
  <2>1. \A k \in 1 .. Len(queue') : queue'[k] = c \/
            (k \in 1 .. Len(queue) /\ queue'[k] = queue[k])
    BY <1>1, <1>4, AppendProperties
  <2> QED
    BY <1>2, <2>1
<1>5. CASE queue # <<>> /\ queue' = Tail(queue)
  <2>1. \A k \in 1 .. Len(queue') :
            k + 1 \in 1 .. Len(queue) /\ queue'[k] = queue[k + 1]
    BY <1>5, TakesItem
  <2> QED
    BY <1>2, <2>1
<1> QED
  BY <1>3, <1>4, <1>5

LEMMA ItemsInit == Init => ItemsInv
  BY DEF Init, ItemsInv

LEMMA ItemsHost == TypeOK /\ ItemsInv /\ HostTask => ItemsInv'
<1> SUFFICES ASSUME TypeOK, ItemsInv, HostTask PROVE ItemsInv'
  OBVIOUS
<1>1. UNCHANGED writer
  BY DEF HostTask, Callback, Connect, Disconnect, CtrlStart, CtrlStartDrain,
         CtrlStartSend, Data, DataSend, DataQueueFull, DataAbortSend,
         CtrlCommit, CtrlCommitSend, CtrlAbort, ToolStarted
<1>2. \A k \in {"abort", "commit"} :
          Item(k, session, 0) \in OtaChunk /\ Sound(Item(k, session, 0), expected)
  <2>1. 0 \in 0 .. NChunks
    BY OtaAssumption
  <2> QED
    BY <2>1, ItemType DEF Item, Sound, Kinds, TypeOK
<1>3. CASE Connect \/ ToolStarted \/ CtrlCommit \/ DataQueueFull
  <2>1. UNCHANGED <<expected, queue>> /\ host' \in {"idle", "commit", "full"}
    BY <1>3 DEF Connect, ToolStarted, CtrlCommit, DataQueueFull
  <2>2. active' => active
    BY <1>3 DEF Connect, ToolStarted, CtrlCommit, DataQueueFull
  <2> QED
    BY <1>1, <2>1, <2>2 DEF ItemsInv
<1>4. CASE CtrlStart
  BY <1>1, <1>4 DEF CtrlStart, ItemsInv, Sound
<1>5. CASE CtrlStartDrain
  <2>1. /\ queue # <<>> /\ queue' = Tail(queue)
        /\ UNCHANGED <<client, host, active, expected>>
    BY <1>5 DEF CtrlStartDrain, clientVars
  <2>2. \A k \in 1 .. Len(queue') : Sound(queue'[k], expected')
    BY <1>2, <2>1, ItemsStay
  <2> QED
    BY <1>1, <2>1, <2>2 DEF ItemsInv
<1>6. CASE CtrlStartSend
  <2>1. /\ host = "drain" /\ queue' = <<Item("start", session, 0)>>
        /\ host' = "idle" /\ UNCHANGED <<active, expected>>
    BY <1>6 DEF CtrlStartSend
  <2>2. expected = NChunks
    BY <2>1 DEF ItemsInv
  <2>3. \A k \in 1 .. Len(queue') : Sound(queue'[k], expected')
    BY <2>1, <2>2 DEF Sound, Item
  <2> QED
    BY <1>1, <2>1, <2>2, <2>3 DEF ItemsInv
<1>7. CASE Data
  <2>1. client'.sent = client.sent + 1 /\ host' \in {"data", "idle"}
        /\ UNCHANGED <<queue, active, expected>>
    BY <1>7 DEF Data, ToolUploads, TypeOK
  <2>2. client'.sent >= 1
    BY <2>1, Numbers
  <2> QED
    BY <1>1, <2>1, <2>2 DEF ItemsInv
<1>8. CASE DataSend
  <2> DEFINE c == Item("data", session, client.sent)
  <2>1. /\ host = "data" /\ queue' = Append(queue, c) /\ host' = "idle"
        /\ UNCHANGED <<active, expected>>
    BY <1>8 DEF DataSend
  <2>2. c \in OtaChunk
    BY ItemType DEF TypeOK, Kinds
  <2>3. Sound(c, expected)
    BY <2>1 DEF ItemsInv, Sound, Item
  <2>4. \A k \in 1 .. Len(queue') : Sound(queue'[k], expected')
    BY <2>1, <2>2, <2>3, ItemsStay
  <2> QED
    BY <1>1, <2>1, <2>4 DEF ItemsInv
<1>9. CASE DataAbortSend \/ CtrlCommitSend \/ CtrlAbort \/ Disconnect
  <2>1. /\ host' = "idle" /\ UNCHANGED <<active, expected>>
        /\ \E k \in {"abort", "commit"} :
              queue' \in {queue, Append(queue, Item(k, session, 0))}
    BY <1>9 DEF DataAbortSend, CtrlCommitSend, CtrlAbort, Disconnect, SendOrDrop
  <2>2. \A k \in 1 .. Len(queue') : Sound(queue'[k], expected')
    BY <1>2, <2>1, ItemsStay
  <2> QED
    BY <1>1, <2>1, <2>2 DEF ItemsInv
<1> QED
  BY <1>3, <1>4, <1>5, <1>6, <1>7, <1>8, <1>9 DEF HostTask, Callback

LEMMA ItemsReset == Reset => ItemsInv'
  BY DEF Reset, ItemsInv

LEMMA ItemsWriter == TypeOK /\ ItemsInv /\ WriterTask => ItemsInv'
<1> SUFFICES ASSUME TypeOK, ItemsInv, WriterTask PROVE ItemsInv'
  OBVIOUS
<1>1. CASE Restart
  BY <1>1, ItemsReset DEF Restart
<1>2. CASE Receive \/ Drain
  <2> DEFINE c == Head(queue)
  <2>1. /\ queue # <<>> /\ queue' = Tail(queue)
        /\ UNCHANGED <<client, host, active, expected>>
        /\ \/ writer'.pc = c.kind /\ writer'.item = c
           \/ writer.pc = "drain" /\ writer' = writer
    BY <1>2 DEF Receive, Drain, WriterAt, clientVars
  <2>2. c \in OtaChunk /\ c = queue[1] /\ 1 \in 1 .. Len(queue)
    BY <2>1, TakesItem DEF TypeOK
  <2>3. Sound(c, expected)
    BY <2>2 DEF ItemsInv
  <2>4. \A k \in 1 .. Len(queue') : Sound(queue'[k], expected')
    BY <2>1, <2>2, <2>3, ItemsStay
  <2>5. c.kind \in Kinds
    BY <2>2 DEF OtaChunk
  <2> HIDE DEF c
  <2> QED
    BY <2>1, <2>3, <2>4, <2>5 DEF ItemsInv, Sound, Kinds
<1>3. CASE ~(Restart \/ Receive \/ Drain)
  <2>1. UNCHANGED <<host, expected, queue>> /\ client'.sent = client.sent
    BY <1>3
    DEF WriterTask, StartAborts, Begin, BeginFails, WriteSkipped, Write,
        WriteFails, CommitRejected, CommitFails, Commit, Abort, Drained,
        clientVars, Notified, TypeOK
  <2>2. /\ writer'.pc \in {"idle", "begin", "drain", "restart"}
        /\ active' => active \/ writer.pc = "begin"
        /\ writer'.pc = "begin" => writer.pc = "start"
    BY <1>3
    DEF WriterTask, StartAborts, Begin, BeginFails, WriteSkipped, Write,
        WriteFails, CommitRejected, CommitFails, Commit, Abort, Drained,
        WriterGoes, WriterAt, CloseHandle, TypeOK
  <2> QED
    BY <2>1, <2>2 DEF ItemsInv
<1> QED
  BY <1>1, <1>2, <1>3

-----------------------------------------------------------------------------
(* Both channels: the invariants *)

\* The partition that runs is whole, and while a new image is unconfirmed so is
\* the one before it: nothing is written before setup() has confirmed it.
BootInv ==
    /\ running \in Slots /\ next \in Slots
    /\ slot = [s \in Slots |-> slot[s]]
    /\ ~up => web = WebIdle /\ writer.pc = "idle"
    /\ pending => ~up /\ Whole(Target)
    /\ Whole(running)

\* How far the HTTPS upload is, if nobody else has written since it began.
Progress ==
    /\ web.pc = "erase" =>
        \A q \in Places : q <= web.pos => slot[Target][q] = Erased
    /\ web.pc = "recv" =>
        \A q \in Places : slot[Target][q] = IF q <= web.pos
                                            THEN [file |-> "web", pos |-> q]
                                            ELSE Erased
    /\ web.pc \in {"end", "select"} => slot[Target] = Firmware("web")

\* The selected image is the tool's until something undoes that; it is not yet
\* running only while the device is about to restart, and the tool does not ask
\* before it has.
GoodInv ==
    /\ alone = [c \in Channels |-> alone[c]]
    /\ web.pc \in {"erase", "recv"} => web.pos \in 0 .. NChunks - 1
    /\ alone["web"] => Progress
    /\ good => slot[next] = Firmware("web")
    /\ good /\ next # running => web.pc = "restart"
    /\ tool = "waiting"  => web.pc \in {"idle", "restart"}
    /\ tool = "complete" => web.pc = "idle"

ChanInv == BootInv /\ GoodInv

-----------------------------------------------------------------------------
(* Partitions *)

LEMMA TargetIsOther ==
    ASSUME running \in Slots
    PROVE  /\ Target \in Slots /\ Target # running
           /\ \A s \in Slots : s = running \/ s = Target
<1>1. \E s \in Slots : s # running
  BY DEF Slots
<1>2. Target \in Slots /\ Target # running
  BY <1>1 DEF Target
<1> QED
  BY <1>2 DEF Slots

\* What Touch leaves: the partition that runs is as it was.
LEMMA TouchLeaves ==
    ASSUME BootInv, NEW c, NEW p, NEW cell, Touch(c, p, cell),
           UNCHANGED <<running, next>>
    PROVE  /\ slot' = [s \in Slots |-> slot'[s]]
           /\ slot'[running] = slot[running]
           /\ slot'[Target] = [q \in Places |-> IF q = p THEN cell
                                               ELSE slot[Target][q]]
           /\ Target' = Target
<1>1. running \in Slots /\ slot = [s \in Slots |-> slot[s]]
  BY DEF BootInv
<1>2. Target \in Slots /\ Target # running
  BY <1>1, TargetIsOther
<1>3. slot' = [slot EXCEPT ![Target] = [q \in Places |-> IF q = p THEN cell
                                                        ELSE slot[Target][q]]]
  BY DEF Touch
<1>4. Target' = Target
  BY DEF Target
<1> HIDE DEF Touch
<1> QED
  BY <1>1, <1>2, <1>3, <1>4

\* Nothing but a reset, and the end of setup(), happens before setup() ends.
LEMMA NeedsUp ==
    ASSUME BootInv,
           \/ BleOther \/ BleBegin \/ BleWrite \/ BleWriteFails \/ BleCommit
           \/ Post \/ WebErase \/ WebWrite \/ WebFails \/ WebEnd \/ WebSelect
    PROVE  up /\ ~pending
<1>1. CASE BleOther
  BY <1>1 DEF BleOther, BootInv
<1>2. CASE BleBegin \/ BleWrite \/ BleWriteFails \/ BleCommit
  <2>1. writer.pc \in {"begin", "data", "commit"}
    BY <1>2 DEF BleBegin, BleWrite, BleWriteFails, BleCommit, Begin, Write,
                WriteFails, Commit, WriterAt
  <2> QED
    BY <2>1 DEF BootInv
<1>3. CASE Post
  BY <1>3 DEF Post, BootInv
<1>4. CASE WebErase \/ WebWrite \/ WebFails \/ WebEnd \/ WebSelect
  <2>1. web.pc \in {"erase", "recv", "end", "select"}
    BY <1>4 DEF WebErase, WebWrite, WebFails, WebEnd, WebSelect
  <2>2. web # WebIdle
    BY <2>1 DEF WebIdle
  <2> QED
    BY <2>2 DEF BootInv
<1> QED
  BY <1>1, <1>2, <1>3, <1>4

LEMMA BootInit == CInit => BootInv
<1> SUFFICES ASSUME CInit PROVE BootInv
  OBVIOUS
<1>1. running = "app0" /\ next = "app0" /\ up = TRUE /\ pending = FALSE
  BY DEF CInit
<1>2. slot = [app0 |-> Firmware("factory"), app1 |-> [p \in Places |-> Erased]]
  BY DEF CInit
<1>3. slot[running] = Firmware("factory") /\ slot = [s \in Slots |-> slot[s]]
  BY <1>1, <1>2 DEF Slots
<1> QED
  BY <1>1, <1>3 DEF BootInv, Whole, Slots, Channels

\* The bootloader: whichever of its three choices it makes.
LEMMA BootBoots == BootInv /\ Boot => BootInv'
<1> SUFFICES ASSUME BootInv, Boot PROVE BootInv'
  OBVIOUS
<1>1. /\ writer'.pc = "idle" /\ web' = WebIdle /\ up' = FALSE /\ slot' = slot
      /\ running \in Slots /\ next \in Slots /\ slot = [s \in Slots |-> slot[s]]
  BY DEF Boot, Reset, BootInv
<1>2. /\ Target \in Slots /\ Target # running
      /\ \A s \in Slots : s = running \/ s = Target
  BY <1>1, TargetIsOther
<1>3. CASE pending
  <2>1. running' = Target /\ next' = Target /\ pending' = FALSE
    BY <1>3 DEF Boot, BootInto
  <2>2. Whole(Target)
    BY <1>3 DEF BootInv
  <2>3. Whole(running)'
    BY <1>1, <2>1, <2>2 DEF Whole
  <2> QED
    BY <1>1, <1>2, <2>1, <2>3 DEF BootInv
<1>4. CASE ~pending /\ next # running /\ Whole(next)
  <2>1. running' = next /\ next' = next /\ pending' = TRUE
    BY <1>4 DEF Boot, BootInto
  <2>2. running' \in Slots
    BY <1>1, <2>1
  <2>3. Target' = running
    <3>1. Target' = CHOOSE s \in Slots : s # next
      BY <2>1 DEF Target
    <3>2. running \in Slots /\ running # next
      BY <1>1, <1>4
    <3>3. Target' \in Slots /\ Target' # next
      BY <3>1, <3>2
    <3> QED
      BY <1>1, <3>2, <3>3 DEF Slots
  <2>4. Whole(running)' /\ Whole(Target)'
    BY <1>1, <1>4, <2>1, <2>3 DEF Whole, BootInv
  <2> QED
    BY <1>1, <2>1, <2>2, <2>4 DEF BootInv
<1>5. CASE ~pending /\ ~(next # running /\ Whole(next))
  <2>1. running' = running /\ next' = running /\ pending' = FALSE
    BY <1>5 DEF Boot, BootInto
  <2>2. Whole(running)'
    BY <1>1, <2>1 DEF Whole, BootInv
  <2> QED
    BY <1>1, <2>1, <2>2 DEF BootInv
<1> QED
  BY <1>3, <1>4, <1>5

LEMMA BootStep == BootInv /\ [CNext]_cvars => BootInv'
<1> SUFFICES ASSUME BootInv, [CNext]_cvars PROVE BootInv'
  OBVIOUS
<1>1. CASE BleWrite \/ BleWriteFails \/ WebErase \/ WebWrite
  <2>1. up /\ ~pending
    BY <1>1, NeedsUp
  <2>2. UNCHANGED <<running, next, pending, up>>
    BY <1>1 DEF BleWrite, BleWriteFails, WebErase, WebWrite
  <2>3. \E c, p, cell : Touch(c, p, cell)
    BY <1>1 DEF BleWrite, BleWriteFails, WebErase, WebWrite
  <2>4. slot' = [s \in Slots |-> slot'[s]] /\ slot'[running] = slot[running]
    BY <2>2, <2>3, TouchLeaves
  <2> QED
    BY <2>1, <2>2, <2>4 DEF BootInv, Whole
<1>2. CASE \/ BleOther \/ BleBegin \/ Post \/ WebFails \/ WebEnd
  <2>1. up /\ ~pending
    BY <1>2, NeedsUp
  <2>2. UNCHANGED flashVars
    BY <1>2 DEF BleOther, BleBegin, Post, WebFails, WebEnd, chanVars
  <2> QED
    BY <2>1, <2>2 DEF BootInv, Whole, flashVars
<1>3. CASE BleCommit \/ WebSelect
  <2>1. up /\ ~pending
    BY <1>3, NeedsUp
  <2>2. UNCHANGED <<slot, running, pending, up>> /\ next' \in {next, Target}
    BY <1>3 DEF BleCommit, WebSelect
  <2>3. next' \in Slots
    BY <2>2, TargetIsOther DEF BootInv
  <2> QED
    BY <2>1, <2>2, <2>3 DEF BootInv, Whole
<1>4. CASE ToolGivesUp \/ ToolOnline
  <2>1. UNCHANGED <<vars, web, flashVars>>
    BY <1>4 DEF ToolGivesUp, ToolOnline
  <2>2. UNCHANGED <<slot, running, next, pending, up, web, writer>>
    BY <2>1 DEF flashVars, vars
  <2>3. Target' = Target
    BY <2>2 DEF Target
  <2> QED
    BY <2>2, <2>3 DEF BootInv, Whole
<1>5. CASE ChannelRestarts \/ PowerLoss
  <2>1. Boot
    BY <1>5 DEF ChannelRestarts, PowerLoss
  <2> QED
    BY <2>1, BootBoots
<1>6. CASE Setup
  <2>1. up' = TRUE /\ pending' = FALSE /\ UNCHANGED <<slot, running, next>>
    BY <1>6 DEF Setup
  <2> QED
    BY <2>1 DEF BootInv, Whole
<1>7. CASE UNCHANGED cvars
  <2>1. UNCHANGED <<slot, running, next, pending, up, web, writer>>
    BY <1>7 DEF cvars, chanVars, flashVars, vars
  <2>2. Target' = Target
    BY <2>1 DEF Target
  <2> QED
    BY <2>1, <2>2 DEF BootInv, Whole
<1> QED
  BY <1>1, <1>2, <1>3, <1>4, <1>5, <1>6, <1>7 DEF CNext

\* However the channels and the losses of power interleave, what runs changes
\* at a reset only, to a whole image that was selected, or back while the new
\* one is unconfirmed.
THEOREM OnlyAcceptedRuns == CSpec => RunsWhatWasAccepted
<1>1. BootInv /\ [CNext]_cvars =>
        [running' # running =>
          /\ next = running' \/ (pending /\ ~up)
          /\ slot'[running'] \in {Firmware(f) : f \in Channels \cup {"factory"}}]_cvars
  <2> SUFFICES ASSUME BootInv, CNext, running' # running
               PROVE  /\ next = running' \/ (pending /\ ~up)
                      /\ slot'[running'] \in
                            {Firmware(f) : f \in Channels \cup {"factory"}}
    OBVIOUS
  <2>1. Boot
    BY DEF CNext, BleOther, BleBegin, BleWrite, BleWriteFails, BleCommit, Post,
           WebErase, WebWrite, WebFails, WebEnd, WebSelect, ToolGivesUp,
           ToolOnline, ChannelRestarts, PowerLoss, Setup, chanVars, flashVars
  <2>2. slot' = slot
    BY <2>1 DEF Boot
  <2>3. slot'[running'] \in {Firmware(f) : f \in Channels \cup {"factory"}}
    <3>1. Whole(running)'
      BY <2>1, BootBoots DEF BootInv
    <3> QED
      BY <3>1 DEF Whole
  <2>4. next = running' \/ (pending /\ ~up)
    BY <2>1 DEF Boot, BootInto, BootInv
  <2> QED
    BY <2>3, <2>4
<1> QED
  BY <1>1, BootInit, BootStep, PTL DEF CSpec, RunsWhatWasAccepted

-----------------------------------------------------------------------------
(* The update the tool reports *)

LEMMA GoodInit == CInit => GoodInv
<1> SUFFICES ASSUME CInit PROVE GoodInv
  OBVIOUS
<1>1. /\ good = FALSE /\ web.pc = "idle" /\ tool = "ready"
      /\ alone = [c \in Channels |-> FALSE]
  BY DEF CInit, WebIdle
<1>2. alone["web"] = FALSE
  BY <1>1 DEF Channels
<1> QED
  BY <1>1, <1>2 DEF GoodInv

\* A write to the other partition by one channel: what is selected and runs is
\* not touched, and only the HTTPS channel keeps its own claim.
LEMMA TouchKeepsGood ==
    ASSUME BootInv, GoodInv, NEW c \in Channels, NEW p, NEW cell,
           Touch(c, p, cell), UNCHANGED <<running, next>>
    PROVE  /\ alone' = [d \in Channels |-> alone'[d]]
           /\ alone'["web"] => c = "web" /\ alone["web"]
           /\ good' => slot'[next'] = Firmware("web") /\ next' = running'
<1>1. good' = (good /\ next = running)
  BY DEF Touch
<1>2. alone' = [d \in Channels |-> d = c /\ alone[d]]
  BY DEF Touch
<1>3. slot'[running] = slot[running]
  BY TouchLeaves
<1>4. "web" \in Channels
  BY DEF Channels
<1>5. alone'["web"] = (c = "web" /\ alone["web"])
  BY <1>2, <1>4
<1>6. good' => slot'[next'] = Firmware("web")
  <2> SUFFICES ASSUME good' PROVE slot'[next'] = Firmware("web")
    OBVIOUS
  <2>1. next' = running /\ slot[next] = Firmware("web") /\ next = running
    BY <1>1 DEF GoodInv
  <2> QED
    BY <2>1, <1>3
<1> QED
  BY <1>1, <1>2, <1>5, <1>6

LEMMA EraseKeepsGood == BootInv /\ GoodInv /\ WebErase => GoodInv'
<1> SUFFICES ASSUME BootInv, GoodInv, WebErase PROVE GoodInv'
  OBVIOUS
<1> DEFINE n == web.pos + 1
<1>1. /\ web.pc = "erase" /\ Touch("web", n, Erased)
      /\ UNCHANGED <<tool, running, next>>
      /\ web' = IF n = NChunks THEN [pc |-> "recv", pos |-> 0]
                               ELSE [pc |-> "erase", pos |-> n]
  BY DEF WebErase, WebGoes
<1>2. web.pos \in 0 .. NChunks - 1 /\ NChunks \in Nat \ {0}
  BY <1>1, OtaAssumption DEF GoodInv
<1>3. n \in 1 .. NChunks
  BY <1>2
<1>4. "web" \in Channels
  BY DEF Channels
<1>5. /\ alone' = [d \in Channels |-> alone'[d]]
      /\ alone'["web"] => alone["web"]
      /\ good' => slot'[next'] = Firmware("web") /\ next' = running'
  BY <1>1, <1>4, TouchKeepsGood
<1>6. /\ slot'[Target] = [q \in Places |-> IF q = n THEN Erased
                                          ELSE slot[Target][q]]
      /\ Target' = Target
  BY <1>1, TouchLeaves
<1>7. web'.pc \in {"erase", "recv"} /\ web'.pos \in 0 .. NChunks - 1
  BY <1>1, <1>2, <1>3
<1>8. alone'["web"] => Progress'
  <2> SUFFICES ASSUME alone'["web"] PROVE Progress'
    OBVIOUS
  <2>1. \A q \in Places : q <= web.pos => slot[Target][q] = Erased
    BY <1>1, <1>5 DEF GoodInv, Progress
  <2>2. \A q \in Places : q <= n => slot'[Target'][q] = Erased
    <3> SUFFICES ASSUME NEW q \in Places, q <= n
                 PROVE  slot'[Target'][q] = Erased
      OBVIOUS
    <3>1. q = n \/ q <= web.pos
      BY <1>2 DEF Places
    <3> QED
      BY <3>1, <2>1, <1>6
  <2>3. CASE n = NChunks
    <3>1. web'.pc = "recv" /\ web'.pos = 0
      BY <1>1, <2>3
    <3>2. \A q \in Places : q <= n /\ ~(q <= 0)
      BY <2>3, <1>2 DEF Places
    <3>3. \A q \in Places : slot'[Target'][q] =
              IF q <= web'.pos THEN [file |-> "web", pos |-> q] ELSE Erased
      BY <3>1, <3>2, <2>2
    <3> QED
      BY <3>1, <3>3 DEF Progress
  <2>4. CASE n # NChunks
    <3>1. web'.pc = "erase" /\ web'.pos = n
      BY <1>1, <2>4
    <3> QED
      BY <3>1, <2>2 DEF Progress
  <2> QED
    BY <2>3, <2>4
<1>9. tool' # "waiting" /\ tool' # "complete"
  BY <1>1 DEF GoodInv
<1> QED
  BY <1>5, <1>7, <1>8, <1>9 DEF GoodInv

LEMMA WriteKeepsGood == BootInv /\ GoodInv /\ WebWrite => GoodInv'
<1> SUFFICES ASSUME BootInv, GoodInv, WebWrite PROVE GoodInv'
  OBVIOUS
<1> DEFINE n == web.pos + 1
           c == [file |-> "web", pos |-> n]
           cell == IF slot[Target][n] \in {Erased, c} THEN c ELSE Garbage
<1>1. /\ web.pc = "recv" /\ Touch("web", n, cell)
      /\ UNCHANGED <<tool, running, next>>
      /\ web' = IF n = NChunks THEN [pc |-> "end", pos |-> 0]
                               ELSE [pc |-> "recv", pos |-> n]
  BY DEF WebWrite, WebGoes
<1>2. web.pos \in 0 .. NChunks - 1 /\ NChunks \in Nat \ {0}
  BY <1>1, OtaAssumption DEF GoodInv
<1>3. n \in Places /\ n \in 1 .. NChunks
  BY <1>2 DEF Places
<1>4. "web" \in Channels
  BY DEF Channels
<1>5. /\ alone' = [d \in Channels |-> alone'[d]]
      /\ alone'["web"] => alone["web"]
      /\ good' => slot'[next'] = Firmware("web") /\ next' = running'
  BY <1>1, <1>4, TouchKeepsGood
<1>6. /\ slot'[Target] = [q \in Places |-> IF q = n THEN cell
                                          ELSE slot[Target][q]]
      /\ Target' = Target
  BY <1>1, TouchLeaves
<1>7. web'.pc \in {"recv", "end"}
      /\ (web'.pc = "recv" => web'.pos \in 0 .. NChunks - 1)
  BY <1>1, <1>2, <1>3
<1>8. alone'["web"] => Progress'
  <2> SUFFICES ASSUME alone'["web"] PROVE Progress'
    OBVIOUS
  <2>1. \A q \in Places : slot[Target][q] =
            IF q <= web.pos THEN [file |-> "web", pos |-> q] ELSE Erased
    BY <1>1, <1>5 DEF GoodInv, Progress
  <2>2. ~(n <= web.pos)
    BY <1>2
  <2>3. cell = [file |-> "web", pos |-> n]
    BY <2>1, <2>2, <1>3
  <2>4. \A q \in Places : slot'[Target'][q] =
            IF q <= n THEN [file |-> "web", pos |-> q] ELSE Erased
    <3> SUFFICES ASSUME NEW q \in Places
                 PROVE  slot'[Target'][q] =
                          IF q <= n THEN [file |-> "web", pos |-> q] ELSE Erased
      OBVIOUS
    <3>1. slot'[Target'][q] = IF q = n THEN cell ELSE slot[Target][q]
      BY <1>6
    <3>2. q # n => ((q <= n) <=> (q <= web.pos))
      BY <1>2 DEF Places
    <3>3. q = n => q <= n
      BY <1>3
    <3> HIDE DEF cell, n
    <3> QED
      BY <3>1, <3>2, <3>3, <2>1, <2>3
  <2>5. CASE n = NChunks
    <3>1. web'.pc = "end"
      BY <1>1, <2>5
    <3>2. \A q \in Places : q <= n
      BY <2>5, <1>2 DEF Places
    <3>3. slot'[Target'] = [q \in Places |-> slot'[Target'][q]]
      BY <1>6
    <3>4. \A q \in Places : slot'[Target'][q] = [file |-> "web", pos |-> q]
      BY <2>4, <3>2
    <3>5. slot'[Target'] = Firmware("web")
      BY <3>3, <3>4 DEF Firmware
    <3> QED
      BY <3>1, <3>5 DEF Progress, Firmware
  <2>6. CASE n # NChunks
    <3>1. web'.pc = "recv" /\ web'.pos = n
      BY <1>1, <2>6
    <3> QED
      BY <3>1, <2>4 DEF Progress
  <2> QED
    BY <2>5, <2>6
<1>9. tool' # "waiting" /\ tool' # "complete"
  BY <1>1 DEF GoodInv
<1> QED
  BY <1>5, <1>7, <1>8, <1>9 DEF GoodInv

\* At a reset the image that was selected boots, for it is whole.
LEMMA BootKeepsGood == BootInv /\ GoodInv /\ Boot => GoodInv'
<1> SUFFICES ASSUME BootInv, GoodInv, Boot PROVE GoodInv'
  OBVIOUS
<1>1. /\ web' = WebIdle /\ slot' = slot /\ good' = (good /\ ~pending)
      /\ alone' = [c \in Channels |-> FALSE]
  BY DEF Boot
<1>2. web'.pc = "idle"
  BY <1>1 DEF WebIdle
<1>3. "web" \in Channels
  BY DEF Channels
<1>4. alone' = [c \in Channels |-> alone'[c]] /\ alone'["web"] = FALSE
  BY <1>1, <1>3
<1>5. good' => slot'[next'] = Firmware("web") /\ next' = running'
  <2> SUFFICES ASSUME good, ~pending
               PROVE  slot'[next'] = Firmware("web") /\ next' = running'
    BY <1>1
  <2>1. slot[next] = Firmware("web")
    BY DEF GoodInv
  <2>2. Whole(next)
    BY <2>1 DEF Whole, Channels
  <2>3. running' = next /\ next' = next
    BY <2>2 DEF Boot, BootInto
  <2> QED
    BY <2>1, <2>3, <1>1
<1> QED
  BY <1>2, <1>3, <1>4, <1>5 DEF GoodInv

LEMMA GoodStep == BootInv /\ GoodInv /\ [CNext]_cvars => GoodInv'
<1> SUFFICES ASSUME BootInv, GoodInv, [CNext]_cvars PROVE GoodInv'
  OBVIOUS
<1>1. CASE BleWrite \/ BleWriteFails
  <2>1. UNCHANGED <<web, tool, running, next>>
    BY <1>1 DEF BleWrite, BleWriteFails
  <2>2. "ble" \in Channels /\ \E p, cell : Touch("ble", p, cell)
    BY <1>1 DEF BleWrite, BleWriteFails, Channels
  <2>3. /\ alone' = [d \in Channels |-> alone'[d]]
        /\ ~alone'["web"]
        /\ good' => slot'[next'] = Firmware("web") /\ next' = running'
    BY <2>1, <2>2, TouchKeepsGood
  <2> QED
    BY <2>1, <2>3 DEF GoodInv
<1>2. CASE WebErase
  BY <1>2, EraseKeepsGood
<1>3. CASE WebWrite
  BY <1>3, WriteKeepsGood
<1>4. CASE BleOther \/ UNCHANGED cvars \/ Setup
  <2>1. UNCHANGED <<web, tool, slot, running, next, good, alone>>
    BY <1>4 DEF BleOther, Setup, cvars, chanVars, flashVars, histVars
  <2>2. Target' = Target
    BY <2>1 DEF Target
  <2> QED
    BY <2>1, <2>2 DEF GoodInv, Progress
<1>5. CASE BleBegin
  <2>1. UNCHANGED <<web, tool, slot, running, next, good>> /\ Begins("ble")
    BY <1>5 DEF BleBegin, flashVars
  <2>2. /\ alone' = [c \in Channels |-> alone'[c]]
        /\ alone'["web"] = alone["web"]
    BY <2>1 DEF Begins, GoodInv, Channels
  <2>3. Target' = Target
    BY <2>1 DEF Target
  <2> QED
    BY <2>1, <2>2, <2>3 DEF GoodInv, Progress
<1>6. CASE BleCommit
  <2>1. UNCHANGED <<web, tool, slot, running, alone>> /\ good' = FALSE
    BY <1>6 DEF BleCommit
  <2>2. Target' = Target
    BY <2>1 DEF Target
  <2> QED
    BY <2>1, <2>2 DEF GoodInv, Progress
<1>7. CASE Post
  <2>1. web' = [pc |-> "erase", pos |-> 0] /\ tool' = "posting" /\ good' = FALSE
    BY <1>7 DEF Post, WebGoes
  <2>2. alone' = [c \in Channels |-> alone'[c]]
    BY <1>7 DEF Post, Begins, GoodInv
  <2>3. \A q \in Places : ~(q <= 0)
    BY DEF Places
  <2>4. Progress'
    BY <2>1, <2>3 DEF Progress
  <2>5. 0 \in 0 .. NChunks - 1
    BY OtaAssumption
  <2> QED
    BY <2>1, <2>2, <2>4, <2>5 DEF GoodInv
<1>8. CASE WebFails
  <2>1. /\ web.pc \in {"erase", "recv", "end"} /\ web'.pc = "idle"
        /\ tool' = IF tool = "posting" THEN "failed" ELSE tool
        /\ UNCHANGED <<slot, running, next, good, alone>>
    BY <1>8 DEF WebFails, WebIdle, ToolFails, flashVars, histVars
  <2> QED
    BY <2>1 DEF GoodInv, Progress
<1>9. CASE WebEnd
  <2>1. /\ web.pc = "end" /\ web'.pc = "select"
        /\ UNCHANGED <<tool, slot, running, next, good, alone>>
    BY <1>9 DEF WebEnd, WebGoes, flashVars, histVars
  <2>2. Target' = Target
    BY <2>1 DEF Target
  <2> QED
    BY <2>1, <2>2 DEF GoodInv, Progress, Firmware
<1>10. CASE WebSelect
  <2>1. /\ web.pc = "select" /\ web'.pc = "restart"
        /\ tool' = IF tool = "posting" THEN "waiting" ELSE tool
        /\ UNCHANGED <<slot, running, alone>>
        /\ \/ next' = Target /\ good' = alone["web"]
           \/ UNCHANGED <<next, good>>
    BY <1>10 DEF WebSelect, WebGoes
  <2>2. alone["web"] => slot[Target] = Firmware("web")
    BY <2>1 DEF GoodInv, Progress
  <2>3. tool # "waiting" /\ tool # "complete"
    BY <2>1 DEF GoodInv
  <2>4. good' => slot'[next'] = Firmware("web")
    BY <2>1, <2>2 DEF GoodInv, Firmware
  <2>5. tool' # "complete"
    BY <2>1, <2>3
  <2> QED
    BY <2>1, <2>4, <2>5 DEF GoodInv, Progress
<1>11. CASE ToolGivesUp \/ ToolOnline
  <2>1. /\ UNCHANGED <<web, slot, running, next, good, alone>>
        /\ \/ tool' = "failed"
           \/ tool = "waiting" /\ web.pc # "restart" /\ tool' = "complete"
    BY <1>11 DEF ToolGivesUp, ToolOnline, flashVars, histVars
  <2>2. Target' = Target
    BY <2>1 DEF Target
  <2> QED
    BY <2>1, <2>2 DEF GoodInv, Progress
<1>12. CASE ChannelRestarts \/ PowerLoss
  <2>1. Boot
    BY <1>12 DEF ChannelRestarts, PowerLoss
  <2> QED
    BY <2>1, BootKeepsGood
<1> QED
  BY <1>1, <1>2, <1>3, <1>4, <1>5, <1>6, <1>7, <1>8, <1>9, <1>10, <1>11, <1>12
  DEF CNext

LEMMA ChannelsAlways == CSpec => []ChanInv
<1>1. CInit => ChanInv
  BY BootInit, GoodInit DEF ChanInv
<1>2. ChanInv /\ [CNext]_cvars => ChanInv'
  BY BootStep, GoodStep DEF ChanInv
<1> QED
  BY <1>1, <1>2, PTL DEF CSpec

\* "OTA complete." is true, through any loss of power and any traffic on the
\* other channel that does not undo the update.
THEOREM CompleteIsTrue == CSpec => []CompleteIsInstalled
<1>1. ChanInv => CompleteIsInstalled
  <2> SUFFICES ASSUME ChanInv, tool = "complete", good
               PROVE  slot[running] = Firmware("web")
    BY DEF CompleteIsInstalled
  <2>1. slot[next] = Firmware("web") /\ next = running
    BY DEF ChanInv, GoodInv
  <2> QED
    BY <2>1
<1> QED
  BY <1>1, ChannelsAlways, PTL

-----------------------------------------------------------------------------
(* Types of both channels *)

ChanTypeInv == CTypeOK /\ ItemsInv /\ ChanInv

\* The steps of the BLE update are steps of BleOta, or a reset.
LEMMA BleSteps ==
    ASSUME TypeOK, ItemsInv, CNext
    PROVE  TypeOK' /\ ItemsInv'
<1>1. CASE BleOther \/ BleBegin \/ BleWrite \/ BleWriteFails \/ BleCommit
  <2>1. HostTask \/ WriterTask
    BY <1>1
    DEF BleOther, BleBegin, BleWrite, BleWriteFails, BleCommit, WriterTask
  <2> QED
    BY <2>1, TypeHost, TypeWriter, ItemsHost, ItemsWriter
<1>2. CASE Boot
  BY <1>2, TypeReset, ItemsReset DEF Boot
<1>3. CASE UNCHANGED vars
  BY <1>3, TypeStep DEF vars, clientVars, espVars, ItemsInv, Sound
<1> QED
  BY <1>1, <1>2, <1>3
  DEF CNext, Post, WebErase, WebWrite, WebFails, WebEnd, WebSelect, ToolGivesUp,
      ToolOnline, ChannelRestarts, PowerLoss, Setup

\* What Touch leaves behind has its type.
LEMMA TouchType ==
    ASSUME CTypeOK, NEW c \in Channels, NEW p, NEW cell \in Cell,
           Touch(c, p, cell)
    PROVE  /\ slot' \in [Slots -> [Places -> Cell]]
           /\ alone' \in [Channels -> BOOLEAN]
           /\ touched' \in BOOLEAN /\ good' \in BOOLEAN
<1>1. /\ slot \in [Slots -> [Places -> Cell]]
      /\ alone \in [Channels -> BOOLEAN]
      /\ touched \in BOOLEAN /\ good \in BOOLEAN /\ running \in Slots
  BY DEF CTypeOK
<1>2. slot' \in [Slots -> [Places -> Cell]]
  BY <1>1 DEF Touch
<1>3. alone' \in [Channels -> BOOLEAN]
  BY <1>1 DEF Touch
<1>4. touched' \in BOOLEAN /\ good' \in BOOLEAN
  BY <1>1, Zenon DEF Touch
<1> QED
  BY <1>2, <1>3, <1>4

WebRecord == [pc : {"idle", "erase", "recv", "end", "select", "restart"},
              pos : 0 .. NChunks]

LEMMA WebIdleType == WebIdle \in WebRecord
  BY OtaAssumption DEF WebIdle, WebRecord

LEMMA ChanTypeInit == CInit => ChanTypeInv
<1> SUFFICES ASSUME CInit PROVE ChanTypeInv
  OBVIOUS
<1>1. TypeOK /\ ItemsInv
  BY TypeInit, ItemsInit DEF CInit
<1>2. web \in WebRecord
  BY WebIdleType DEF CInit
<1>3. posts \in 0 .. MaxPosts
  BY ChannelsAssumption DEF CInit
<1>4. slot \in [Slots -> [Places -> Cell]]
  BY DEF CInit, Slots, Firmware, Cell
<1>5. alone \in [Channels -> BOOLEAN]
  BY DEF CInit
<1>6. {pending, up, touched, unset, good} \subseteq BOOLEAN
  BY DEF CInit
<1> QED
  BY <1>1, <1>2, <1>3, <1>4, <1>5, <1>6, BootInit, GoodInit
  DEF CInit, ChanTypeInv, ChanInv, CTypeOK, WebRecord, Slots

LEMMA ChanTypeStep == ChanTypeInv /\ [CNext]_cvars => ChanTypeInv'
<1> SUFFICES ASSUME ChanTypeInv, [CNext]_cvars PROVE ChanTypeInv'
  OBVIOUS
<1>0. /\ CTypeOK /\ TypeOK /\ ItemsInv /\ web \in WebRecord
      /\ web.pc \in {"erase", "recv"} => web.pos \in 0 .. NChunks - 1
      /\ NChunks \in Nat \ {0}
  BY OtaAssumption DEF ChanTypeInv, ChanInv, GoodInv, CTypeOK, WebRecord
<1>1. ChanInv'
  BY BootStep, GoodStep DEF ChanTypeInv, ChanInv
<1>stutter. CASE UNCHANGED cvars
  BY <1>0, <1>1, <1>stutter, TypeStep
  DEF cvars, chanVars, flashVars, histVars, vars, clientVars, espVars,
      ChanTypeInv, CTypeOK, ItemsInv, Sound
<1> SUFFICES ASSUME CNext PROVE CTypeOK'
  BY <1>0, <1>1, <1>stutter, BleSteps DEF ChanTypeInv
<1>2. TypeOK'
  BY <1>0, BleSteps
<1>3. CASE BleOther
  BY <1>0, <1>2, <1>3
  DEF BleOther, chanVars, flashVars, histVars, CTypeOK
<1>4. CASE BleBegin \/ BleCommit
  <2>1. UNCHANGED <<web, posts, tool, slot, running, pending, up, touched, unset>>
    BY <1>4 DEF BleBegin, BleCommit, flashVars
  <2>2. next' \in Slots /\ told' \subseteq Channels
    BY <1>0, <1>4, TargetIsOther
    DEF BleBegin, BleCommit, flashVars, CTypeOK, Tells, Channels
  <2>3. alone' \in [Channels -> BOOLEAN] /\ good' \in BOOLEAN
    BY <1>0, <1>4 DEF BleBegin, BleCommit, CTypeOK, Begins
  <2> QED
    BY <1>0, <1>2, <2>1, <2>2, <2>3 DEF CTypeOK
<1>5. CASE BleWrite \/ BleWriteFails
  <2>1. UNCHANGED <<web, posts, tool, running, next, pending, up, told, unset>>
    BY <1>5 DEF BleWrite, BleWriteFails
  <2>2. Garbage \in Cell /\ "ble" \in Channels
    BY DEF Cell, Channels
  <2>3. BleWrite => [file |-> "ble", pos |-> writer.item.pos] \in Cell
    <3> SUFFICES ASSUME BleWrite
                 PROVE  [file |-> "ble", pos |-> writer.item.pos] \in Cell
      OBVIOUS
    <3>1. writer.item.pos >= 1
      BY <1>0 DEF BleWrite, Write, WriterAt, ItemsInv
    <3>2. writer.item.pos \in 0 .. NChunks
      BY <1>0 DEF TypeOK, OtaChunk
    <3> QED
      BY <1>0, <3>1, <3>2 DEF Cell, Places, Channels
  <2>4. \E cell \in Cell : \E p : Touch("ble", p, cell)
    BY <1>5, <2>2, <2>3 DEF BleWrite, BleWriteFails
  <2>5. /\ slot' \in [Slots -> [Places -> Cell]]
        /\ alone' \in [Channels -> BOOLEAN]
        /\ touched' \in BOOLEAN /\ good' \in BOOLEAN
    BY <1>0, <2>2, <2>4, TouchType
  <2> QED
    BY <1>0, <1>2, <2>1, <2>5 DEF CTypeOK
<1>6. CASE WebErase \/ WebWrite
  <2>1. UNCHANGED <<posts, tool, running, next, pending, up, told, unset>>
    BY <1>6 DEF WebErase, WebWrite
  <2>2. web' \in WebRecord
    <3>1. web.pos + 1 \in 0 .. NChunks /\ 0 \in 0 .. NChunks
      BY <1>0, <1>6 DEF WebErase, WebWrite
    <3> QED
      BY <1>6, <3>1 DEF WebErase, WebWrite, WebGoes, WebRecord
  <2>3. Erased \in Cell /\ Garbage \in Cell /\ "web" \in Channels
    BY DEF Cell, Channels
  <2>4. web.pc = "recv" => [file |-> "web", pos |-> web.pos + 1] \in Cell
    BY <1>0 DEF Cell, Places, Channels
  <2>5. \E cell \in Cell : \E p : Touch("web", p, cell)
    BY <1>6, <2>3, <2>4 DEF WebErase, WebWrite
  <2>6. /\ slot' \in [Slots -> [Places -> Cell]]
        /\ alone' \in [Channels -> BOOLEAN]
        /\ touched' \in BOOLEAN /\ good' \in BOOLEAN
    BY <1>0, <2>3, <2>5, TouchType
  <2> QED
    BY <1>0, <1>2, <2>1, <2>2, <2>6 DEF CTypeOK, WebRecord
<1>7. CASE Post
  <2>1. web' \in WebRecord
    BY <1>0, <1>7 DEF Post, WebGoes, WebRecord
  <2>2. posts' \in 0 .. MaxPosts
    BY <1>0, <1>7, ChannelsAssumption DEF Post, CTypeOK
  <2>3. /\ UNCHANGED <<flashVars, told, touched, unset>>
        /\ tool' = "posting" /\ good' = FALSE
    BY <1>7 DEF Post
  <2>4. alone' \in [Channels -> BOOLEAN]
    BY <1>0, <1>7 DEF Post, Begins, CTypeOK
  <2> QED
    BY <1>0, <1>2, <2>1, <2>2, <2>3, <2>4 DEF CTypeOK, WebRecord, flashVars
<1>8. CASE WebFails \/ WebEnd
  <2>1. UNCHANGED <<posts, flashVars, histVars>>
    BY <1>8 DEF WebFails, WebEnd
  <2>2. web' \in WebRecord
    BY <1>0, <1>8, WebIdleType DEF WebFails, WebEnd, WebGoes, WebRecord
  <2>3. tool' \in {tool, "failed"}
    BY <1>8 DEF WebFails, WebEnd, ToolFails
  <2> QED
    BY <1>0, <1>2, <2>1, <2>2, <2>3 DEF CTypeOK, WebRecord, flashVars, histVars
<1>9. CASE WebSelect
  <2>1. UNCHANGED <<posts, slot, running, pending, up, touched, alone>>
    BY <1>9 DEF WebSelect
  <2>2. web' \in WebRecord
    BY <1>0, <1>9 DEF WebSelect, WebGoes, WebRecord
  <2>3. tool' \in {tool, "waiting"} /\ told' \subseteq Channels
    BY <1>0, <1>9 DEF WebSelect, Tells, Channels, CTypeOK
  <2>4. next' \in Slots /\ unset' \in BOOLEAN
    BY <1>0, <1>9, TargetIsOther DEF WebSelect, CTypeOK
  <2>5. good' \in BOOLEAN
    BY <1>0, <1>9 DEF WebSelect, CTypeOK, Channels
  <2> QED
    BY <1>0, <1>2, <2>1, <2>2, <2>3, <2>4, <2>5 DEF CTypeOK, WebRecord
<1>10. CASE ToolGivesUp \/ ToolOnline
  <2>1. /\ UNCHANGED <<web, posts, flashVars, histVars>>
        /\ tool' \in {"failed", "complete"}
    BY <1>10 DEF ToolGivesUp, ToolOnline
  <2> QED
    BY <1>0, <1>2, <2>1 DEF CTypeOK, flashVars, histVars
<1>11. CASE ChannelRestarts \/ PowerLoss
  <2>0. Boot
    BY <1>11 DEF ChannelRestarts, PowerLoss
  <2>1. /\ UNCHANGED <<posts, slot>> /\ web' = WebIdle /\ up' = FALSE
        /\ told' = {} /\ touched' = FALSE /\ unset' = FALSE
        /\ alone' = [c \in Channels |-> FALSE]
    BY <2>0 DEF Boot
  <2>2. running' \in Slots /\ next' \in Slots /\ pending' \in BOOLEAN
    BY <1>0, <2>0, TargetIsOther DEF Boot, BootInto, CTypeOK
  <2>3. tool' \in {tool, "failed"}
    BY <2>0 DEF Boot, ToolFails
  <2>4. good' \in BOOLEAN
    BY <1>0, <2>0, Zenon DEF Boot, CTypeOK
  <2> QED
    BY <1>0, <1>2, <2>1, <2>2, <2>3, <2>4, WebIdleType DEF CTypeOK, WebRecord
<1>12. CASE Setup
  <2>1. /\ UNCHANGED <<web, posts, tool, slot, running, next, histVars>>
        /\ up' = TRUE /\ pending' = FALSE
    BY <1>12 DEF Setup
  <2> QED
    BY <1>0, <1>2, <2>1 DEF CTypeOK, histVars
<1> QED
  BY <1>3, <1>4, <1>5, <1>6, <1>7, <1>8, <1>9, <1>10, <1>11, <1>12 DEF CNext

\* Both channels, the partitions and the tool keep their types, for any bounds;
\* in particular no upload writes beyond the image.
THEOREM ChannelsTypeOK == CSpec => []CTypeOK
<1>1. ChanTypeInv => CTypeOK
  BY DEF ChanTypeInv
<1> QED
  BY <1>1, ChanTypeInit, ChanTypeStep, PTL DEF CSpec

-----------------------------------------------------------------------------
(* What a channel reports.  Of BLE it is enough that the cells it has      *)
(* written are its own: what the bootloader accepts is a whole image, and  *)
(* one cell tells whose.                                                   *)

BleCells ==
    alone["ble"] /\ active =>
        \A q \in Places : q <= received => slot[Target][q].file = "ble"

\* A channel that has reported success does nothing but restart.
Reported ==
    /\ "ble" \in told => writer.pc = "restart"
    /\ "web" \in told => web.pc = "restart"

ReportInv == BleCells /\ Reported /\ OkIsBootable

LEMMA ReportInit == CInit => ReportInv
  BY DEF CInit, Init, ReportInv, BleCells, Reported, OkIsBootable

\* A channel changes the partition: after a report that is a touch.
LEMMA TouchReports ==
    ASSUME ChanTypeInv, ReportInv, NEW c \in Channels, NEW p, NEW cell,
           Touch(c, p, cell), UNCHANGED <<running, next, told, unset>>
    PROVE  OkIsBootable'
<1>1. told' # {} => touched'
  BY DEF Touch
<1> QED
  BY <1>1 DEF OkIsBootable

LEMMA ReportBoot == Boot => ReportInv'
<1> SUFFICES ASSUME Boot PROVE ReportInv'
  OBVIOUS
<1>1. told' = {} /\ active' = FALSE
  BY DEF Boot, Reset
<1> QED
  BY <1>1 DEF ReportInv, BleCells, Reported, OkIsBootable

\* COMMIT: all the cells are BLE's, hence so is the image.
LEMMA CommitReports == ChanTypeInv /\ ReportInv /\ BleCommit => ReportInv'
<1> SUFFICES ASSUME ChanTypeInv, ReportInv, BleCommit PROVE ReportInv'
  OBVIOUS
<1>1. /\ active /\ received = expected /\ Whole(Target)
      /\ next' = Target /\ told' = told \cup {"ble"}
      /\ UNCHANGED <<web, slot, running, touched, unset, alone>>
      /\ writer'.pc = "restart" /\ active' = FALSE
  BY DEF BleCommit, Commit, CloseHandle, WriterGoes, Tells, ChanTypeInv,
         CTypeOK, TypeOK
<1>2. Target' = Target
  BY <1>1 DEF Target
<1>3. received = NChunks /\ NChunks \in Nat \ {0}
  BY <1>1, OtaAssumption DEF ChanTypeInv, ItemsInv
<1>4. alone["ble"] => slot[Target] = Firmware("ble")
  <2> SUFFICES ASSUME alone["ble"] PROVE slot[Target] = Firmware("ble")
    OBVIOUS
  <2>1. 1 \in Places /\ 1 <= received
    BY <1>3 DEF Places
  <2>2. slot[Target][1].file = "ble"
    BY <1>1, <2>1 DEF ReportInv, BleCells
  <2>3. PICK f \in Channels \cup {"factory"} : slot[Target] = Firmware(f)
    BY <1>1 DEF Whole
  <2>4. slot[Target][1].file = f
    BY <2>1, <2>3 DEF Firmware
  <2> QED
    BY <2>2, <2>3, <2>4
<1>5. Reported' /\ BleCells'
  BY <1>1 DEF ReportInv, Reported, BleCells
<1>6. OkIsBootable'
  <2> SUFFICES ASSUME ~touched, ~unset
               PROVE  \A c \in told \cup {"ble"} :
                          alone[c] => slot[Target] = Firmware(c)
    BY <1>1, <1>2 DEF OkIsBootable, Whole
  <2>1. \A c \in told : alone[c] => slot[Target] = Firmware(c)
    BY DEF ReportInv, OkIsBootable
  <2> QED
    BY <2>1, <1>4
<1> QED
  BY <1>5, <1>6 DEF ReportInv

\* "OK" of the HTTPS channel.
LEMMA SelectReports == ChanTypeInv /\ ReportInv /\ WebSelect => ReportInv'
<1> SUFFICES ASSUME ChanTypeInv, ReportInv, WebSelect PROVE ReportInv'
  OBVIOUS
<1>1. /\ web.pc = "select" /\ web'.pc = "restart" /\ told' = told \cup {"web"}
      /\ UNCHANGED <<vars, slot, running, touched, alone>>
      /\ \/ Whole(Target) /\ next' = Target /\ unset' = unset
         \/ unset'
  BY DEF WebSelect, WebGoes, Tells
<1>2. Target' = Target
  BY <1>1 DEF Target
<1>3. alone["web"] => slot[Target] = Firmware("web")
  BY <1>1 DEF ChanTypeInv, ChanInv, GoodInv, Progress
<1>4. Reported' /\ BleCells'
  BY <1>1, <1>2 DEF ReportInv, Reported, BleCells, vars
<1>5. OkIsBootable'
  <2> SUFFICES ASSUME ~touched, ~unset'
               PROVE  /\ Whole(Target) /\ next' = Target
                      /\ \A c \in told \cup {"web"} :
                            alone[c] => slot[Target] = Firmware(c)
    BY <1>1, <1>2 DEF OkIsBootable, Whole
  <2>1. Whole(Target) /\ next' = Target /\ ~unset
    BY <1>1
  <2>2. \A c \in told : alone[c] => slot[Target] = Firmware(c)
    BY <2>1 DEF ReportInv, OkIsBootable
  <2> QED
    BY <2>1, <2>2, <1>3
<1> QED
  BY <1>4, <1>5 DEF ReportInv

LEMMA ReportStep == ChanTypeInv /\ ReportInv /\ [CNext]_cvars => ReportInv'
<1> SUFFICES ASSUME ChanTypeInv, ReportInv, [CNext]_cvars PROVE ReportInv'
  OBVIOUS
<1>0. told \subseteq Channels
  BY DEF ChanTypeInv, CTypeOK
<1>1. CASE BleOther
  <2>1. UNCHANGED <<web, slot, running, next, told, touched, unset, alone>>
    BY <1>1 DEF BleOther, chanVars, flashVars, histVars
  <2>2. Target' = Target
    BY <2>1 DEF Target
  <2>3. received' = received /\ (active' => active)
    BY <1>1
    DEF BleOther, HostTask, Callback, Connect, Disconnect, CtrlStart,
        CtrlStartDrain, CtrlStartSend, Data, DataSend, DataQueueFull,
        DataAbortSend, CtrlCommit, CtrlCommitSend, CtrlAbort, ToolStarted,
        Receive, StartAborts, BeginFails, WriteSkipped, CommitRejected,
        CommitFails, Abort, Drain, Drained, CloseHandle
  <2>4. writer.pc = "restart" => writer' = writer
    BY <1>1
    DEF BleOther, HostTask, Callback, Connect, Disconnect, CtrlStart,
        CtrlStartDrain, CtrlStartSend, Data, DataSend, DataQueueFull,
        DataAbortSend, CtrlCommit, CtrlCommitSend, CtrlAbort, ToolStarted,
        Receive, StartAborts, BeginFails, WriteSkipped, CommitRejected,
        CommitFails, Abort, Drain, Drained, WriterAt
  <2> QED
    BY <2>1, <2>2, <2>3, <2>4
    DEF ReportInv, BleCells, Reported, OkIsBootable, Whole
<1>2. CASE BleBegin
  <2>1. /\ writer.pc = "begin" /\ received' = 0 /\ Begins("ble")
        /\ UNCHANGED <<web, slot, running, next, told, touched, unset>>
    BY <1>2 DEF BleBegin, Begin, WriterAt, flashVars
  <2>2. Target' = Target
    BY <2>1 DEF Target
  <2>3. "ble" \notin told
    BY <2>1 DEF ReportInv, Reported
  <2>4. \A c \in told : alone'[c] = alone[c]
    BY <1>0, <2>1, <2>3 DEF Begins, ChanTypeInv, CTypeOK
  <2>5. BleCells'
    BY <2>1 DEF BleCells, Places
  <2> QED
    BY <2>1, <2>2, <2>3, <2>4, <2>5
    DEF ReportInv, Reported, OkIsBootable, Whole
<1>3. CASE BleWrite
  <2> DEFINE cell == [file |-> "ble", pos |-> writer.item.pos]
  <2>1. /\ Touch("ble", received + 1, cell) /\ active
        /\ writer.pc = "data" /\ received' = received + 1
        /\ UNCHANGED <<web, running, next, told, unset>>
    BY <1>3 DEF BleWrite, Write, WriterAt
  <2>2. "ble" \in Channels
    BY DEF Channels
  <2>3. OkIsBootable'
    BY <2>1, <2>2, TouchReports
  <2>4. /\ slot'[Target] = [q \in Places |-> IF q = received + 1 THEN cell
                                            ELSE slot[Target][q]]
        /\ Target' = Target
    BY <2>1, TouchLeaves DEF ChanTypeInv, ChanInv
  <2>5. alone'["ble"] => alone["ble"]
    BY <2>1, <2>2 DEF Touch
  <2>6. BleCells'
    <3> SUFFICES ASSUME alone["ble"], NEW q \in Places, q <= received + 1
                 PROVE  slot'[Target][q].file = "ble"
      BY <2>1, <2>4, <2>5 DEF BleCells
    <3>1. received \in Nat
      BY DEF ChanTypeInv, CTypeOK, TypeOK
    <3>2. q <= received => slot[Target][q].file = "ble"
      BY <2>1 DEF ReportInv, BleCells
    <3>3. q <= received \/ q = received + 1
      BY <3>1 DEF Places
    <3> QED
      BY <2>4, <3>2, <3>3
  <2> QED
    BY <2>1, <2>3, <2>6 DEF ReportInv, Reported
<1>4. CASE BleWriteFails
  <2>1. /\ Touch("ble", received + 1, Garbage) /\ active' = FALSE
        /\ writer.pc = "data"
        /\ UNCHANGED <<web, running, next, told, unset>>
    BY <1>4 DEF BleWriteFails, WriteFails, CloseHandle, WriterAt
  <2>2. OkIsBootable'
    BY <2>1, TouchReports DEF Channels
  <2> QED
    BY <2>1, <2>2 DEF ReportInv, Reported, BleCells
<1>5. CASE BleCommit
  BY <1>5, CommitReports
<1>6. CASE Post
  <2>1. /\ web.pc = "idle" /\ Begins("web")
        /\ UNCHANGED <<vars, slot, running, next, told, touched, unset>>
    BY <1>6 DEF Post, flashVars
  <2>2. Target' = Target
    BY <2>1 DEF Target
  <2>3. "web" \notin told
    BY <2>1 DEF ReportInv, Reported
  <2>4. \A c \in Channels : c # "web" => alone'[c] = alone[c]
    BY <2>1 DEF Begins, ChanTypeInv, CTypeOK
  <2> QED
    BY <1>0, <2>1, <2>2, <2>3, <2>4
    DEF ReportInv, BleCells, Reported, OkIsBootable, Whole, vars, Channels
<1>7. CASE WebErase \/ WebWrite
  <2>1. /\ web.pc \in {"erase", "recv"} /\ \E p, cell : Touch("web", p, cell)
        /\ UNCHANGED <<vars, running, next, told, unset>>
    BY <1>7 DEF WebErase, WebWrite
  <2>2. OkIsBootable'
    BY <2>1, TouchReports DEF Channels
  <2>3. ~alone'["ble"]
    BY <2>1 DEF Touch, Channels
  <2> QED
    BY <2>1, <2>2, <2>3 DEF ReportInv, BleCells, Reported, vars
<1>8. CASE WebFails \/ WebEnd
  <2>1. /\ web.pc \in {"erase", "recv", "end"}
        /\ UNCHANGED <<vars, flashVars, histVars>>
    BY <1>8 DEF WebFails, WebEnd
  <2>2. Target' = Target
    BY <2>1 DEF Target, flashVars
  <2> QED
    BY <2>1, <2>2
    DEF ReportInv, BleCells, Reported, OkIsBootable, Whole, vars, flashVars,
        histVars
<1>9. CASE WebSelect
  BY <1>9, SelectReports
<1>10. CASE ToolGivesUp \/ ToolOnline
  <2>1. UNCHANGED <<vars, web, flashVars, histVars>>
    BY <1>10 DEF ToolGivesUp, ToolOnline
  <2>2. Target' = Target
    BY <2>1 DEF Target, flashVars
  <2> QED
    BY <2>1, <2>2
    DEF ReportInv, BleCells, Reported, OkIsBootable, Whole, vars, flashVars,
        histVars
<1>11. CASE ChannelRestarts \/ PowerLoss
  BY <1>11, ReportBoot DEF ChannelRestarts, PowerLoss
<1>12. CASE Setup \/ UNCHANGED cvars
  <2>1. UNCHANGED <<vars, web, slot, running, next, histVars>>
    BY <1>12 DEF Setup, cvars, chanVars, flashVars
  <2>2. Target' = Target
    BY <2>1 DEF Target
  <2> QED
    BY <2>1, <2>2
    DEF ReportInv, BleCells, Reported, OkIsBootable, Whole, vars, histVars
<1> QED
  BY <1>1, <1>2, <1>3, <1>4, <1>5, <1>6, <1>7, <1>8, <1>9, <1>10, <1>11, <1>12
  DEF CNext

\* main.cpp:278-281 and 451-452: the success a channel reports is true of the
\* partition, until the other channel changes it or the selection has failed
\* unnoticed; for any image, queue depth, number of sessions and posts.
THEOREM OkIsAlwaysBootable == CSpec => []OkIsBootable
<1>1. CInit => ChanTypeInv /\ ReportInv
  BY ChanTypeInit, ReportInit
<1>2. ChanTypeInv /\ ReportInv /\ [CNext]_cvars => (ChanTypeInv /\ ReportInv)'
  BY ChanTypeStep, ReportStep
<1>3. ReportInv => OkIsBootable
  BY DEF ReportInv
<1> QED
  BY <1>1, <1>2, <1>3, PTL DEF CSpec
=============================================================================
