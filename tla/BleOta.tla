------------------------------- MODULE BleOta -------------------------------
(***************************************************************************)
(* Firmware update over BLE (main.cpp:172-416): the NimBLE host task, in   *)
(* whose callbacks the GATT writes of the client arrive; the writer task,  *)
(* sole owner of the esp_ota_* calls; and the FreeRTOS queue between them. *)
(* s_bleOta is shared WITHOUT a lock, so a callback and the writer         *)
(* interleave at every access to it and at every queue call.               *)
(*                                                                         *)
(* The client is tools/ble_ota.py: START, the image in NChunks DATA        *)
(* writes, COMMIT, wait for a notification; every write waits for its      *)
(* response, which the host sends when the callback returns.  The link may *)
(* drop and the tool may be run again; the upload of each run is a         *)
(* session.  The tool always uploads the same firmware file.               *)
(***************************************************************************)
EXTENDS Integers, Sequences

CONSTANTS
    NChunks,       \* the image, in DATA writes
    QueueDepth,    \* cfg::ota::kQueueDepth, 8
    MaxSessions,   \* bound: START writes
    LinkMayDrop,   \* the BLE link may be lost
    FlashMayFail   \* an esp_ota_* call may fail

ASSUME OtaAssumption ==
    /\ NChunks \in Nat \ {0}
    /\ QueueDepth \in Nat \ {0}
    /\ MaxSessions \in Nat
    /\ LinkMayDrop \in BOOLEAN
    /\ FlashMayFail \in BOOLEAN

VARIABLES
    client,    \* the tool: where it is, chunks sent, last notification
    session,   \* number of START writes so far: the session of the client
    lagged,    \* history: the tool has connected while items of an earlier
               \* connection were still queued
    givenUp,   \* history: the handles whose session met a full queue
    host,      \* the callback in progress on the NimBLE host task, or "idle"
    queue,     \* s_otaQueue
    writer,    \* the writer task: program counter and item in hand
    active,    \* s_bleOta.active
    expected,  \* s_bleOta.expected, in chunks
    received,  \* s_bleOta.received, in chunks
    handle,    \* s_bleOta.handle, named by the session it was opened for
    open,      \* handles esp_ota_begin gave and nothing closed (external)
    flash,     \* chunks written through `handle' (external)
    boot       \* content of the boot partition after an update (external)

clientVars == <<client, session, lagged, givenUp>>
espVars    == <<handle, open, flash, boot>>
vars == <<clientVars, host, queue, writer, active, expected, received, espVars>>

-----------------------------------------------------------------------------
(* Data *)

Sessions == 1 .. MaxSessions
Kinds    == {"start", "data", "commit", "abort"}
\* OtaChunk.  A START is known by its session, a DATA also by its position.
OtaChunk == [kind : Kinds, sess : 0 .. MaxSessions, pos : 0 .. NChunks]
Chunk    == [sess : 0 .. MaxSessions, pos : 0 .. NChunks]

Item(kind, s, p) == [kind |-> kind, sess |-> s, pos |-> p]

NoItem == Item("abort", 0, 0)

\* The whole image as uploaded by one session.
Image(s) == [p \in 1 .. NChunks |-> [sess |-> s, pos |-> p]]

TypeOK ==
    /\ client \in [pc : {"offline", "idle", "starting", "upload", "waiting",
                        "leaving"},
                   sent : 0 .. NChunks, status : {"none", "ok", "error"}]
    /\ session \in 0 .. MaxSessions
    /\ lagged \in BOOLEAN
    /\ givenUp \subseteq 0 .. MaxSessions
    /\ host \in {"idle", "drain", "data", "full", "commit"}
    /\ queue \in Seq(OtaChunk) /\ Len(queue) <= QueueDepth
    /\ writer \in [pc : {"idle", "start", "begin", "data", "commit", "abort",
                         "drain", "restart"},
                   item : OtaChunk]
    /\ active \in BOOLEAN
    /\ expected \in {0, NChunks}
    /\ received \in Nat
    /\ handle \in 0 .. MaxSessions
    /\ open \subseteq 0 .. MaxSessions
    /\ flash \in Seq(Chunk)
    /\ boot \in Seq(Chunk)

ClientOff == [pc |-> "offline", sent |-> 0, status |-> "none"]

Init ==
    /\ client = ClientOff /\ session = 0 /\ lagged = FALSE /\ givenUp = {}
    /\ host = "idle"
    /\ queue = <<>>
    /\ writer = [pc |-> "idle", item |-> NoItem]
    /\ active = FALSE
    /\ expected = 0 /\ received = 0
    /\ handle = 0 /\ open = {} /\ flash = <<>> /\ boot = <<>>

-----------------------------------------------------------------------------
(* Helpers *)

Room == Len(queue) < QueueDepth

\* xQueueSend(..., 0), its result ignored.
SendOrDrop(item) == queue' = IF Room THEN Append(queue, item) ELSE queue

\* bleOtaNotify: reaches a connected client.
Notified(c, status) ==
    IF c.pc = "offline" THEN c ELSE [c EXCEPT !.status = status]

-----------------------------------------------------------------------------
(* Client and NimBLE host task.  A write of the client and the callback it *)
(* runs are one action; a callback that has further accesses to shared     *)
(* state goes on in actions of its own.                                    *)

\* What the tool does as it writes START, a chunk, COMMIT and, a minute later
\* and without a notification, ABORT.
ToolStarts(c)  == [c EXCEPT !.pc = "starting", !.sent = 0]
ToolUploads(c) == [c EXCEPT !.sent = @ + 1]
ToolCommits(c) == [c EXCEPT !.pc = "waiting"]
ToolAborts(c)  == [c EXCEPT !.pc = "leaving"]

\* Scanning and connecting take seconds, the writer needs milliseconds per item,
\* but nothing makes the tool wait for the writer.
Connect ==
    /\ client.pc = "offline" /\ host = "idle"
    /\ client' = [ClientOff EXCEPT !.pc = "idle"]
    /\ lagged' = (lagged \/ queue # <<>>)
    /\ UNCHANGED <<session, givenUp, host, queue, writer, active, expected, received,
                   espVars>>

\* CTRL START: set the expected size, then drain the queue ...
CtrlStart ==
    /\ client.pc = "idle" /\ host = "idle"
    /\ session < MaxSessions
    /\ session' = session + 1
    /\ client' = ToolStarts(client)
    /\ expected' = NChunks
    /\ host' = "drain"
    /\ UNCHANGED <<lagged, givenUp, queue, writer, active, received, espVars>>

CtrlStartDrain ==
    /\ host = "drain" /\ queue # <<>>
    /\ queue' = Tail(queue)
    /\ UNCHANGED <<clientVars, host, writer, active, expected, received,
                   espVars>>

\* ... and send the start sentinel.
CtrlStartSend ==
    /\ host = "drain" /\ queue = <<>>
    /\ queue' = <<Item("start", session, 0)>>
    /\ host' = "idle"
    /\ UNCHANGED <<clientVars, writer, active, expected, received, espVars>>

\* "Clear the event AFTER sending CTRL_START": a notification of an earlier
\* session is discarded, and with it one of this session that is early.
ToolStarted ==
    /\ client.pc = "starting" /\ host = "idle"
    /\ client' = [client EXCEPT !.pc = "upload", !.status = "none"]
    /\ UNCHANGED <<session, lagged, givenUp, host, queue, writer, active,
                   expected, received, espVars>>

\* DATA: dropped in silence unless the session is active.
Data ==
    /\ client.pc = "upload" /\ client.sent < NChunks /\ host = "idle"
    /\ client' = ToolUploads(client)
    /\ host' = IF active THEN "data" ELSE "idle"
    /\ UNCHANGED <<session, lagged, givenUp, queue, writer, active, expected,
                   received, espVars>>

\* Mutant of DataSend: without room in the queue.
DataSendUnchecked ==
    /\ host = "data"
    /\ queue' = Append(queue, Item("data", session, client.sent))
    /\ host' = "idle"
    /\ UNCHANGED <<clientVars, writer, active, expected, received, espVars>>

DataSend ==
    /\ host = "data" /\ Room
    /\ queue' = Append(queue, Item("data", session, client.sent))
    /\ host' = "idle"
    /\ UNCHANGED <<clientVars, writer, active, expected, received, espVars>>

\* The queue is full: give the session up ...
DataQueueFull ==
    /\ host = "data" /\ ~Room
    /\ active' = FALSE
    /\ host' = "full"
    /\ givenUp' = givenUp \cup {handle}
    /\ UNCHANGED <<client, session, lagged, queue, writer, expected, received, espVars>>

\* ... and block (portMAX_DELAY) until the abort sentinel fits.
DataAbortSend ==
    /\ host = "full" /\ Room
    /\ queue' = Append(queue, Item("abort", session, 0))
    /\ host' = "idle"
    /\ UNCHANGED <<clientVars, writer, active, expected, received, espVars>>

\* CTRL COMMIT, after the last DATA.
CtrlCommit ==
    /\ client.pc = "upload" /\ client.sent = NChunks /\ host = "idle"
    /\ LET c == ToolCommits(client)
       IN  IF active
           THEN client' = c /\ host' = "commit"
           ELSE client' = Notified(c, "error") /\ UNCHANGED host
    /\ UNCHANGED <<session, lagged, givenUp, queue, writer, active, expected,
                   received, espVars>>

CtrlCommitSend ==
    /\ host = "commit"
    /\ SendOrDrop(Item("commit", session, 0))
    /\ host' = "idle"
    /\ UNCHANGED <<clientVars, writer, active, expected, received, espVars>>

\* CTRL ABORT: the tool has waited a minute in vain for a notification.
CtrlAbort ==
    /\ client.pc = "waiting" /\ client.status = "none" /\ host = "idle"
    /\ SendOrDrop(Item("abort", session, 0))
    /\ client' = ToolAborts(client)
    /\ UNCHANGED <<session, lagged, givenUp, host, writer, active, expected, received,
                   espVars>>

\* onDisconnect: the tool has finished, or the link is lost.
Disconnect ==
    /\ client.pc # "offline" /\ host = "idle"
    /\ \/ LinkMayDrop
       \/ client.pc = "leaving"
       \/ client.pc = "waiting" /\ client.status # "none"
    /\ SendOrDrop(Item("abort", session, 0))
    /\ client' = ClientOff
    /\ UNCHANGED <<session, lagged, givenUp, host, writer, active, expected, received,
                   espVars>>

Callback ==
    \/ CtrlStartDrain \/ CtrlStartSend
    \/ DataSend \/ DataQueueFull \/ DataAbortSend
    \/ CtrlCommitSend

HostTask ==
    \/ Connect \/ Disconnect
    \/ CtrlStart \/ ToolStarted \/ Data \/ CtrlCommit \/ CtrlAbort
    \/ Callback

-----------------------------------------------------------------------------
(* Writer task.  Only the accesses to `active', `expected' and the queue   *)
(* can be seen by the host task: what lies between two of them is one      *)
(* action.                                                                 *)

WriterAt(pc) == writer.pc = pc
WriterGoes(pc) == writer' = [writer EXCEPT !.pc = pc]

\* Mutant of Receive: under a lock that a callback holds until its send returns.
ReceiveLocked ==
    /\ WriterAt("idle") /\ queue # <<>> /\ host = "idle"
    /\ writer' = [pc |-> Head(queue).kind, item |-> Head(queue)]
    /\ queue' = Tail(queue)
    /\ UNCHANGED <<clientVars, host, active, expected, received, espVars>>

\* xQueueReceive(..., portMAX_DELAY)
Receive ==
    /\ WriterAt("idle") /\ queue # <<>>
    /\ writer' = [pc |-> Head(queue).kind, item |-> Head(queue)]
    /\ queue' = Tail(queue)
    /\ UNCHANGED <<clientVars, host, active, expected, received, espVars>>

\* esp_ota_abort(s_bleOta.handle); s_bleOta.active = false
CloseHandle ==
    /\ open' = open \ {handle}
    /\ active' = FALSE

\* Mutant of StartAborts: the handle of the previous session is forgotten.
StartForgets ==
    /\ WriterAt("start")
    /\ active' = FALSE
    /\ WriterGoes("begin")
    /\ UNCHANGED <<clientVars, host, queue, expected, received, espVars>>

\* START with a session still active: abort that one first.
StartAborts ==
    /\ WriterAt("start")
    /\ IF active THEN CloseHandle ELSE UNCHANGED <<open, active>>
    /\ WriterGoes("begin")
    /\ UNCHANGED <<clientVars, host, queue, expected, received, handle,
                   flash, boot>>

\* Mutant of Begin: `received' goes on from the previous session.
BeginWithoutReset ==
    /\ WriterAt("begin")
    /\ handle' = writer.item.sess
    /\ open' = open \cup {writer.item.sess}
    /\ flash' = <<>>
    /\ active' = TRUE
    /\ WriterGoes("idle")
    /\ UNCHANGED <<clientVars, host, queue, expected, received, boot>>

Begin ==
    /\ WriterAt("begin")
    /\ handle' = writer.item.sess
    /\ open' = open \cup {writer.item.sess}
    /\ flash' = <<>>
    /\ received' = 0
    /\ active' = TRUE
    /\ WriterGoes("idle")
    /\ UNCHANGED <<clientVars, host, queue, expected, boot>>

BeginFails ==
    /\ WriterAt("begin") /\ FlashMayFail
    /\ client' = Notified(client, "error")
    /\ WriterGoes("idle")
    /\ UNCHANGED <<session, lagged, givenUp, host, queue, active, expected, received,
                   espVars>>

\* A chunk of a session that is no longer active is ignored.
WriteSkipped ==
    /\ WriterAt("data") /\ ~active
    /\ WriterGoes("idle")
    /\ UNCHANGED <<clientVars, host, queue, active, expected, received,
                   espVars>>

Write ==
    /\ WriterAt("data") /\ active
    /\ flash' = Append(flash, [sess |-> writer.item.sess,
                               pos |-> writer.item.pos])
    /\ received' = received + 1
    /\ WriterGoes("idle")
    /\ UNCHANGED <<clientVars, host, queue, active, expected, handle, open,
                   boot>>

\* Mutant of WriteFails: the handle is closed, the session stays active.
WriteFailsStaysActive ==
    /\ WriterAt("data") /\ active /\ FlashMayFail
    /\ open' = open \ {handle}
    /\ client' = Notified(client, "error")
    /\ WriterGoes("drain")
    /\ UNCHANGED <<session, lagged, givenUp, host, queue, active, expected, received,
                   handle, flash, boot>>

WriteFails ==
    /\ WriterAt("data") /\ active /\ FlashMayFail
    /\ CloseHandle
    /\ client' = Notified(client, "error")
    /\ WriterGoes("drain")
    /\ UNCHANGED <<session, lagged, givenUp, host, queue, expected, received, handle,
                   flash, boot>>

\* COMMIT without a session, or with a size other than announced.
CommitRejected ==
    /\ WriterAt("commit")
    /\ \/ ~active /\ UNCHANGED <<open, active>>
       \/ active /\ received # expected /\ CloseHandle
    /\ client' = Notified(client, "error")
    /\ WriterGoes("idle")
    /\ UNCHANGED <<session, lagged, givenUp, host, queue, expected, received, handle,
                   flash, boot>>

\* esp_ota_end or esp_ota_set_boot_partition fails; the handle is closed.
CommitFails ==
    /\ WriterAt("commit") /\ active /\ received = expected
    /\ FlashMayFail
    /\ CloseHandle
    /\ client' = Notified(client, "error")
    /\ WriterGoes("idle")
    /\ UNCHANGED <<session, lagged, givenUp, host, queue, expected, received, handle,
                   flash, boot>>

\* Mutant of Commit: without the size check.
CommitAnySize ==
    /\ WriterAt("commit") /\ active
    /\ CloseHandle
    /\ boot' = flash
    /\ client' = Notified(client, "ok")
    /\ WriterGoes("restart")
    /\ UNCHANGED <<session, lagged, givenUp, host, queue, expected, received, handle,
                   flash>>

\* The image is accepted and becomes the one to boot.
Commit ==
    /\ WriterAt("commit") /\ active /\ received = expected
    /\ CloseHandle
    /\ boot' = flash
    /\ client' = Notified(client, "ok")
    /\ WriterGoes("restart")
    /\ UNCHANGED <<session, lagged, givenUp, host, queue, expected, received, handle,
                   flash>>

\* Everything volatile is lost, the link with it.
Reset ==
    /\ client' = ClientOff
    /\ host' = "idle"
    /\ queue' = <<>>
    /\ writer' = [pc |-> "idle", item |-> NoItem]
    /\ active' = FALSE
    /\ expected' = 0 /\ received' = 0
    /\ handle' = 0 /\ open' = {} /\ flash' = <<>>
    /\ UNCHANGED <<session, lagged, givenUp, boot>>

\* vTaskDelay(kNotifyDelayMs); esp_restart()
Restart == WriterAt("restart") /\ Reset

Abort ==
    /\ WriterAt("abort")
    /\ IF active THEN CloseHandle ELSE UNCHANGED <<open, active>>
    /\ WriterGoes("drain")
    /\ UNCHANGED <<clientVars, host, queue, expected, received, handle,
                   flash, boot>>

\* "Drain queue so next session starts with an empty queue."
Drain ==
    /\ WriterAt("drain") /\ queue # <<>>
    /\ queue' = Tail(queue)
    /\ UNCHANGED <<clientVars, host, writer, active, expected, received,
                   espVars>>

Drained ==
    /\ WriterAt("drain") /\ queue = <<>>
    /\ WriterGoes("idle")
    /\ UNCHANGED <<clientVars, host, queue, active, expected, received,
                   espVars>>

WriterTask ==
    \/ Receive
    \/ StartAborts \/ Begin \/ BeginFails
    \/ WriteSkipped \/ Write \/ WriteFails
    \/ CommitRejected \/ CommitFails \/ Commit \/ Restart
    \/ Abort \/ Drain \/ Drained

-----------------------------------------------------------------------------

Next == HostTask \/ WriterTask

\* The writer has the highest priority on its core and its flash calls return;
\* a callback that can go on does so.  Nothing obliges the client.
Fairness == WF_vars(WriterTask) /\ WF_vars(Callback)

Spec     == Init /\ [][Next]_vars
FairSpec == Spec /\ Fairness
=============================================================================
