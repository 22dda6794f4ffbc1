----------------------------- MODULE OtaChannels ----------------------------
(***************************************************************************)
(* The two ways to update the firmware, over BLE (BleOta) and over HTTPS   *)
(* (handleOtaPost, main.cpp:418-457), which nothing keeps apart: both      *)
(* write the partition that does not run; and the tool that posts over     *)
(* HTTPS (tools/ota_upload.py), which reports "OTA complete." when the     *)
(* device answers again.  The partitions, the boot selection and the       *)
(* bootloader are external; power may fail at any time.                    *)
(*                                                                         *)
(* The two channels upload different files.  A chunk in flash is named by  *)
(* its file and its place in it.  BLE opens its upload with                *)
(* OTA_WITH_SEQUENTIAL_WRITES, so that a write erases what it overwrites;  *)
(* HTTPS erases everything first and a write on flash that is not erased   *)
(* leaves neither the old nor the new content.                             *)
(***************************************************************************)
EXTENDS OtaProperties

CONSTANT MaxPosts  \* bound: POST /api/ota requests

ASSUME ChannelsAssumption == MaxPosts \in Nat /\ FlashMayFail

VARIABLES
    web,      \* handleOtaPost: program counter, chunks erased or written
    posts,    \* number of POSTs so far
    tool,     \* ota_upload.py: where its latest run is
    slot,     \* the content of the two OTA partitions (external)
    running,  \* esp_ota_get_running_partition (external)
    next,     \* the partition selected to boot (external)
    pending,  \* ESP_OTA_IMG_PENDING_VERIFY: a reset goes back (external)
    up,       \* setup() has finished, both channels accept uploads
    told,     \* history: the channels that have reported success since boot
    touched,  \* history: the partition has been changed after such a report
    unset,    \* history: esp_ota_set_boot_partition failed unnoticed
    alone,    \* history: per channel, only it has changed the partition since
              \* its upload began
    good      \* history: the image of the tool was selected, and nothing has
              \* undone that

flashVars == <<slot, running, next, pending, up>>
histVars  == <<told, touched, unset, alone, good>>
chanVars  == <<web, posts, tool, flashVars, histVars>>
cvars     == <<vars, chanVars>>

-----------------------------------------------------------------------------

Slots    == {"app0", "app1"}
Channels == {"ble", "web"}
Places   == 1 .. NChunks
Erased   == [file |-> "erased", pos |-> 0]
Garbage  == [file |-> "garbage", pos |-> 0]
Cell     == [file : Channels \cup {"factory"}, pos : Places]
                \cup {Erased, Garbage}

Firmware(f) == [p \in Places |-> [file |-> f, pos |-> p]]
Whole(s)    == \E f \in Channels \cup {"factory"} : slot[s] = Firmware(f)

\* esp_ota_get_next_update_partition
Target == CHOOSE s \in Slots : s # running

CTypeOK ==
    /\ TypeOK
    /\ web \in [pc : {"idle", "erase", "recv", "end", "select", "restart"},
                pos : 0 .. NChunks]
    /\ posts \in 0 .. MaxPosts
    /\ tool \in {"ready", "posting", "waiting", "complete", "failed"}
    /\ slot \in [Slots -> [Places -> Cell]]
    /\ running \in Slots /\ next \in Slots
    /\ {pending, up, touched, unset, good} \subseteq BOOLEAN
    /\ told \subseteq Channels
    /\ alone \in [Channels -> BOOLEAN]

WebIdle == [pc |-> "idle", pos |-> 0]

CInit ==
    /\ Init
    /\ web = WebIdle /\ posts = 0 /\ tool = "ready"
    /\ slot = [app0 |-> Firmware("factory"), app1 |-> [p \in Places |-> Erased]]
    /\ running = "app0" /\ next = "app0"
    /\ pending = FALSE /\ up = TRUE
    /\ told = {} /\ touched = FALSE /\ unset = FALSE
    /\ alone = [c \in Channels |-> FALSE] /\ good = FALSE

\* Channel c leaves `cell' at place p of the partition.
Touch(c, p, cell) ==
    /\ slot' = [slot EXCEPT ![Target] =
                  [q \in Places |-> IF q = p THEN cell ELSE @[q]]]
    /\ touched' = (touched \/ told # {})
    /\ alone' = [d \in Channels |-> d = c /\ alone[d]]
    /\ good' = (good /\ next = running)

Begins(c) == alone' = [alone EXCEPT ![c] = TRUE]

Tells(c) == told' = told \cup {c}

-----------------------------------------------------------------------------
(* BLE: the steps of BleOta and what they do to the partition.             *)

\* Steps that do not reach the partition; no step before setup() has finished.
BleOther ==
    /\ up
    /\ HostTask \/ Receive \/ StartAborts \/ BeginFails \/ WriteSkipped
         \/ CommitRejected \/ CommitFails \/ Abort \/ Drain \/ Drained
    /\ UNCHANGED chanVars

BleBegin ==
    /\ Begin
    /\ Begins("ble")
    /\ UNCHANGED <<web, posts, tool, flashVars, told, touched, unset, good>>

BleWrite ==
    /\ Write
    /\ Touch("ble", received + 1, [file |-> "ble", pos |-> writer.item.pos])
    /\ UNCHANGED <<web, posts, tool, running, next, pending, up, told, unset>>

BleWriteFails ==
    /\ WriteFails
    /\ Touch("ble", received + 1, Garbage)
    /\ UNCHANGED <<web, posts, tool, running, next, pending, up, told, unset>>

\* Mutant of BleCommit: the result of esp_ota_set_boot_partition is ignored, as
\* the HTTPS handler does.
BleCommitUnchecked ==
    /\ Commit
    /\ \/ Whole(Target) /\ next' = Target
       \/ UNCHANGED next
    /\ Tells("ble") /\ good' = FALSE
    /\ UNCHANGED <<web, posts, tool, slot, running, pending, up, touched, unset,
                   alone>>

\* esp_ota_end and esp_ota_set_boot_partition accept what is in the partition
\* if it is a whole image, whoever wrote it; else they fail (CommitFails).
BleCommit ==
    /\ Commit /\ Whole(Target)
    /\ next' = Target
    /\ Tells("ble") /\ good' = FALSE
    /\ UNCHANGED <<web, posts, tool, slot, running, pending, up, touched, unset,
                   alone>>

-----------------------------------------------------------------------------
(* HTTPS: handleOtaPost on the task of the HTTPS server.                   *)

WebGoes(pc, p) == web' = [pc |-> pc, pos |-> p]

\* The tool is run, or run again; its request reaches the handler.
Post ==
    /\ up /\ web.pc = "idle" /\ posts < MaxPosts
    /\ tool \notin {"posting", "waiting"}
    /\ tool' = "posting" /\ posts' = posts + 1
    /\ Begins("web") /\ good' = FALSE
    /\ WebGoes("erase", 0)
    /\ UNCHANGED <<vars, flashVars, told, touched, unset>>

\* esp_ota_begin(target, content_len), sector by sector
WebErase ==
    /\ web.pc = "erase"
    /\ Touch("web", web.pos + 1, Erased)
    /\ IF web.pos + 1 = NChunks THEN WebGoes("recv", 0)
                                ELSE WebGoes("erase", web.pos + 1)
    /\ UNCHANGED <<vars, posts, tool, running, next, pending, up, told, unset>>

\* httpd_req_recv, esp_ota_write
WebWrite ==
    /\ web.pc = "recv"
    /\ LET p == web.pos + 1
           c == [file |-> "web", pos |-> p]
       IN  /\ Touch("web", p, IF slot[Target][p] \in {Erased, c} THEN c
                              ELSE Garbage)
           /\ IF p = NChunks THEN WebGoes("end", 0) ELSE WebGoes("recv", p)
    /\ UNCHANGED <<vars, posts, tool, running, next, pending, up, told, unset>>

\* requests.post raises, or the reply is an error.
ToolFails == tool' = IF tool = "posting" THEN "failed" ELSE tool

\* The request ends with ESP_FAIL: no memory or partition, the connection or the
\* flash fails, or esp_ota_end does not accept the image.
WebFails ==
    /\ web.pc \in {"erase", "recv", "end"}
    /\ web' = WebIdle
    /\ ToolFails
    /\ UNCHANGED <<vars, posts, flashVars, histVars>>

\* esp_ota_end
WebEnd ==
    /\ web.pc = "end" /\ Whole(Target)
    /\ WebGoes("select", 0)
    /\ UNCHANGED <<vars, posts, tool, flashVars, histVars>>

\* esp_ota_set_boot_partition, which checks the image once more; its result is
\* ignored and "OK" is sent.
WebSelect ==
    /\ web.pc = "select"
    /\ \/ /\ Whole(Target) /\ next' = Target
          /\ good' = alone["web"]
          /\ UNCHANGED unset
       \/ unset' = TRUE /\ UNCHANGED <<next, good>>
    /\ Tells("web")
    /\ tool' = IF tool = "posting" THEN "waiting" ELSE tool
    /\ WebGoes("restart", 0)
    /\ UNCHANGED <<vars, posts, slot, running, pending, up, touched, alone>>

\* No reply, or no answer after the restart, within the time the tool waits.
ToolGivesUp ==
    /\ tool \in {"posting", "waiting"}
    /\ tool' = "failed"
    /\ UNCHANGED <<vars, web, posts, flashVars, histVars>>

\* Mutant of ToolOnline: "the race where a fast reboot looks like no reboot at
\* all": the tool does not sleep before it asks.
ToolOnlineAtOnce ==
    /\ tool = "waiting" /\ up
    /\ tool' = "complete"
    /\ UNCHANGED <<vars, web, posts, flashVars, histVars>>

\* wait_reconnect: the tool sleeps 8 s, the device restarts after 200 ms; then
\* the first answer of GET /api/current will do, whatever firmware gives it.
ToolOnline ==
    /\ tool = "waiting" /\ up /\ web.pc # "restart"
    /\ tool' = "complete"
    /\ UNCHANGED <<vars, web, posts, flashVars, histVars>>

-----------------------------------------------------------------------------
(* Restart.  The bootloader boots the selected partition if its image is   *)
(* whole, once; unless setup() confirms it, the next reset goes back.      *)

BootInto(s, unconfirmed) ==
    /\ running' = s /\ next' = s
    /\ pending' = unconfirmed

Boot ==
    /\ Reset
    /\ web' = WebIdle
    /\ IF pending THEN BootInto(Target, FALSE)
       ELSE IF next # running /\ Whole(next) THEN BootInto(next, TRUE)
       ELSE BootInto(running, FALSE)
    /\ up' = FALSE
    /\ ToolFails
    /\ told' = {} /\ touched' = FALSE /\ unset' = FALSE
    /\ alone' = [c \in Channels |-> FALSE] /\ good' = (good /\ ~pending)
    /\ UNCHANGED <<posts, slot>>

\* esp_restart() at the end of either channel
ChannelRestarts == (Restart \/ web.pc = "restart") /\ Boot

\* Power failure, brownout or a watchdog reset
PowerLoss == Boot

\* Mutant of Setup: esp_ota_mark_app_valid_cancel_rollback is left out.
SetupUnconfirmed ==
    /\ ~up
    /\ up' = TRUE
    /\ UNCHANGED <<vars, web, posts, tool, slot, running, next, pending, histVars>>

\* setup() confirms the image first thing, then starts the services.
Setup ==
    /\ ~up
    /\ up' = TRUE
    /\ pending' = FALSE
    /\ UNCHANGED <<vars, web, posts, tool, slot, running, next, histVars>>

-----------------------------------------------------------------------------

CNext ==
    \/ BleOther \/ BleBegin \/ BleWrite \/ BleWriteFails \/ BleCommit
    \/ Post \/ WebErase \/ WebWrite \/ WebFails \/ WebEnd \/ WebSelect
    \/ ToolGivesUp \/ ToolOnline
    \/ ChannelRestarts \/ PowerLoss \/ Setup

CSpec == CInit /\ [][CNext]_cvars

-----------------------------------------------------------------------------

\* main.cpp:278-281 and 451-452, the success a channel reports: the image in the
\* partition is whole and will be booted, and it is the one that channel
\* uploaded, however the two channels have interleaved.  Three things undo it:
\* the other channel changes the partition before the restart (touched), the
\* HTTPS handler ignores that the selection failed (unset), and an image is
\* another's if both have written since the upload began (alone).
OkIsBootable ==
    told # {} /\ ~touched /\ ~unset =>
        /\ Whole(Target) /\ next = Target
        /\ \A c \in told : alone[c] => slot[Target] = Firmware(c)

\* ota_upload.py:36-39 and 105, "OTA complete.": the firmware that runs is the
\* one the tool uploaded, through any loss of power, unless the update was
\* undone (good): the selection failed unnoticed, BLE wrote the partition too,
\* or the power failed before setup() confirmed the image.
CompleteIsInstalled ==
    tool = "complete" /\ good => slot[running] = Firmware("web")

\* main.cpp:1136-1137, "so the bootloader does not roll back to the previous
\* partition": once the services run, only a selected update changes what runs,
\* however often the power fails; and what runs is whole.
RunsWhatWasAccepted ==
    [][running' # running =>
          /\ next = running' \/ (pending /\ ~up)
          /\ slot'[running'] \in {Firmware(f) : f \in Channels \cup {"factory"}}]_cvars
=============================================================================
