---------------------------- MODULE OtaProperties ----------------------------
(***************************************************************************)
(* What the BLE update promises, and what its comments promise.            *)
(***************************************************************************)
EXTENDS BleOta

\* main.cpp:197, "active: true only while writer has a valid handle": whenever
\* the writer finds `active' set, the handle it then passes to esp_ota_write,
\* esp_ota_end or esp_ota_abort is open, although callbacks clear the flag
\* without a lock in the middle of the writer's work.
ActiveHandleIsOpen == active => handle \in open

\* The chunks written through the handle are those of one upload, in order,
\* and `received' counts them: neither a chunk left in the queue by an upload
\* that was cut off nor one the callback was about to queue gets into the next
\* image (main.cpp:319-322, 232-240).  Only a tool that connected again before
\* the writer had emptied the queue can mix two uploads.
OneUploadInFlash ==
    active /\ ~lagged =>
        /\ received = Len(flash)
        /\ \A i \in 1 .. Len(flash) : flash[i].sess = handle
        /\ \A i, j \in 1 .. Len(flash) : i < j => flash[i].pos < flash[j].pos

\* The size check of COMMIT (main.cpp:257) suffices: whatever was dropped,
\* drained or retried before, the image made bootable is a whole image of one
\* upload, even if esp_ota_end were to accept anything; with the same proviso.
BootsWholeImage == boot # <<>> /\ ~lagged => \E s \in Sessions : boot = Image(s)

\* A callback blocked on the full queue (main.cpp:370, portMAX_DELAY) stops the
\* whole BLE host task; the writer always makes room again.
HostUnblocks == (host = "full") ~> (host # "full")

\* main.cpp:380-382, "so writer task cleans up if a session was in progress":
\* whatever is dropped, lost, retried or fails, no handle is left open but that
\* of the active session and those whose session met a full queue: there the
\* callback clears `active' before its abort sentinel reaches the writer, which
\* then closes nothing (main.cpp:367, 244).
OnlyFullQueueLeaks == open \subseteq givenUp \cup IF active THEN {handle} ELSE {}
=============================================================================
