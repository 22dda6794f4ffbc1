# Thermometer firmware: TLA+ models, checks and proofs

This directory models the ESP32-S3 thermometer of this repository: two DS18B20
sensors, window advice, fire and fault alarms on a buzzer and by e-mail, a
display, a web page, a history, a BLE beacon, and firmware update over BLE and
HTTPS. Paths like `main.cpp:745` mean `src/main.cpp` of the repository; `core/`
and `hal/` lie under `src/`.

The models are translated from the code, not from the documents. Where a comment
or the specification promises something the code does not keep, section 5 says
so.

## 1. Inventory

The firmware is one image with static tasks, shared globals and three queues.

| Part | Runs on | State | Operations | Talks to |
|---|---|---|---|---|
| Measurement cycle (`measurementCycle`) | Core 1, every 60 s | two buses, two `AnomalyDetector`, two `MovingAverage`, `AlarmState`, `Advisor`, `g_config` | read, classify, average, update alarms and advice, publish | latches `g_webConfig` and publishes `g_snapshot` under `g_mux`; calls the buzzer |
| Buzzer (`BeepEngine`) | Core 1 ticks it, the web plays tests | pattern, start, duration, `fireMode`, `active` | `play*`, `tick`, `setEnabled` | written by Core 1 (no lock) and by the web task (under `g_mux`) |
| History (`HistoryBuffer`, `appendHistory`) | Core 1, every 10 min | ring of 1008 records, `g_windowFlags` | append, read | the mail task adds flags; the web copies and serialises it |
| Web task (`core0Task`) | Core 0 | WiFi backoff, server state, `now` | reconnect, serve requests, beacon, `checkEmail` | `g_webConfig`, NVS, buzzer tests, mail queue |
| Mail pipeline (`checkEmail`, `mailTask`, `EmailPolicy`) | two tasks on Core 0 | policy (edge, anchor), pending flags, queue of 4 | decide, queue, send, anchor | snapshot copies; `g_mux` |
| Configuration (`ConfigModel`, `NvsStore`) and the page's form | setup, web task, Core 1, browser | NVS keys, `g_webConfig`, `g_config`, backlight; form and message | load, validate, save key by key, latch; fill, submit | `g_mux`, HTTP |
| BLE update | NimBLE host task (Core 0), writer task (Core 1) | `s_bleOta` (no lock), queue of 8 chunks, update partition | START, DATA, COMMIT, ABORT, disconnect; begin, write, end, abort, restart | `tools/ble_ota.py` |
| HTTPS update (`handleOtaPost`) and boot | its own server task, bootloader, `setup` | the same update partition, boot selection | erase, receive, write, end, select, restart; confirm | `tools/ota_upload.py` |
| BLE beacon | Core 0, every 60 s | sequence number, last time | encode, burst | skipped while a GATT client is connected; `tools/ble_monitor` |
| Display (`renderDisplay`, `Display::render`) | Core 1 | cached frame, widgets | render what changed | a snapshot |
| JSON API (`json_api`) and tiles of the page | web task, browser | two static buffers | `serializeCurrent`, `serializeHistory` | a snapshot, a copy of the history |
| Event log | five tasks | ring of 32 entries, no lock | append | nothing reads it back on the device |
| Drivers, fakes, tests, CI, generators | | | I/O | |

Hard behaviour, by theme (every item with its line is in `PROJECT.json` under
`hazards`):

- interleavings of tasks on two cores, partly without a lock (BLE update context,
  buzzer, event log), partly with several critical sections where one decision
  spans two of them (mail, history), and two update channels on one partition;
- bounded queues and buffers: a send that fails or blocks, a document that must
  not outgrow its buffer;
- a clock of 32 bits that wraps after 49.7 days, read at different moments by
  tasks that compare what they read;
- power loss between two writes to the flash or between selecting and confirming
  an image; writes and selections that fail;
- sensors that fail, flap, or give implausible values; links that come and go;
- one reading shown by four readers, each in its own format, one of them cached.

What makes each part correct:

- mail: one mail per edge and outstanding at a time; no flag left behind; the
  mail shows its alarm; the rate limit; nothing lost that is promised a retry;
- update: the handle used is open and none is forgotten; chunks of two uploads
  never mix; only a whole image becomes bootable; a reported success is one; the
  host task is never blocked for good;
- buzzer: fire has priority, sounds at once and again while it lasts, and ends;
- measurement: advice only on full windows; implausible values in no average;
  a broken sensor shows as fault; a fire neither starts nor ends by a lost sensor;
- history: the most recent records in order, every event in exactly one record;
  the page gets one moment of it, whole;
- configuration: never invalid in use; what was acknowledged is stored, restored,
  and shown when the page is loaded again; the page's message is true;
- WiFi and beacon: attempts never stop, the web comes back with the access point,
  and a scan finds the device;
- display, beacon, page, mail: what is shown is the latest snapshot, and the four
  never contradict one another;
- event log: overlapping appends stay in range and leave nothing behind.

## 2. Modules

| Component | Specification | Abstract specification, composition | Instance for TLC | Proofs |
|---|---|---|---|---|
| Mail pipeline | `MailPipeline` | `AlarmMailContract` (refined), `MailHistory` | cfg files | `MailProofs` |
| BLE update | `BleOta` | properties in `OtaProperties` | cfg file | `OtaProofs` |
| HTTPS update, boot | `OtaChannels` | composes `BleOta` with the HTTPS channel, the bootloader and `ota_upload.py` | cfg file | `OtaProofs` |
| Buzzer | `Siren` | | cfg file | `SirenProofs` |
| Measurement | `Measurement` | | `MCMeasurement` | `MeasurementProofs` |
| History | `History` | `HistoryContract` (refined); `HistoryApi` composes it with the web request | cfg file | `HistoryProofs` |
| Configuration | `ConfigStore` | `WebPage` composes it with a browser and other clients | `MCConfigStore` | `ConfigProofs` |
| WiFi, servers, beacon timing | `WifiSupervisor` | | cfg file | `WifiProofs` |
| Display, beacon content, tiles, mail bodies | `Outputs` | | `MCOutputs` | `OutputsProofs` |
| Event log | `EventLog` | | `MCEventLog` | `HistoryProofs` |

Conventions. One action is what a task does between two points where another
task can act on what it touches: a critical section, a queue call, an access to
unlocked shared data, a reading of the clock. Program counters (`web.pc`,
`writer.pc`, `core.pc`, `host`) say where a task is; locals that live across
such a point are fields beside the counter. Definitions called "Mutant of X"
stand before X; no specification uses them. They are the bugs the checks must be
able to see: with X replaced by its mutant, the property named in `PROJECT.json`
is violated. Variables marked "history" exist in no code; they record what the
properties speak of.

How state and actions correspond to the code:

- `MailPipeline`. `web` is an iteration of `core0Task`: `top` (reads the clock,
  main.cpp:1059), `serve` (`handleClient`), `copy` (`snapshotCopy`), `check`
  (the critical section of `checkEmail`), `enqueue` (one queue call per due
  type, fire first). `mail` is the job `mailTask` is sending. `policy` is
  `g_email`. Core 1 latches the configuration and publishes a snapshot with any
  alarms: which alarms follow one another is the business of `Measurement`.
- `BleOta`. `host` is the callback in progress, `writer` the writer task with
  the item in hand. A GATT write of the client and the first part of its
  callback are one action; further accesses of the callback to `active` and the
  queue are actions of their own. The client is `tools/ble_ota.py`, with the
  moment between the answer to START and `ota_done.clear()`. Handles are named by
  the session that opened them, chunks by session and position, so that mixing is
  visible. `lagged` and `givenUp` are history variables.
- `OtaChannels`. The BLE actions carry over with what they do to the partition;
  `web` is `handleOtaPost`, one action per `esp_ota_*` call. A chunk in flash is
  named by its file and place; a write on flash that is not erased leaves
  garbage. `Boot` is the reset with the bootloader's choice: the selected image
  once, if it is whole; back from one that is unconfirmed. `Setup` confirms the
  image before any service runs. `tool` is `ota_upload.py` from the post to its
  last line.
- `Siren`. `core` is an iteration of `core1Task` with the parts of
  `measurementCycle` that touch the buzzer. The web's stores of the fields
  happen one by one and in any order: they race with Core 1, and plain stores
  may be reordered. The guard of the `play*` method is a step before them. `raced`
  and `late` are history variables: has a test stored since the edge of the fire
  alarm in this iteration, or since `tick()` found the pattern expired; has a fire
  pattern begun since the test in flight passed its guard. What
  `AlarmState::update` finds is chosen in the step that first uses it. A tone and
  a melody are one pattern of two lengths, and of the PWM channel the model keeps
  whether it plays the siren.
- `Measurement`. The cycle is one action because it shares only the
  configuration it latches first and the snapshot it publishes last.
- `History`. `appendHistory` is two actions, the copy of the snapshot and the
  critical section; `AddWindowFlags` is the mail task. `Contents` is what the
  web reads. `HistoryApi` is `handleApiHistory`: the copy under the lock, then
  one action per record of `serializeHistory` with the length it has reached.
- `ConfigStore`. `saveConfig` is one action per put. `Stop` is any loss of RAM at
  any moment. `kept` records per key what a reply "ok" has promised. The pair
  fire threshold/hysteresis is valid only together; the contrast stands for the
  six keys valid by themselves. `WebPage` is one browser page: it fills its form
  from the first `GET /api/current`, submits, and reports; other clients post
  too; connections and the device may be lost at any step. A submission is the
  form as the device clamps it (main.cpp:583), and one at a time: `app.js` does
  not disable the button, so two may be in flight, which the model does not offer.
- `WifiSupervisor`. `begin()` only starts an association, and starting it again
  cuts it off; the access point and the outcome are external. The beacon is part
  of the same loop: bursts of `Burst` ticks, skipped while a GATT client is
  connected, endless advertising after one has left.
- `Outputs`. `Publish` is the end of a measurement cycle with any averages;
  `RenderDisplay` draws into the widgets only what the comparison with the cached
  frame finds changed; `Beacon` makes nine bytes. Page and mails have no state
  and are operators of the snapshot. A text is its sign, whole and tenth, so that
  cutting (display) and rounding (mail) are computed and not assumed.
- `EventLog`. `append` is one action per load and store of `head_`, `count_` and
  the entry, whose two stores can be mixed with another task's.

## 3. Runs

| Run | Question | Bounds |
|---|---|---|
| `MCMail` | do flags and mails on their way agree, does a mail carry its own snapshot, is the contract of SPECIFICATION section 7 implemented for both types, is every mail resolved | both types, queue of 1, one tick of a clock without interval |
| `MCMailRate` | is the rate limit kept but for the one race | one type, queue of 2, interval 2, clock wraps |
| `MCMailDocRetry` | (violation) is a mail that met a full queue retried, as the comment says | one type, queue of 1 |
| `MCOta` | handles, chunks, bootable image; does a blocked callback go on; which handles are forgotten | 4 chunks, queue 2, 4 uploads, link and flash may fail |
| `MCChannels` | what a success reported by either channel, and by the tool, is worth; what the bootloader may run | 2 chunks, queue 1, 2 uploads over BLE and 2 over HTTPS, power fails anywhere |
| `MCSiren` | fire priority; does the siren recur and stop | a tone and a fire test and their races (a melody test is a tone of another length), beeper toggled, clock wraps |
| `MCMeasure` | advice, averages, fault, fire | windows of 3, threshold 3; implausible cold, room, just below fire, sentinel inside; below and above the vent rule outside |
| `MCHistory` | is the ring a bounded list, each event in one record, the document one moment of it | capacity 2; a buffer that the largest document does not fit |
| `MCConfig` | valid in use, stored, restored; message and form of the page true | two values per key with an invalid combination, open and puts may fail, any other clients |
| `MCWifi` | attempts in time, web comes back, a scan finds the device | backoff 1 to 5, association 3, period 6, clock of 9 |
| `MCLog` | does the log stay in range and recover from overlaps | three tasks, two messages, capacity 2, symmetric |
| `MCOutputs` | does every reader show the latest snapshot, and do they agree | a reading that is cut to zero, one of four digits, each sensor missing; every alarm |

Why the bounds are enough. The queue lengths are reached and exceeded by the
sends on offer, so "full" is an ordinary state. A ring of 2 wraps at every
second record, and the buffer of `MCHistory` is one that two full records
exceed and one does not. Windows of 3 distinguish empty, partial with a valid
sample (the first reading never is one), full with valid and full with invalid
samples. Every clock a property of the run depends on wraps: the moduli are small
and greater than the longest interval compared, as the code's are. Four uploads
give at least one that is cut off, one that meets its remains, and one after
that; two on each channel let each disturb the other and one follow it.
Temperatures are chosen around each threshold. For most properties the bounds do
not matter at all, being proved (section 6).

Deadlock is checked in all runs but the two with updates: there the clients may
simply stop after their last upload.

Two bounds hide real numbers that the proofs take up. A history record is at most
34 characters and its frame 64, so 1008 records need 34336 of the 36000 bytes of
the buffer, which is the premise of `ApiNeverRefuses`. The other documents were
counted by hand and are far from their buffers: current status at most 445 of
768, status mail 337 and alarm mail 215 of 512.

## 4. Fairness and assumptions

- Mail: weak fairness of the web task and of the mail task. The web task blocks
  only in a delay and is supervised by the watchdog; a send ends by the TCP
  timeout of the mailer (main.cpp:1003-1005). Nothing obliges alarms, links or
  requests.
- BLE update: weak fairness of the writer, which has the highest priority on its
  core and whose flash calls return, and of a callback that can go on. The
  client may stop anywhere.
- Buzzer: time passes, Core 1 runs its loop (watchdog), and a web handler that
  has started returns. Nobody is obliged to press a button.
- WiFi: time passes, the web task runs, and an association that is left alone
  for its full time succeeds. One that is cut off need not.

`LagMs` (buzzer, WiFi) says that one iteration of a task's loop ends within that
time; the watchdog guarantees some such bound, and what the margins must cover is
part of the properties. Three assumptions about the surroundings: starting the
advertising does not fail; NimBLE answers a start while already advertising
without effect; `ota_upload.py` sleeps 8 s, which is longer than the 200 ms
after which the device restarts, so its first question comes after the restart.

## 5. Where code and documents disagree

`MCMailDocRetry` is a run that checks one property, which states the quoted line;
TLC finds it violated by what the code does: "queue full - retry next cycle"
(main.cpp:989), but the edge is already consumed and there is no retry.

Two more statements of documents are definitions that no run lists. Added to the
run's cfg as INVARIANT or PROPERTY, TLC refutes them:

- `SirenWhileFire` (`Siren`, add as INVARIANT to `MCSiren.cfg`), "keep sounding
  while the fire condition holds" (main.cpp:746): burst and period are both 60 s,
  so the siren is silent every other minute of a fire. `SirenRecurs` holds.
- `FireFromPlausibleReading` (`Measurement`, add as PROPERTY to
  `MCMeasure.cfg`), the 85 degree sentinel "treated as SENSOR_OPEN"
  (Config.h:80): it raises the fire alarm.

The others were met while modelling; where a checked property says how far the
promise holds, it is named.

- `email_policy.h:12` promises the interval between mails. The mail task anchors
  it with a later clock (main.cpp:1024) than the one the web task compares with
  (main.cpp:1059); the unsigned difference underflows and a second mail goes out
  at once. `RateLimitUnlessRaced`: only then.
- `email_policy.cpp:18` calls the difference wrap-safe. The anchor is never aged:
  for an hour about 49.7 days after a mail, a new alarm is held back.
- main.cpp:966 "the policy runs every cycle": not without a link (main.cpp:963),
  so an alarm that clears and comes back during an outage is not mailed.
- main.cpp:380 "writer task cleans up": after "queue full" the update handle stays
  open. `OnlyFullQueueLeaks`: only then.
- main.cpp:365 "queue full - should not occur": the response to a DATA write is
  sent when the chunk is queued, not when it is written.
- main.cpp:174 START, DATA, COMMIT: START is answered before the session is open;
  a DATA that overtook the writer would be dropped in silence (main.cpp:350).
- main.cpp:451 ignores the result of `esp_ota_set_boot_partition`, which checks
  the image once more: it replies "OK" and `ota_upload.py:105` prints "OTA
  complete." while the old firmware runs, also if a BLE upload has written the
  partition in between. `OkIsBootable`, `CompleteIsInstalled`: only then, or if
  the power fails before the new image is confirmed.
- `web/index.html:69`: the number fields are empty until the first status has
  arrived and are not required. Submitted before, `NaN` becomes 0 and is clamped
  to thresholds of 0.01 degrees, which validate: a fire alarm.
- main.cpp:577 "out-of-range -> fallback": the value is clamped.
- `app.js:183` says that after a failed save the configuration is lost at a
  restart: the keys whose put succeeded stay. `MessageIsTrue` states what is true
  of each message.
- `app.js:70-72` rounds what the API accepted in hundredths to tenths, so saving
  an unedited form changes thresholds another client has set that finely.
- `beep_engine.h:17` tones yield to fire: a tone test between its guard and its
  stores replaces a fire pattern that begins there (`late`). And a fire test
  stored just when `tick()` has found the pattern before it expired is silenced
  with it (`beep_engine.cpp:76`). `FireOwnsBuzzer`: only these two. A fire test
  during a fire is no race: it restarts the pattern as a burst of 3 s, and the
  next cycle that finds the engine inactive re-arms the long one.
- `beep_engine.cpp:74` "correct across a wrap": a test stored after Core 1 read
  the clock has a start in the future and expires unheard.
- SPECIFICATION FR-04 asks for three errors in a row: one CRC error raises the
  sensor fault (`anomaly.cpp:22`).
- main.cpp:725 "exactly 10 samples": a full window may hold one valid sample.
- SPECIFICATION FR-06, all flags of the window: an alarm that comes and goes
  between two records is in none (main.cpp:807).
- README.md:218, settings survive a restart: a power loss between two puts can
  leave a pair that does not validate, and the next boot resets every setting.
  `BootRestoresSaved`: not if the last request was acknowledged.

More remarks. When the tool connects again before the writer has emptied the
queue (`lagged`; `tools/ble_ota.py` scans and connects for seconds, so hardly
ever), chunks of two uploads can mix, and only the verification in `esp_ota_end`
protects the boot partition. The display cuts a temperature towards zero, a mail
rounds it: they may differ by a tenth, and `ReadersAgree` says by no more.
SPECIFICATION FR-05 says 144 records, the code keeps 1008.

## 6. Proofs

All theorems hold for every value of the constants that satisfies the module's
named assumption. The assumptions are what the code's constants satisfy (depths
positive, a hysteresis below its threshold, a modulus greater than the intervals)
and TLC evaluates them in each run.

- `MailProofs`. Inductive invariant `MailInv`: type correctness, `OneMailPerFlag`,
  `MailShowsItsAlarm`, and `DueWhileEnqueueing` (nothing is due outside
  `enqueue`). The last is the strengthening: without it a stale `web.due` would
  count as a mail on its way when the next check runs. `WebCheck` starts a mail
  only where no flag is set, `WebEnqueue` and `MailReceive` move it, the three
  ends of a mail clear the flag. From the same invariant each step is a step of
  `AlarmMailContract` for fire (`FireImplements`) and for the sensor fault
  (`SensorImplements`); this is the safety part of the refinement.
  `RateLimitAlways`: `RateInv` ties the anchor of the policy to the real time of
  the last mail (`Anchored`: its value on the clock face), and the time
  the web task has read to the clock (it is never ahead). The code compares
  differences on the clock face; one is never greater than the real difference
  (`FaceIsShorter`), so what the policy lets pass has waited long enough, however
  often the clock has wrapped.
- `OtaProofs`. `ActiveHandleIsOpen` is inductive by itself: callbacks only clear
  the flag, and every place where the writer closes the handle clears it in the
  same step. `LeakInv` adds types and that the writer begins a session only after
  it has ended the one before, which gives `OnlyFullQueueLeaks`.
  `UploadInv` follows the chunks: what stands between the tool and the flash is
  one line, the queue behind the item the writer holds. Every item of the queue
  is of the latest session; while an older session is still active the START is
  at its head (`StartNext`) or in the writer's hands; and each chunk is further on
  in the image than those ahead of it and those in the flash. Hence
  `OneUploadInFlash`. Places that rise from 1 and are as many as the image has
  chunks are all of them (`WholeImage`), so the size check of COMMIT gives
  `BootsWholeImage`. `LineHost` and `LineWriter` keep the line, with a lemma for
  each step that moves an item.
  Both channels together: `BootInv`, what runs is whole, and while a new image is
  unconfirmed the one before it is whole too, because no channel writes before
  `setup()` has confirmed it; hence `OnlyAcceptedRuns`. `GoodInv` follows the
  HTTPS upload: `Progress` says how much of the partition is erased or written if
  no one else has touched it, which makes the image at `esp_ota_end` the tool's;
  selected, it is whole, so the bootloader takes it; and as the tool asks only
  after the restart, "OTA complete." finds it running (`CompleteIsTrue`).
  `ChanTypeInv` gives the types; for the partition it needs `ItemsInv`, that a
  START, queued or being handled, finds the size announced before it, and that
  every chunk has a place in the image (positions from 1). `ReportInv` is
  what makes a reported success true: the last cell of the partition tells whose
  whole image it is, a channel that has reported does nothing more than restart,
  and the other one leaves a mark (`Touch`) in the step in which it writes; hence
  `OkIsAlwaysBootable`, with the exceptions its property names (section 5,
  main.cpp:451).
- `SirenProofs`. `SirenInv`: types, the shape of the web task's pending stores
  (`WebOK`: they are those of one play* call, so any mixture of fields stays an
  engine), the lag of Core 1, and `RiseInv`, which follows the iteration in which
  the fire alarm rises from `CycleAlarms` to `tick`: unless the web has stored
  into the engine since that edge, `playFire` has replaced whatever played, and nothing
  after it in the cycle does. What is left is that `tick` does not find the burst
  expired: it has lasted no longer than the iteration. This is where the proof
  needs `LagMs < BurstMs`, an assumption the instances had satisfied silently; in
  the code it says that an iteration takes less than 60 s, and the watchdog
  allows 8 (Config.h:281). `SirenOwnsBuzzer` is
  the action property. `OwnInv` is what it needs: a test in flight past its guard
  while a fire pattern plays is a fire test, unless the pattern began later; this
  is carried over every store of one field, whatever mixture of patterns the
  engine holds (`OfFire`). And at `TickExpires` the pattern is still the one found
  expired, unless a test has stored since.
- `MeasurementProofs`. `MeasurementInv`: the shape of the state, the snapshot in
  step with alarms and advice (`InStep`), `AdviceNeedsFullWindows` and
  `ErrorsShowAsFault`. `FireOnlyByReading` is the action property.
  `QuietWindowIsCyclic` relates the three cases of `inQuietWindow` to one
  reference definition. `AveragesAlwaysPlausible` is an
  induction over the loop of `average()`: the sum of the samples counted so far
  lies between their number times the least and the greatest valid temperature
  (`TotalsBounded`), whence the truncating quotient does (`QuotientBounded`), and
  what a window holds is plausible or `Invalid` (`SamplesPlausible`).
- `HistoryProofs`. `HistoryImplements`: type correctness is invariant; a lemma
  about the index arithmetic (`SlotShift`) shows that appending advances every
  slot by one, from which `Contents` after `AppendRecords` is the tail or the
  whole of the old contents with the new record at its end. `HistoryInv` adds
  that the recorder's snapshot is the current one while it is at work, which is
  what makes the flags agree with the temperatures. `ApiInv`: the document is a
  prefix of the copy, and its length the sum of what the loop has written
  (`Upto`, by induction over the loop). The sum only grows, so a request that
  found no room for a record could not have been answered whole
  (`WholeIsLonger`): `ApiAlwaysTellsAll`; and each record adds at most
  `MaxRecord`: `ApiNeverRefuses`, if the buffer has room for the largest document.
  The event log's ring uses the same arithmetic. `LogTypeCorrect` holds however
  appends interleave, since whatever index a task holds was in range and the next
  one is taken modulo the capacity. `LogInv` is about an append that runs alone:
  every entry but the one it writes over is still that of `since` (`HoldsBut`),
  its slot is the head until it moves the head on, and then the slots before the
  head hold `since` with the new message (`HoldsNext`); after an overlap `since`
  starts empty, and nothing needs to be known of the buffer. Hence
  `NewestAlwaysKept`.
- `ConfigProofs`. `ConfigInv`: type correctness, three state properties, and
  two strengthenings: `SaveInProgress` (what the puts done so far have left in
  the flash, as long as none failed) and `KeptIsValid` (what was promised as a
  whole validates, hence is not reset by the next boot). `PageInv` on top of it:
  what the page was last told is in use, and an answer on its way to a page
  carries it; hence `MessageAlwaysTrue` and `ReloadsShowSaved`.
- `WifiProofs`. `WifiInv` bounds `waited` and `unheard` by the differences of the
  clock the code computes plus the lag of the iteration: `WaitBound` and
  `BeaconBound`; both bounds include that lag. The work is in the wrapping clock: lemmas show that an interval
  shorter than the modulus is measured exactly across one wrap.
- `OutputsProofs`. `IInv`: the widgets are those of a fresh render of the last
  frame asked for, although most calls draw nothing, and the packet on the air is
  the encoding of one snapshot. The rest is arithmetic for every 16-bit
  temperature: two bytes give the word back (`WordRoundTrip`), a flag set is read
  back bit by bit, cutting and rounding differ by at most a tenth and keep the
  sign (`CutAndRounded`, `TextsAgree`).

Every safety property the runs check is a theorem. The exceptions are in the
two properties that include liveness, `FireContract` and `SensorContract`: their
safety part is proved (`FireImplements`, `SensorImplements`).

Induction. The prover cannot instantiate the library's induction schemes, whose
parameter is an operator. Where a loop has to be followed for any length, the
statement is turned into a set of natural numbers: the least number outside it
would have a predecessor inside (`LeastNatural`, from the well-foundedness of
the order; `SetInduction`).

Only model-checked: liveness, as the prover handles neither fairness nor
ENABLED. These are the live parts of the mail contract, `HostUnblocks`,
`SirenRecurs`, `SirenStops` and `WebComesBack`; and the refutation
`RetriesAfterQueueFull`.

## 7. Not modelled, and why

- Watchdog and task layout: no state of their own; the watchdog justifies the
  fairness and lag of section 4, and a reset by it is a `Stop`, `Reset` or `Boot`.
- Of the page: the chart and the action buttons. Of the display: fonts, positions
  and colours, LVGL and its flush callback; the icons are generated bitmaps. Of
  the JSON document and the mails: digits, wording, and the diagnostic fields
  (uptime, heap, RSSI, ROM identifiers), which nothing decides upon.
- Of the BLE update: a device without an update partition (main.cpp:313-317),
  writes the tool never sends; of the registration of the service its outcome only.
- Drivers and host fakes: I/O; what the application relies on is stated where the
  models use it. `web_assets.h` is generated from the page. Tests, CI,
  generators; `app/wiring.h`, which `main.cpp` does not use.
- Five of the hazards in `PROJECT.json` have no property; the note with
  each says why (a limit the code simply has, or a client that cannot exist).

## 8. Plan

Done, in the order of importance: mail pipeline and its contract; BLE update;
buzzer; measurement; history; configuration; WiFi supervision; then both update
channels with the bootloader and the tool, the page, the history request, the
beacon, the display and the mails, and the event log.

Next:
1. A composition of `Measurement`'s alarms with `MailPipeline` and `Siren`
   through the snapshot: from a reading to a mail and to the siren.
2. Proofs about that composition. Those of the components are complete but for
   liveness.
