------------------------------- MODULE Outputs ------------------------------
(***************************************************************************)
(* The readers of g_snapshot: the display (renderDisplay, main.cpp:676,    *)
(* and Display::render), the BLE beacon with its payload codec and the     *)
(* monitor that decodes it (tools/ble_monitor), the tiles of the web page  *)
(* (json_api::serializeCurrent, app.js) and the bodies of the mails.       *)
(*                                                                         *)
(* Each encodes the snapshot in its own way: the display keeps a cached    *)
(* frame and draws only what changed, the beacon sends bytes, the document *)
(* of the page has null for what is missing.  Each is shown to say what    *)
(* the snapshot it was made from says.                                     *)
(***************************************************************************)
EXTENDS Integers, Sequences

CONSTANTS
    Averages,  \* pairs <<inner, outer>> of averages, in centi-degrees
    SeqMod     \* g_bleSeq is a uint8_t: 256

kTempInvalid == -32768
Temperature  == -32768 .. 32767

ASSUME OutputsAssumption ==
    /\ Averages \subseteq Temperature \X Temperature
    /\ SeqMod \in 1 .. 256

VARIABLES
    snapshot,   \* g_snapshot: averages, advice and alarms
    connected,  \* g_wifi.isConnected()
    screen,     \* the widgets, with cached_ and firstRender_
    drawn,      \* history: what renderDisplay was last called with
    bleSeq,     \* g_bleSeq
    air,        \* the packet on the air
    sent        \* history: the snapshot that packet was made from

vars == <<snapshot, connected, screen, drawn, bleSeq, air, sent>>

-----------------------------------------------------------------------------
(* The snapshot (json_api::CurrentStatus).  The advice follows from valid  *)
(* averages only, and the diff alarm is one of its rules.                  *)

Snapshot ==
    [innerC100 : Temperature, outerC100 : Temperature,
     windowAdvice : {"open", "close"},
     fire : BOOLEAN, sensorFault : BOOLEAN, diffAlarm : BOOLEAN]

Unset == [innerC100 |-> kTempInvalid, outerC100 |-> kTempInvalid,
          windowAdvice |-> "close",
          fire |-> FALSE, sensorFault |-> FALSE, diffAlarm |-> FALSE]

Valid(t) == t # kTempInvalid

Measured ==
    {[innerC100 |-> avg[1], outerC100 |-> avg[2], windowAdvice |-> advice,
      fire |-> fire, sensorFault |-> fault, diffAlarm |-> diff] :
        avg \in Averages, advice \in {"open", "close"},
        fire \in BOOLEAN, fault \in BOOLEAN, diff \in BOOLEAN}

Snapshots ==
    {s \in Measured :
        /\ s.diffAlarm => s.windowAdvice = "open" /\ Valid(s.innerC100)
        /\ s.windowAdvice = "open" => Valid(s.outerC100)}

-----------------------------------------------------------------------------
(* The display.  A temperature is drawn as a sign, whole degrees and       *)
(* tenths, or as dashes.                                                   *)

Dashes   == [neg |-> FALSE, whole |-> -1, tenth |-> 0]
TempText == [neg : BOOLEAN, whole : -1 .. 327, tenth : 0 .. 9]

Abs(t) == IF t < 0 THEN -t ELSE t

\* fmtTemp of display_target.cpp
FmtTemp(t) ==
    IF t = kTempInvalid THEN Dashes
    ELSE [neg |-> t < 0, whole |-> Abs(t) \div 100,
          tenth |-> (Abs(t) % 100) \div 10]

\* The priority of renderDisplay.
StatusOf(s, up) ==
    IF s.fire THEN "kFire"
    ELSE IF s.sensorFault THEN "kSensorFault"
    ELSE IF ~up THEN "kWifiDown"
    ELSE "kOuterTemp"

Statuses == {"kOuterTemp", "kFire", "kSensorFault", "kWifiDown"}

DisplayFrame == [innerC100 : Temperature, outerC100 : Temperature,
                 status : Statuses, advice : {"open", "close"}]

Frame(s, up) == [innerC100 |-> s.innerC100, outerC100 |-> s.outerC100,
                 status |-> StatusOf(s, up), advice |-> s.windowAdvice]

EmptyFrame == [innerC100 |-> kTempInvalid, outerC100 |-> kTempInvalid,
               status |-> "kOuterTemp", advice |-> "close"]

\* Mutant of Same: the window icon was added and the comparison was not.
SameButIcon(f, g) ==
    f.innerC100 = g.innerC100 /\ f.outerC100 = g.outerC100 /\ f.status = g.status

\* DisplayFrame::operator==
Same(f, g) ==
    /\ f.innerC100 = g.innerC100 /\ f.outerC100 = g.outerC100
    /\ f.status = g.status /\ f.advice = g.advice

\* The second row: the word of the status, or the outer temperature.
Row2(f) ==
    CASE f.status = "kFire"        -> "FIRE!"
      [] f.status = "kSensorFault" -> "SENSOR"
      [] f.status = "kWifiDown"    -> "WiFi DOWN"
      [] f.status = "kOuterTemp"   -> "temp"

Screen == [first : BOOLEAN, cached : DisplayFrame, inner : TempText,
           row2 : {"", "temp", "FIRE!", "SENSOR", "WiFi DOWN"},
           outer : TempText, icon : {"open", "close"}]

\* Display::init: empty labels and a closed window.
BlankScreen == [first |-> TRUE, cached |-> EmptyFrame, inner |-> Dashes,
                row2 |-> "", outer |-> Dashes, icon |-> "close"]

\* Display::render.  The outer temperature is a text only in row 2.
Rendered(d, f) ==
    IF ~d.first /\ Same(f, d.cached) THEN d
    ELSE [first |-> FALSE, cached |-> f, inner |-> FmtTemp(f.innerC100),
          row2 |-> Row2(f),
          outer |-> IF f.status = "kOuterTemp" THEN FmtTemp(f.outerC100)
                    ELSE Dashes,
          icon |-> f.advice]

-----------------------------------------------------------------------------
(* The beacon.  An int16 travels as its two's-complement bytes, low first. *)

Byte == 0 .. 255

U16(t)      == t % 65536
Lo(u)       == u % 256
Hi(u)       == u \div 256
I16(lo, hi) == LET u == lo + 256 * hi IN IF u >= 32768 THEN u - 65536 ELSE u

Bit(b, weight) == IF b THEN weight ELSE 0
HasBit(f, weight) == (f \div weight) % 2 = 1

\* The bits of the flags byte (ble_payload.h).
kDiffExceeded == 1
kFire         == 2
kSensorOpen   == 4
kOneWireErr   == 8
kInnerValid   == 16
kOuterValid   == 32

\* Events of sendBleBeacon, in the internal layout.
EventsOf(s) == (IF s.fire THEN {"kFire"} ELSE {})
          \cup (IF s.sensorFault THEN {"kSensorOpen"} ELSE {})
          \cup (IF s.diffAlarm THEN {"kDiffExceeded"} ELSE {})

\* Mutant of MapFlags: the validity bits come from the sensor fault.
MapFlagsOfFault(tInner, tOuter, ev) ==
      Bit("kDiffExceeded" \in ev, kDiffExceeded)
    + Bit("kFire" \in ev, kFire)
    + Bit("kSensorOpen" \in ev, kSensorOpen)
    + Bit("kOneWireErr" \in ev, kOneWireErr)
    + Bit("kSensorOpen" \notin ev, kInnerValid)
    + Bit("kSensorOpen" \notin ev, kOuterValid)

MapFlags(tInner, tOuter, ev) ==
      Bit("kDiffExceeded" \in ev, kDiffExceeded)
    + Bit("kFire" \in ev, kFire)
    + Bit("kSensorOpen" \in ev, kSensorOpen)
    + Bit("kOneWireErr" \in ev, kOneWireErr)
    + Bit(Valid(tInner), kInnerValid)
    + Bit(Valid(tOuter), kOuterValid)

kCompanyId      == 65535
kPayloadVersion == 1

\* ble_payload::encode
Encode(tInner, tOuter, ev, seq) ==
    <<Lo(kCompanyId), Hi(kCompanyId), kPayloadVersion,
      Lo(U16(tInner)), Hi(U16(tInner)), Lo(U16(tOuter)), Hi(U16(tOuter)),
      MapFlags(tInner, tOuter, ev), seq>>

EncodeSnapshot(s, seq) == Encode(s.innerC100, s.outerC100, EventsOf(s), seq)

Payload == [1 .. 9 -> Byte]

\* monitor.py, decode: a reading whose validity bit is clear is n/a.  The radio
\* library strips the company ID, which it looks the packet up by.
NotAvailable == kTempInvalid

Decode(bytes) ==
    [inner |-> IF HasBit(bytes[8], kInnerValid) THEN I16(bytes[4], bytes[5])
               ELSE NotAvailable,
     outer |-> IF HasBit(bytes[8], kOuterValid) THEN I16(bytes[6], bytes[7])
               ELSE NotAvailable,
     flags |-> bytes[8], seq |-> bytes[9]]

\* ... and what makes it ignore a packet.
Accepted(bytes) ==
    bytes[1] + 256 * bytes[2] = kCompanyId /\ bytes[3] = kPayloadVersion

-----------------------------------------------------------------------------
(* The page.  serializeCurrent sends null for a temperature that is        *)
(* missing, and the page draws a dash; nothing is kept between two polls.  *)
(* The settings in the document are ConfigStore's.                         *)

\* JSON null: no temperature and no difference has this value.
Null == -100000

DiffOf(s) == IF Valid(s.innerC100) /\ Valid(s.outerC100)
             THEN s.outerC100 - s.innerC100 ELSE Null

OrNull(t) == IF Valid(t) THEN t ELSE Null

SerializeCurrent(s) ==
    [inner_c100 |-> OrNull(s.innerC100), outer_c100 |-> OrNull(s.outerC100),
     diff_c100 |-> DiffOf(s), window |-> s.windowAdvice,
     fire |-> s.fire, sensor_fault |-> s.sensorFault, diff_alarm |-> s.diffAlarm]

\* renderCurrent
Tiles(doc) ==
    [inner |-> doc.inner_c100, outer |-> doc.outer_c100, diff |-> doc.diff_c100,
     advice |-> doc.window,
     alarms |-> (IF doc.fire THEN {"kFire"} ELSE {})
           \cup (IF doc.sensor_fault THEN {"kSensorOpen"} ELSE {})
           \cup (IF doc.diff_alarm THEN {"kDiffExceeded"} ELSE {})]

-----------------------------------------------------------------------------
(* The mails.  %.1f rounds to the nearest tenth, where the display cuts    *)
(* off; which way a tie goes depends on the binary value.                  *)

\* A temperature to the nearest tenth, or to either if two are as near.
Rounded(t) ==
    {[neg |-> t < 0, whole |-> n \div 10, tenth |-> n % 10] :
        n \in {m \in Abs(t) \div 10 .. Abs(t) \div 10 + 1 :
                Abs(10 * m - Abs(t)) <= 5}}

\* Mutant of MailTemps: a missing temperature is printed.
MailTempsOfAny(t) == Rounded(t)

\* fmtTemp of main.cpp: what it may print.
MailTemps(t) == IF t = kTempInvalid THEN {Dashes} ELSE Rounded(t)

\* buildStatusBody
StatusBodies(s) ==
    {[inner |-> i, outer |-> o, fire |-> s.fire, sensor |-> s.sensorFault,
      diff |-> s.diffAlarm] :
        i \in MailTemps(s.innerC100), o \in MailTemps(s.outerC100)}

\* buildAlarmBody
AlarmBodies(s, isFire) ==
    {[inner |-> i, outer |-> o,
      kind |-> IF isFire THEN "kFire" ELSE "kSensorOpen"] :
        i \in MailTemps(s.innerC100), o \in MailTemps(s.outerC100)}

-----------------------------------------------------------------------------

TypeOK ==
    /\ snapshot \in Snapshot
    /\ connected \in BOOLEAN
    /\ screen \in Screen
    /\ drawn \in [s : Snapshot, up : BOOLEAN]
    /\ bleSeq \in 0 .. SeqMod - 1
    /\ air \in Payload
    /\ sent \in Snapshot

\* The packet that stands for silence is one the monitor ignores.
Silence == [i \in 1 .. 9 |-> 0]

Init ==
    /\ snapshot = Unset
    /\ connected = FALSE
    /\ screen = BlankScreen /\ drawn = [s |-> Unset, up |-> FALSE]
    /\ bleSeq = 0 /\ air = Silence /\ sent = Unset

\* The end of measurementCycle, under the lock.
Publish ==
    /\ snapshot' \in Snapshots
    /\ UNCHANGED <<connected, screen, drawn, bleSeq, air, sent>>

LinkChanges ==
    /\ connected' = ~connected
    /\ UNCHANGED <<snapshot, screen, drawn, bleSeq, air, sent>>

\* renderDisplay(snapshotCopy()), on Core 1.
RenderDisplay ==
    /\ screen' = Rendered(screen, Frame(snapshot, connected))
    /\ drawn' = [s |-> snapshot, up |-> connected]
    /\ UNCHANGED <<snapshot, connected, bleSeq, air, sent>>

\* sendBleBeacon, on Core 0.  The result of the burst is ignored: the number is
\* used up even if advertising does not start.
SendBleBeacon ==
    /\ bleSeq' = (bleSeq + 1) % SeqMod
    /\ \/ /\ air' = EncodeSnapshot(snapshot, bleSeq)
          /\ sent' = snapshot
       \/ UNCHANGED <<air, sent>>
    /\ UNCHANGED <<snapshot, connected, screen, drawn>>

Next ==
    \/ Publish \/ LinkChanges
    \/ RenderDisplay \/ SendBleBeacon

Spec == Init /\ [][Next]_vars

-----------------------------------------------------------------------------
(* Properties *)

\* How far a text is from what it shows, and with which sign.
Shows(text, t) ==
    IF text = Dashes THEN ~Valid(t)
    ELSE LET shown == text.whole * 100 + text.tenth * 10
         IN  /\ Valid(t)
             /\ text.neg <=> t < 0
             /\ Abs(t) - shown \in 0 .. 9

\* main.cpp:681-690, display_target.cpp:183-220: although the display draws
\* only what changed, it always shows what it was last asked to: an alarm
\* before anything else and fire before a fault, never an alarm that is over,
\* the inner temperature to a tenth of a degree with its sign, and the icon.
ScreenShowsLast ==
    ~screen.first =>
        LET s == drawn.s
        IN  /\ screen.row2 = "FIRE!"  <=> s.fire
            /\ screen.row2 = "SENSOR" <=> s.sensorFault /\ ~s.fire
            /\ screen.row2 = "temp"   <=> ~s.fire /\ ~s.sensorFault /\ drawn.up
            /\ screen.row2 = "temp"   => Shows(screen.outer, s.outerC100)
            /\ Shows(screen.inner, s.innerC100)
            /\ screen.icon = s.windowAdvice

\* ble_payload.h:6-31, monitor.py:49-69: a packet the monitor accepts reads as
\* the snapshot it was made from: every temperature exactly, n/a for a missing
\* one and for no other, and the alarms as they were.
MonitorReads ==
    Accepted(air) =>
        LET line == Decode(air)
        IN  /\ line.inner = sent.innerC100 /\ line.outer = sent.outerC100
            /\ HasBit(line.flags, kInnerValid) <=> Valid(sent.innerC100)
            /\ HasBit(line.flags, kOuterValid) <=> Valid(sent.outerC100)
            /\ HasBit(line.flags, kFire)         <=> sent.fire
            /\ HasBit(line.flags, kSensorOpen)   <=> sent.sensorFault
            /\ HasBit(line.flags, kDiffExceeded) <=> sent.diffAlarm
            /\ ~HasBit(line.flags, kOneWireErr)

\* json_api.h:12-13: no reading that is missing appears on the page as a
\* number, in the difference either, and what appears adds up.  A part of
\* ReadersAgree.
PageAddsUp ==
    LET page == Tiles(SerializeCurrent(snapshot))
    IN  /\ page.diff = Null <=> page.inner = Null \/ page.outer = Null
        /\ page.diff # Null =>
            /\ page.outer = page.inner + page.diff
            /\ Valid(page.inner) /\ Valid(page.outer)
        /\ page.inner = Null <=> ~Valid(snapshot.innerC100)
        /\ page.outer = Null <=> ~Valid(snapshot.outerC100)

\* The number a text stands for, in centi-degrees.
Value(text) ==
    IF text.neg THEN -(text.whole * 100 + text.tenth * 10)
    ELSE text.whole * 100 + text.tenth * 10

\* One temperature on the display, in a mail, on the page and in the beacon.
Agree(drawnText, mailed, tile, read) ==
    /\ tile = Null <=> drawnText = Dashes
    /\ tile = Null <=> mailed = Dashes
    /\ tile = Null <=> read = NotAvailable
    /\ tile # Null =>
        /\ read = tile
        /\ Abs(Value(mailed) - tile) <= 5
        /\ drawnText.neg = mailed.neg
        /\ Abs(Value(drawnText)) <= Abs(tile)
        /\ Value(mailed) - Value(drawnText) \in {-10, 0, 10}

\* display_target.cpp:107-124, json_api.cpp:27-34, main.cpp:888-898 and
\* monitor.py:60-63, four renderings of one reading: at any moment they agree
\* on what is missing, on the sign, and on the value to a tenth of a degree (a
\* mail may be a tenth further from zero than the display), and the status
\* mail names the alarms the page does.
ReadersAgree ==
    LET frame == Frame(snapshot, TRUE)
        page  == Tiles(SerializeCurrent(snapshot))
        line  == Decode(EncodeSnapshot(snapshot, bleSeq))
    IN  /\ PageAddsUp
        /\ \A body \in StatusBodies(snapshot) \cup AlarmBodies(snapshot, TRUE) :
            /\ Agree(FmtTemp(frame.innerC100), body.inner, page.inner, line.inner)
            /\ Agree(FmtTemp(frame.outerC100), body.outer, page.outer, line.outer)
        /\ \A body \in StatusBodies(snapshot) :
            page.alarms = (IF body.fire THEN {"kFire"} ELSE {})
                     \cup (IF body.sensor THEN {"kSensorOpen"} ELSE {})
                     \cup (IF body.diff THEN {"kDiffExceeded"} ELSE {})
=============================================================================
