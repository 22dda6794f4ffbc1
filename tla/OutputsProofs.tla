---------------------------- MODULE OutputsProofs ----------------------------
(***************************************************************************)
(* What the readers of the snapshot show, for every pair of averages and   *)
(* every modulus of the sequence number.  The codecs are lemmas over all   *)
(* 16-bit values; the display needs the invariant that the widgets are     *)
(* those of a fresh render of the last frame asked for.                    *)
(***************************************************************************)
EXTENDS Outputs, TLAPS

-----------------------------------------------------------------------------
(* The codecs *)

\* The high digit of a number of two digits, for the bases in use.
LEMMA HighDigits ==
    ASSUME NEW n \in Int, NEW hi \in Int, NEW lo \in Int
    PROVE  /\ n = lo + 256 * hi /\ 0 <= lo /\ lo <= 255 /\ 0 <= n /\ n <= 65535
                => 0 <= hi /\ hi <= 255
           /\ n = 100 * hi + lo /\ 0 <= lo /\ lo <= 99 /\ 0 <= n /\ n <= 32767
                => 0 <= hi /\ hi <= 327
           /\ n = 10 * hi + lo /\ 0 <= lo /\ lo <= 9 /\ 0 <= n /\ n <= 99
                => 0 <= hi /\ hi <= 9
  OBVIOUS

\* An int16 sent as two bytes, low first, is read back as itself.
LEMMA WordRoundTrip ==
    ASSUME NEW t \in Temperature
    PROVE  /\ I16(Lo(U16(t)), Hi(U16(t))) = t
           /\ Lo(U16(t)) \in Byte /\ Hi(U16(t)) \in Byte
<1> DEFINE u == t % 65536
<1>1. t \in Int /\ -32768 <= t /\ t <= 32767
  BY DEF Temperature
<1>2. u = IF t < 0 THEN t + 65536 ELSE t
  BY <1>1
<1>3. u \in 0 .. 65535
  BY <1>1, <1>2
<1> HIDE DEF u
<1> DEFINE lo == u % 256
           hi == u \div 256
<1>4. lo + 256 * hi = u /\ lo \in 0 .. 255 /\ hi \in Int
  BY <1>3
<1>5. lo = Lo(U16(t)) /\ hi = Hi(U16(t))
  BY DEF U16, Lo, Hi, u
<1> HIDE DEF lo, hi
<1>6. hi \in 0 .. 255
  <2>1. /\ u = lo + 256 * hi /\ u \in Int /\ hi \in Int /\ lo \in Int
        /\ 0 <= lo /\ lo <= 255 /\ 0 <= u /\ u <= 65535
    BY <1>3, <1>4
  <2> QED
    BY <2>1, HighDigits
<1>7. I16(lo, hi) = t
  <2>1. I16(lo, hi) = IF u >= 32768 THEN u - 65536 ELSE u
    BY <1>4 DEF I16
  <2>2. u \in Int /\ 0 <= u /\ u <= 65535
    BY <1>3
  <2> QED
    BY <1>1, <1>2, <2>1, <2>2
<1> QED
  BY <1>4, <1>5, <1>6, <1>7 DEF Byte

\* The six bits of the flags byte are read back one by one.
LEMMA FlagsRoundTrip ==
    ASSUME NEW d \in {0, 1}, NEW f \in {0, 2}, NEW s \in {0, 4},
           NEW i \in {0, 16}, NEW o \in {0, 32}
    PROVE  LET b == d + f + s + 0 + i + o
           IN  /\ b \in Byte
               /\ HasBit(b, 1) <=> d = 1
               /\ HasBit(b, 2) <=> f = 2
               /\ HasBit(b, 4) <=> s = 4
               /\ ~HasBit(b, 8)
               /\ HasBit(b, 16) <=> i = 16
               /\ HasBit(b, 32) <=> o = 32
  BY DEF HasBit, Byte

\* MapFlags and the reader of its byte agree on every bit.
LEMMA MapFlagsReads ==
    ASSUME NEW s \in Snapshot
    PROVE  LET b == MapFlags(s.innerC100, s.outerC100, EventsOf(s))
           IN  /\ b \in Byte
               /\ HasBit(b, kInnerValid) <=> Valid(s.innerC100)
               /\ HasBit(b, kOuterValid) <=> Valid(s.outerC100)
               /\ HasBit(b, kFire) <=> s.fire
               /\ HasBit(b, kSensorOpen) <=> s.sensorFault
               /\ HasBit(b, kDiffExceeded) <=> s.diffAlarm
               /\ ~HasBit(b, kOneWireErr)
<1> DEFINE ev == EventsOf(s)
           d == Bit("kDiffExceeded" \in ev, 1)
           f == Bit("kFire" \in ev, 2)
           p == Bit("kSensorOpen" \in ev, 4)
           i == Bit(Valid(s.innerC100), 16)
           o == Bit(Valid(s.outerC100), 32)
<1>1. /\ "kDiffExceeded" \in ev <=> s.diffAlarm
      /\ "kFire" \in ev <=> s.fire
      /\ "kSensorOpen" \in ev <=> s.sensorFault
      /\ "kOneWireErr" \notin ev
  BY DEF EventsOf, Snapshot
<1>2. /\ d \in {0, 1} /\ (d = 1 <=> s.diffAlarm)
      /\ f \in {0, 2} /\ (f = 2 <=> s.fire)
      /\ p \in {0, 4} /\ (p = 4 <=> s.sensorFault)
      /\ i \in {0, 16} /\ (i = 16 <=> Valid(s.innerC100))
      /\ o \in {0, 32} /\ (o = 32 <=> Valid(s.outerC100))
  BY <1>1 DEF Bit
<1>3. MapFlags(s.innerC100, s.outerC100, EventsOf(s)) = d + f + p + 0 + i + o
  BY <1>1 DEF MapFlags, Bit, kDiffExceeded, kFire, kSensorOpen, kOneWireErr,
              kInnerValid, kOuterValid
<1> HIDE DEF d, f, p, i, o, ev
<1> QED
  BY <1>2, <1>3, FlagsRoundTrip
     DEF kDiffExceeded, kFire, kSensorOpen, kOneWireErr, kInnerValid, kOuterValid

\* What MonitorReads says of a packet and the snapshot it was made from.
Reads(bytes, s) ==
    LET line == Decode(bytes)
    IN  /\ line.inner = s.innerC100 /\ line.outer = s.outerC100
        /\ HasBit(line.flags, kInnerValid) <=> Valid(s.innerC100)
        /\ HasBit(line.flags, kOuterValid) <=> Valid(s.outerC100)
        /\ HasBit(line.flags, kFire)         <=> s.fire
        /\ HasBit(line.flags, kSensorOpen)   <=> s.sensorFault
        /\ HasBit(line.flags, kDiffExceeded) <=> s.diffAlarm
        /\ ~HasBit(line.flags, kOneWireErr)

\* encode followed by decode is the identity on every snapshot.
LEMMA PacketReads ==
    ASSUME NEW s \in Snapshot, NEW q \in Byte
    PROVE  Reads(EncodeSnapshot(s, q), s) /\ EncodeSnapshot(s, q) \in Payload
<1> DEFINE b  == MapFlags(s.innerC100, s.outerC100, EventsOf(s))
           i0 == Lo(U16(s.innerC100))
           i1 == Hi(U16(s.innerC100))
           o0 == Lo(U16(s.outerC100))
           o1 == Hi(U16(s.outerC100))
           e  == EncodeSnapshot(s, q)
<1>1. s.innerC100 \in Temperature /\ s.outerC100 \in Temperature
  BY DEF Snapshot
<1>2. /\ I16(i0, i1) = s.innerC100 /\ i0 \in Byte /\ i1 \in Byte
      /\ I16(o0, o1) = s.outerC100 /\ o0 \in Byte /\ o1 \in Byte
  BY <1>1, WordRoundTrip
<1>3. /\ b \in Byte
      /\ HasBit(b, kInnerValid) <=> Valid(s.innerC100)
      /\ HasBit(b, kOuterValid) <=> Valid(s.outerC100)
      /\ HasBit(b, kFire) <=> s.fire
      /\ HasBit(b, kSensorOpen) <=> s.sensorFault
      /\ HasBit(b, kDiffExceeded) <=> s.diffAlarm
      /\ ~HasBit(b, kOneWireErr)
  BY MapFlagsReads
<1>4. Lo(kCompanyId) \in Byte /\ Hi(kCompanyId) \in Byte /\ kPayloadVersion \in Byte
  BY DEF Lo, Hi, kCompanyId, kPayloadVersion, Byte
<1>5. e = <<Lo(kCompanyId), Hi(kCompanyId), kPayloadVersion, i0, i1, o0, o1, b, q>>
  BY DEF EncodeSnapshot, Encode
<1> HIDE DEF b, i0, i1, o0, o1, e
<1>6. e \in Payload
  BY <1>2, <1>3, <1>4, <1>5 DEF Payload
<1>7. e[4] = i0 /\ e[5] = i1 /\ e[6] = o0 /\ e[7] = o1 /\ e[8] = b
  BY <1>5
<1>8. /\ Decode(e).inner = s.innerC100
      /\ Decode(e).outer = s.outerC100
      /\ Decode(e).flags = b
  BY <1>2, <1>3, <1>7 DEF Decode, NotAvailable, Valid
<1>9. Reads(e, s)
  BY <1>3, <1>8 DEF Reads
<1> QED
  BY <1>6, <1>9 DEF e

-----------------------------------------------------------------------------
(* The invariant *)

\* What render draws on a display that has drawn nothing yet.
Fresh(f) == Rendered(BlankScreen, f)

\* The strengthening: the widgets are those of a fresh render of the last frame
\* asked for, though most calls draw nothing; and the packet on the air is the
\* encoding of one snapshot.
IInv ==
    /\ TypeOK
    /\ screen.first \/ screen = Fresh(Frame(drawn.s, drawn.up))
    /\ air = Silence \/ \E q \in Byte : air = EncodeSnapshot(sent, q)

\* A text is within a tenth of what it shows, towards zero, with its sign.
LEMMA TextShows ==
    ASSUME NEW t \in Temperature
    PROVE  FmtTemp(t) \in TempText /\ Shows(FmtTemp(t), t)
<1>1. t \in Int /\ -32768 <= t /\ t <= 32767
  BY DEF Temperature
<1>2. CASE t = kTempInvalid
  <2>1. FmtTemp(t) = Dashes
    BY <1>2 DEF FmtTemp
  <2> QED
    BY <1>2, <2>1 DEF Shows, Valid, Dashes, TempText
<1>3. CASE t # kTempInvalid
  <2> DEFINE a == Abs(t)
             w == a \div 100
             r == a % 100
             d == r \div 10
             m == r % 10
  <2>1. a \in 0 .. 32767
    BY <1>1, <1>3 DEF Abs, kTempInvalid
  <2>2. FmtTemp(t) = [neg |-> t < 0, whole |-> w, tenth |-> d]
    BY <1>3 DEF FmtTemp
  <2> HIDE DEF a
  <2>3. a = 100 * w + r /\ r \in 0 .. 99 /\ w \in Int
    BY <2>1
  <2> HIDE DEF w, r
  <2>4. r = 10 * d + m /\ m \in 0 .. 9 /\ d \in Int
    BY <2>3
  <2> HIDE DEF d, m
  <2>5. w \in 0 .. 327 /\ d \in 0 .. 9
    <3>1. /\ a = 100 * w + r /\ a \in Int /\ w \in Int /\ r \in Int
          /\ 0 <= r /\ r <= 99 /\ 0 <= a /\ a <= 32767
      BY <2>1, <2>3
    <3>2. /\ r = 10 * d + m /\ r \in Int /\ d \in Int /\ m \in Int
          /\ 0 <= m /\ m <= 9 /\ 0 <= r /\ r <= 99
      BY <2>3, <2>4
    <3> QED
      BY <3>1, <3>2, HighDigits
  <2>6. a - (w * 100 + d * 10) \in 0 .. 9
    BY <2>1, <2>3, <2>4, <2>5
  <2>7. (t < 0) \in BOOLEAN
    OBVIOUS
  <2> DEFINE text == [neg |-> t < 0, whole |-> w, tenth |-> d]
  <2>8. text.neg = (t < 0) /\ text.whole = w /\ text.tenth = d
    OBVIOUS
  <2>9. text \in TempText
    BY <2>5, <2>7 DEF TempText
  <2>10. text # Dashes
    <3>1. Dashes.whole = -1
      BY DEF Dashes
    <3> QED
      BY <2>5, <2>8, <3>1
  <2> HIDE DEF text
  <2>11. Shows(text, t)
    BY <1>3, <2>6, <2>8, <2>10 DEF Shows, Valid, a
  <2> QED
    BY <2>2, <2>9, <2>11 DEF text
<1> QED
  BY <1>2, <1>3

\* The frame of a snapshot is a frame.
LEMMA FrameType ==
    ASSUME NEW s \in Snapshot, NEW up \in BOOLEAN
    PROVE  Frame(s, up) \in DisplayFrame
  BY DEF Snapshot, Frame, DisplayFrame, StatusOf, Statuses

\* Equal by DisplayFrame::operator== is equal.
LEMMA SameIsEqual ==
    ASSUME NEW f \in DisplayFrame, NEW g \in DisplayFrame, Same(f, g)
    PROVE  f = g
  BY DEF DisplayFrame, Same

\* What a fresh render leaves.
LEMMA FreshFields ==
    ASSUME NEW f \in DisplayFrame
    PROVE  /\ Fresh(f) \in Screen
           /\ Fresh(f).first = FALSE /\ Fresh(f).cached = f
           /\ Fresh(f).inner = FmtTemp(f.innerC100)
           /\ Fresh(f).row2 = Row2(f)
           /\ Fresh(f).outer = IF f.status = "kOuterTemp"
                               THEN FmtTemp(f.outerC100) ELSE Dashes
           /\ Fresh(f).icon = f.advice
<1>1. Fresh(f) = [first |-> FALSE, cached |-> f, inner |-> FmtTemp(f.innerC100),
                  row2 |-> Row2(f),
                  outer |-> IF f.status = "kOuterTemp" THEN FmtTemp(f.outerC100)
                            ELSE Dashes,
                  icon |-> f.advice]
  BY DEF Fresh, Rendered, BlankScreen
<1>2. FmtTemp(f.innerC100) \in TempText /\ FmtTemp(f.outerC100) \in TempText
  BY TextShows DEF DisplayFrame
<1>3. Dashes \in TempText
  BY DEF Dashes, TempText
<1>4. Row2(f) \in {"temp", "FIRE!", "SENSOR", "WiFi DOWN"}
  BY DEF Row2, DisplayFrame, Statuses
<1>5. f.advice \in {"open", "close"}
  BY DEF DisplayFrame
<1> DEFINE i == FmtTemp(f.innerC100)
           o == IF f.status = "kOuterTemp" THEN FmtTemp(f.outerC100) ELSE Dashes
           r == Row2(f)
           a == f.advice
           d == [first |-> FALSE, cached |-> f, inner |-> i, row2 |-> r,
                 outer |-> o, icon |-> a]
<1>6. /\ i \in TempText /\ o \in TempText /\ a \in {"open", "close"}
      /\ r \in {"", "temp", "FIRE!", "SENSOR", "WiFi DOWN"}
  BY <1>2, <1>3, <1>4, <1>5
<1> HIDE DEF i, o, r, a
<1>7. d \in Screen
  BY <1>6 DEF Screen
<1>8. /\ d.first = FALSE /\ d.cached = f /\ d.inner = i /\ d.row2 = r
      /\ d.outer = o /\ d.icon = a
  OBVIOUS
<1>9. Fresh(f) = d
  BY <1>1 DEF i, o, r, a
<1> HIDE DEF d
<1> QED
  BY <1>7, <1>8, <1>9 DEF i, o, r, a

\* Only snapshots are published.
LEMMA SnapshotsAreSnapshots == Snapshots \subseteq Snapshot
<1> SUFFICES ASSUME NEW s \in Measured PROVE s \in Snapshot
  BY DEF Snapshots
<1>1. PICK avg \in Averages, advice \in {"open", "close"}, fire \in BOOLEAN,
           fault \in BOOLEAN, diff \in BOOLEAN :
        s = [innerC100 |-> avg[1], outerC100 |-> avg[2], windowAdvice |-> advice,
             fire |-> fire, sensorFault |-> fault, diffAlarm |-> diff]
  BY DEF Measured
<1>2. avg[1] \in Temperature /\ avg[2] \in Temperature
  BY OutputsAssumption
<1> QED
  BY <1>1, <1>2 DEF Snapshot

LEMMA InitIInv == Init => IInv
<1> SUFFICES ASSUME Init PROVE IInv
  OBVIOUS
<1>1. Unset \in Snapshot
  BY DEF Unset, Snapshot, Temperature, kTempInvalid
<1>2. BlankScreen \in Screen
  <2>1. EmptyFrame \in DisplayFrame
    BY DEF EmptyFrame, DisplayFrame, Temperature, kTempInvalid, Statuses
  <2>2. Dashes \in TempText
    BY DEF Dashes, TempText
  <2> QED
    BY <2>1, <2>2 DEF BlankScreen, Screen
<1>3. Silence \in Payload
  BY DEF Silence, Payload, Byte
<1>4. drawn \in [s : Snapshot, up : BOOLEAN]
  BY <1>1 DEF Init
<1>5. 0 \in 0 .. SeqMod - 1
  BY OutputsAssumption
<1>6. TypeOK
  BY <1>1, <1>2, <1>3, <1>4, <1>5 DEF Init, TypeOK
<1> QED
  BY <1>6 DEF Init, IInv, BlankScreen

LEMMA NextIInv == IInv /\ [Next]_vars => IInv'
<1> SUFFICES ASSUME IInv, [Next]_vars PROVE IInv'
  OBVIOUS
<1> USE DEF IInv
<1>1. CASE Publish
  <2>1. snapshot' \in Snapshot
    BY <1>1, SnapshotsAreSnapshots DEF Publish
  <2> QED
    BY <1>1, <2>1 DEF Publish, TypeOK
<1>2. CASE LinkChanges
  BY <1>2 DEF LinkChanges, TypeOK
<1>3. CASE RenderDisplay
  <2> DEFINE f == Frame(snapshot, connected)
             g == Frame(drawn.s, drawn.up)
  <2>1. snapshot \in Snapshot /\ connected \in BOOLEAN
        /\ drawn.s \in Snapshot /\ drawn.up \in BOOLEAN
    BY DEF TypeOK
  <2>2. f \in DisplayFrame /\ g \in DisplayFrame
    BY <2>1, FrameType
  <2>3. Rendered(screen, f) = Fresh(f)
    <3>1. CASE ~screen.first /\ Same(f, screen.cached)
      <4>1. screen = Fresh(g)
        BY <3>1
      <4>2. f = g
        BY <2>2, <3>1, <4>1, FreshFields, SameIsEqual
      <4> QED
        BY <3>1, <4>1, <4>2 DEF Rendered
    <3>2. CASE ~(~screen.first /\ Same(f, screen.cached))
      BY <3>2 DEF Rendered, Fresh, BlankScreen
    <3> QED
      BY <3>1, <3>2
  <2>4. screen' = Fresh(f) /\ drawn' = [s |-> snapshot, up |-> connected]
    BY <1>3, <2>3 DEF RenderDisplay
  <2>5. Frame(drawn'.s, drawn'.up) = f
    BY <2>4
  <2>6. screen' \in Screen /\ drawn' \in [s : Snapshot, up : BOOLEAN]
    BY <2>1, <2>2, <2>4, FreshFields
  <2>7. TypeOK'
    BY <1>3, <2>6 DEF RenderDisplay, TypeOK
  <2> QED
    BY <1>3, <2>4, <2>5, <2>7 DEF RenderDisplay
<1>4. CASE SendBleBeacon
  <2>1. bleSeq' \in 0 .. SeqMod - 1
    BY <1>4, OutputsAssumption DEF SendBleBeacon, TypeOK
  <2>2. bleSeq \in Byte /\ snapshot \in Snapshot
    BY OutputsAssumption DEF TypeOK, Byte
  <2>3. CASE air' = EncodeSnapshot(snapshot, bleSeq) /\ sent' = snapshot
    <3>1. air' \in Payload
      BY <2>2, <2>3, PacketReads
    <3> QED
      BY <1>4, <2>1, <2>2, <2>3, <3>1 DEF SendBleBeacon, TypeOK
  <2>4. CASE UNCHANGED <<air, sent>>
    BY <1>4, <2>1, <2>4 DEF SendBleBeacon, TypeOK
  <2> QED
    BY <1>4, <2>3, <2>4 DEF SendBleBeacon
<1>5. CASE UNCHANGED vars
  BY <1>5 DEF vars, TypeOK
<1> QED
  BY <1>1, <1>2, <1>3, <1>4, <1>5 DEF Next

LEMMA SpecIInv == Spec => []IInv
<1> QED
  BY InitIInv, NextIInv, PTL DEF Spec

-----------------------------------------------------------------------------
(* Theorems *)

\* The widgets, the frames, the packets and the sequence number keep their
\* types: every byte of a packet is a byte.
THEOREM OutputsTypeOK == Spec => []TypeOK
<1>1. IInv => TypeOK
  BY DEF IInv
<1> QED
  BY <1>1, SpecIInv, PTL

\* However many calls of render drew nothing, the display shows the frame it
\* was last asked for: alarms by priority, temperatures to a tenth of a degree.
THEOREM DisplayIsCurrent == Spec => []ScreenShowsLast
<1>1. IInv => ScreenShowsLast
  <2> SUFFICES ASSUME IInv, ~screen.first PROVE ScreenShowsLast
    BY DEF ScreenShowsLast
  <2> DEFINE s == drawn.s
             f == Frame(drawn.s, drawn.up)
  <2>1. s \in Snapshot /\ drawn.up \in BOOLEAN
    BY DEF IInv, TypeOK
  <2>2. f \in DisplayFrame
    BY <2>1, FrameType
  <2>3. screen = Fresh(f)
    BY DEF IInv
  <2>4. /\ screen.inner = FmtTemp(s.innerC100)
        /\ screen.row2 = Row2(f)
        /\ f.status = "kOuterTemp" => screen.outer = FmtTemp(s.outerC100)
        /\ screen.icon = s.windowAdvice
    BY <2>2, <2>3, FreshFields DEF Frame
  <2>5. f.status = StatusOf(s, drawn.up)
    BY DEF Frame
  <2>6. /\ Row2(f) = "FIRE!"  <=> s.fire
        /\ Row2(f) = "SENSOR" <=> s.sensorFault /\ ~s.fire
        /\ Row2(f) = "temp"   <=> ~s.fire /\ ~s.sensorFault /\ drawn.up
        /\ Row2(f) = "temp"   <=> f.status = "kOuterTemp"
    BY <2>5 DEF Row2, StatusOf
  <2>7. Shows(FmtTemp(s.innerC100), s.innerC100)
        /\ Shows(FmtTemp(s.outerC100), s.outerC100)
    BY <2>1, TextShows DEF Snapshot
  <2> QED
    BY <2>4, <2>6, <2>7 DEF ScreenShowsLast
<1> QED
  BY <1>1, SpecIInv, PTL

\* For all 16-bit averages, alarms and sequence numbers, the monitor reads what
\* the device measured.
THEOREM BeaconIsRead == Spec => []MonitorReads
<1>1. IInv => MonitorReads
  <2> SUFFICES ASSUME IInv, Accepted(air) PROVE MonitorReads
    BY DEF MonitorReads
  <2>1. air # Silence
    BY DEF Accepted, Silence, kPayloadVersion
  <2>2. Reads(air, sent)
    BY <2>1, PacketReads DEF IInv, TypeOK
  <2> QED
    BY <2>2 DEF Reads, MonitorReads
<1> QED
  BY <1>1, SpecIInv, PTL

\* No missing reading reaches the page as a number, for all 16-bit averages.
LEMMA TilesAddUp == IInv => PageAddsUp
<1> SUFFICES ASSUME IInv PROVE PageAddsUp
  OBVIOUS
<1> DEFINE i == snapshot.innerC100
           o == snapshot.outerC100
           page == Tiles(SerializeCurrent(snapshot))
<1>1. i \in Int /\ i >= -32768 /\ o \in Int /\ o >= -32768
      /\ i <= 32767 /\ o <= 32767
  <2>1. snapshot \in Snapshot
    BY DEF IInv, TypeOK
  <2>2. i \in Temperature /\ o \in Temperature
    BY <2>1 DEF Snapshot
  <2>3. \A t \in Temperature : t \in Int /\ t >= -32768 /\ t <= 32767
    BY DEF Temperature
  <2> QED
    BY <2>2, <2>3
<1>2. /\ page.inner = IF Valid(i) THEN i ELSE Null
      /\ page.outer = IF Valid(o) THEN o ELSE Null
      /\ page.diff  = IF Valid(i) /\ Valid(o) THEN o - i ELSE Null
  BY DEF Tiles, SerializeCurrent, OrNull, DiffOf
<1> HIDE DEF i, o, page
<1>3. /\ page.diff = Null <=> page.inner = Null \/ page.outer = Null
      /\ page.diff # Null => /\ page.outer = page.inner + page.diff
                            /\ Valid(page.inner) /\ Valid(page.outer)
      /\ page.inner = Null <=> ~Valid(i)
      /\ page.outer = Null <=> ~Valid(o)
  BY <1>1, <1>2 DEF Null, Valid, kTempInvalid
<1> QED
  BY <1>3 DEF PageAddsUp, i, o, page

-----------------------------------------------------------------------------
(* Four renderings of one temperature *)

\* Two multiples of ten, one cut off and one rounded, differ by ten at most.
LEMMA CutAndRounded ==
    ASSUME NEW a \in Int, NEW n \in Int, NEW k \in Int,
           a - 10 * k >= 0, a - 10 * k <= 9,
           10 * n - a >= -5, 10 * n - a <= 5
    PROVE  n = k \/ n = k + 1
<1> QED
  OBVIOUS

LEMMA DigitsOf ==
    ASSUME NEW n \in Int
    PROVE  (n \div 10) * 10 + (n % 10) = n /\ n \div 10 \in Int /\ n % 10 \in 0 .. 9
<1> QED
  OBVIOUS

\* What the four make of one temperature, whichever way a tie is rounded.
LEMMA TextsAgree ==
    ASSUME NEW t \in Temperature, NEW m \in MailTemps(t)
    PROVE  Agree(FmtTemp(t), m, OrNull(t), t)
<1>1. t \in Int /\ -32768 <= t /\ t <= 32767
  BY DEF Temperature
<1>2. CASE t = kTempInvalid
  BY <1>2 DEF MailTemps, FmtTemp, OrNull, Valid, Agree, NotAvailable
<1>3. CASE t # kTempInvalid
  <2> DEFINE a == Abs(t)
             text == FmtTemp(t)
  <2>1. a \in Int /\ 0 <= a /\ (t < 0 => a = -t) /\ (t >= 0 => a = t)
    BY <1>1 DEF Abs
  <2>2. PICK n \in a \div 10 .. a \div 10 + 1 :
          /\ Abs(10 * n - a) <= 5
          /\ m = [neg |-> t < 0, whole |-> n \div 10, tenth |-> n % 10]
    BY <1>3 DEF MailTemps, Rounded
  <2>3. n \in Int /\ 10 * n - a >= -5 /\ 10 * n - a <= 5
    BY <2>1, <2>2 DEF Abs
  <2>4. /\ m.neg = (t < 0) /\ m.whole \in Int /\ m.tenth \in Int
        /\ m.whole * 100 + m.tenth * 10 = 10 * n /\ m.whole >= 0
    <3>1. m.neg = (t < 0) /\ m.whole = n \div 10 /\ m.tenth = n % 10
      BY <2>2
    <3>2. n >= 0
      BY <2>1, <2>3
    <3> QED
      BY <2>3, <3>1, <3>2, DigitsOf
  <2>5. /\ text \in TempText /\ text # Dashes
        /\ text.neg <=> t < 0
        /\ a - (text.whole * 100 + text.tenth * 10) \in 0 .. 9
    <3>1. text \in TempText /\ Shows(text, t)
      BY TextShows
    <3> QED
      BY <1>3, <3>1 DEF Shows, Valid
  <2>6. text.neg \in BOOLEAN /\ text.whole \in Int /\ text.tenth \in Int
    BY <2>5 DEF TempText
  <2> DEFINE k == 10 * text.whole + text.tenth
  <2>7. k \in Int /\ text.whole * 100 + text.tenth * 10 = 10 * k
    BY <2>6
  <2>8. a - 10 * k >= 0 /\ a - 10 * k <= 9
    BY <2>1, <2>5, <2>7
  <2>9. Value(m) = IF t < 0 THEN -(10 * n) ELSE 10 * n
    BY <2>4 DEF Value
  <2>10. Value(text) = IF t < 0 THEN -(10 * k) ELSE 10 * k
    BY <2>5, <2>7 DEF Value
  <2>11. m # Dashes
    <3>1. Dashes.whole = -1
      BY DEF Dashes
    <3> QED
      BY <2>4, <3>1
  <2>12. text.neg = m.neg
    BY <2>4, <2>5, <2>6
  <2> HIDE DEF a, k, text
  <2>13. n = k \/ n = k + 1
    BY <2>1, <2>3, <2>7, <2>8, CutAndRounded
  <2>14. k >= 0
    BY <2>1, <2>7, <2>8
  <2>15. /\ Abs(Value(m) - t) <= 5
         /\ Abs(Value(text)) <= Abs(t)
         /\ Value(m) - Value(text) \in {-10, 0, 10}
    BY <1>1, <2>1, <2>3, <2>7, <2>8, <2>9, <2>10, <2>13, <2>14 DEF Abs
  <2>16. OrNull(t) = t /\ t # Null /\ t # NotAvailable
    BY <1>1, <1>3 DEF OrNull, Valid, Null, NotAvailable, kTempInvalid
  <2> QED
    BY <2>5, <2>11, <2>12, <2>15, <2>16 DEF Agree, text
<1> QED
  BY <1>2, <1>3

\* Display, mail, page and monitor say the same of a snapshot, for all 16-bit
\* averages.
THEOREM ReadersAlwaysAgree == Spec => []ReadersAgree
<1>1. IInv => ReadersAgree
  <2> SUFFICES ASSUME IInv PROVE ReadersAgree
    OBVIOUS
  <2> DEFINE i == snapshot.innerC100
             o == snapshot.outerC100
             frame == Frame(snapshot, TRUE)
             page == Tiles(SerializeCurrent(snapshot))
             line == Decode(EncodeSnapshot(snapshot, bleSeq))
  <2>1. snapshot \in Snapshot /\ bleSeq \in Byte
    BY OutputsAssumption DEF IInv, TypeOK, Byte
  <2>2. i \in Temperature /\ o \in Temperature
    BY <2>1 DEF Snapshot
  <2>3. frame.innerC100 = i /\ frame.outerC100 = o
    BY DEF Frame
  <2>4. line.inner = i /\ line.outer = o
    BY <2>1, PacketReads DEF Reads
  <2>5. /\ page.inner = OrNull(i) /\ page.outer = OrNull(o)
        /\ page.alarms = (IF snapshot.fire THEN {"kFire"} ELSE {})
                     \cup (IF snapshot.sensorFault THEN {"kSensorOpen"} ELSE {})
                     \cup (IF snapshot.diffAlarm THEN {"kDiffExceeded"} ELSE {})
    BY DEF Tiles, SerializeCurrent
  <2>6. ASSUME NEW body \in StatusBodies(snapshot) \cup AlarmBodies(snapshot, TRUE)
        PROVE  body.inner \in MailTemps(i) /\ body.outer \in MailTemps(o)
    BY <2>6 DEF StatusBodies, AlarmBodies
  <2>7. ASSUME NEW body \in StatusBodies(snapshot)
        PROVE  /\ body.fire = snapshot.fire
               /\ body.sensor = snapshot.sensorFault
               /\ body.diff = snapshot.diffAlarm
    BY <2>7 DEF StatusBodies
  <2> HIDE DEF i, o, frame, page, line
  <2>8. ASSUME NEW body \in StatusBodies(snapshot) \cup AlarmBodies(snapshot, TRUE)
        PROVE  /\ Agree(FmtTemp(frame.innerC100), body.inner, page.inner, line.inner)
               /\ Agree(FmtTemp(frame.outerC100), body.outer, page.outer, line.outer)
    BY <2>2, <2>3, <2>4, <2>5, <2>6, <2>8, TextsAgree
  <2>9. ASSUME NEW body \in StatusBodies(snapshot)
        PROVE  page.alarms = (IF body.fire THEN {"kFire"} ELSE {})
                     \cup (IF body.sensor THEN {"kSensorOpen"} ELSE {})
                     \cup (IF body.diff THEN {"kDiffExceeded"} ELSE {})
    BY <2>5, <2>7, <2>9
  <2> QED
    BY <2>8, <2>9, TilesAddUp DEF ReadersAgree, frame, page, line
<1> QED
  BY <1>1, SpecIInv, PTL
=============================================================================
