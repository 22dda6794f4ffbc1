----------------------------- MODULE Measurement ----------------------------
(***************************************************************************)
(* Core 1's measurement cycle (main.cpp:697-804) with everything it calls: *)
(* the two DS18B20 buses (hal/onewire_bus_target.cpp), AnomalyDetector,    *)
(* MovingAverage, AlarmState, window::Advisor, the quiet hours.  The cycle *)
(* is one action: it latches the configuration in one critical section,    *)
(* publishes the snapshot in another, and what it uses in between belongs  *)
(* to Core 1 alone.  (What its calls do to the buzzer is module Siren.)    *)
(*                                                                         *)
(* Temperatures are integers in a unit the instance chooses, centidegrees  *)
(* in the code; Invalid is kTempInvalid, INT16_MIN there.                  *)
(***************************************************************************)
EXTENDS Integers, Sequences, SequencesExt

CONSTANTS
    InnerReadable, OuterReadable,  \* temperatures a conversion may yield
    Window,                        \* cfg::sample::kAvgWindowSamples, 10
    ErrThreshold,                  \* of AnomalyDetector, 3
    ValidMin, ValidMax, Sentinel,  \* cfg::temp: -30, 80 and 85 degrees
    VentOpen, VentClose,           \* cfg::vent: 20.0 and 20.5 degrees
    FireThrs, FireHysts, DiffThrs, \* what the web may configure
    Minutes                        \* minutes of a day, 1440

Sensors == {"inner", "outer"}

Readable(s) == IF s = "inner" THEN InnerReadable ELSE OuterReadable

Invalid == -32768

ConfigModel == [fireThr : FireThrs, fireHyst : FireHysts, diffThr : DiffThrs,
                quietFrom : 0 .. Minutes - 1, quietTo : 0 .. Minutes - 1]

\* ConfigModel::validate admits the configurations.
ASSUME MeasurementAssumption ==
    /\ InnerReadable \subseteq Int /\ OuterReadable \subseteq Int
    /\ Window \in Nat \ {0} /\ ErrThreshold \in Nat \ {0}
    /\ {ValidMin, ValidMax, Sentinel, VentOpen, VentClose} \subseteq Int
    /\ Invalid < ValidMin /\ ValidMin <= ValidMax
    /\ FireThrs \subseteq Nat \ {0} /\ FireHysts \subseteq Nat
    /\ \A thr \in FireThrs, hyst \in FireHysts : hyst < thr
    /\ DiffThrs \subseteq Nat \ {0}
    /\ Minutes \in Nat \ {0}

VARIABLES
    webConfig,    \* g_webConfig
    convStarted,  \* per bus
    errors,       \* consecutiveErrors_ of each detector
    avg,          \* the samples in each MovingAverage, oldest first
    fire,         \* AlarmState
    sensorFault,
    diffOpen,     \* Advisor
    ventOpen,
    windowOpen,   \* g_windowOpenPrev
    melody,       \* the window melody the last cycle asked for
    snapshot      \* g_snapshot: what Core 0, the display and mail see

alarmVars  == <<fire, sensorFault>>
adviceVars == <<diffOpen, ventOpen, windowOpen, melody>>
vars == <<webConfig, convStarted, errors, avg, alarmVars, adviceVars, snapshot>>

-----------------------------------------------------------------------------
(* OneWireBus::readCentiC.  What is on the line: nothing, a device whose   *)
(* scratchpad fails the check, or a device that gives a temperature.       *)

Lines(s) ==
    [bus : {"absent", "corrupt"}, temp : {Invalid}]
        \cup [bus : {"device"}, temp : Readable(s)]

Ok(t)  == [status |-> "Ok", value |-> t]
Err(e) == [status |-> e, value |-> Invalid]

ReadCentiC(s, line) ==
    IF line.bus = "absent" THEN Err("SensorOpen")
    ELSE IF ~convStarted[s] THEN Err("NotReady")
    ELSE IF line.bus = "corrupt" THEN Err("OneWireErr")
    ELSE Ok(line.temp)

\* Whether a conversion is in flight afterwards; the device may vanish after
\* its scratchpad was read.
ConvStartedAfter(s, line) ==
    IF line.bus = "absent" THEN {FALSE}
    ELSE IF ~convStarted[s] THEN {TRUE}
    ELSE BOOLEAN

-----------------------------------------------------------------------------
(* AnomalyDetector *)

\* What a detector remembers: the back-to-back errors.
AnomalyDetector == 0 .. ErrThreshold

\* Mutant of ErrorsAfter: the counter does not saturate.
ErrorsUnsaturated(s, r) == IF r.status = "Ok" THEN 0 ELSE errors[s] + 1

ErrorsAfter(s, r) ==
    IF r.status = "Ok" THEN 0
    ELSE IF errors[s] < ErrThreshold THEN errors[s] + 1
    ELSE errors[s]

IsWeird(r) ==
    /\ r.status = "Ok"
    /\ \/ r.value = Invalid
       \/ r.value < ValidMin \/ r.value > ValidMax \/ r.value = Sentinel

\* Mutant of IsFaulty: the count of errors raises no flag.
IsFaultyNow(s, r) == r.status \in {"SensorOpen", "OneWireErr"}

\* The flags SENSOR_OPEN or ONEWIRE_ERR, which AlarmState takes for a fault.
IsFaulty(s, r) ==
    /\ r.status # "Ok"
    /\ \/ r.status \in {"SensorOpen", "OneWireErr"}
       \/ ErrorsAfter(s, r) >= ErrThreshold

-----------------------------------------------------------------------------
(* MovingAverage *)

Push(w, x) == IF Len(w) < Window THEN Append(w, x) ELSE Append(Tail(w), x)

\* C++ division, which truncates.
Quotient(a, b) == IF a >= 0 THEN a \div b ELSE -((-a) \div b)

\* One turn of the loop of average(): invalid samples are skipped.
Counted(total, x) ==
    IF x = Invalid THEN total
    ELSE [sum |-> total.sum + x, valid |-> total.valid + 1]

\* What the loop has summed up and counted after i samples.
Totals(w) ==
    LET total[i \in 0 .. Len(w)] ==
            IF i = 0 THEN [sum |-> 0, valid |-> 0]
            ELSE Counted(total[i - 1], w[i])
    IN  total

Average(w) ==
    LET total == Totals(w)[Len(w)]
    IN  IF total.valid = 0 THEN Invalid ELSE Quotient(total.sum, total.valid)

IsFull(w) == Len(w) = Window

\* Mutant of Sample: weird values enter the average.
SampleUnfiltered(r) == r.value

\* readSensor: what is pushed into the average, and what fire detection sees.
Sample(r)  == IF r.status = "Ok" /\ ~IsWeird(r) THEN r.value ELSE Invalid
Instant(r) == r.value

-----------------------------------------------------------------------------
(* AlarmState *)

\* Mutant of FireAfter: without a reading there is no fire.
FireForgotten(c, t) ==
    IF t = Invalid THEN FALSE
    ELSE IF fire THEN t >= c.fireThr - c.fireHyst
    ELSE t >= c.fireThr

FireAfter(c, t) ==
    IF t = Invalid THEN fire
    ELSE IF fire THEN t >= c.fireThr - c.fireHyst
    ELSE t >= c.fireThr

-----------------------------------------------------------------------------
(* window::Advisor *)

DiffAfter(inner, outer, threshold) ==
    IF inner = Invalid \/ outer = Invalid THEN FALSE
    ELSE IF inner - outer >= threshold THEN TRUE
    ELSE IF inner - outer <= 0 THEN FALSE
    ELSE diffOpen

VentAfter(outer) ==
    IF outer = Invalid THEN FALSE
    ELSE IF outer <= VentOpen THEN TRUE
    ELSE IF outer > VentClose THEN FALSE
    ELSE ventOpen

-----------------------------------------------------------------------------
(* quiet::inQuietWindow *)

InQuietWindow(now, from, to) ==
    IF from = to THEN FALSE
    ELSE IF from < to THEN now >= from /\ now < to
    ELSE now >= from \/ now < to

NotSynced == -1

Quiet(c, tod) == tod # NotSynced /\ InQuietWindow(tod, c.quietFrom, c.quietTo)

-----------------------------------------------------------------------------

TypeOK ==
    /\ webConfig \in ConfigModel
    /\ convStarted \in [Sensors -> BOOLEAN]
    /\ errors \in [Sensors -> AnomalyDetector]
    /\ avg \in [Sensors -> Seq(Int)]
    /\ \A s \in Sensors : Len(avg[s]) <= Window
    /\ \A v \in {fire, sensorFault, diffOpen, ventOpen, windowOpen} : v \in BOOLEAN
    /\ melody \in {"none", "open", "close"}
    /\ snapshot \in [inner : Int, outer : Int, open : BOOLEAN, fire : BOOLEAN,
                     sensorFault : BOOLEAN, diffAlarm : BOOLEAN]

\* After setup(): readRomId has reset both buses, and g_snapshot holds no
\* temperature yet.
Init ==
    /\ webConfig \in ConfigModel
    /\ convStarted = [s \in Sensors |-> FALSE]
    /\ errors = [s \in Sensors |-> 0]
    /\ avg = [s \in Sensors |-> <<>>]
    /\ fire = FALSE /\ sensorFault = FALSE
    /\ diffOpen = FALSE /\ ventOpen = FALSE
    /\ windowOpen = FALSE /\ melody = "none"
    /\ snapshot = [inner |-> Invalid, outer |-> Invalid, open |-> FALSE,
                   fire |-> FALSE, sensorFault |-> FALSE, diffAlarm |-> FALSE]

\* POST /api/config
WebConfig ==
    /\ webConfig' \in ConfigModel
    /\ UNCHANGED <<convStarted, errors, avg, alarmVars, adviceVars, snapshot>>

\* Mutant of Gated: partial averages pass.
Ungated(w, mean) == mean

\* The averages the advice sees: none until the window is full.
Gated(w, mean) ==
    [s \in Sensors |-> IF IsFull(w[s]) THEN mean[s] ELSE Invalid]

MeasurementCycle(line, tod) ==
    LET c     == webConfig
        r     == [s \in Sensors |-> ReadCentiC(s, line[s])]
        w     == [s \in Sensors |-> Push(avg[s], Sample(r[s]))]
        mean  == [s \in Sensors |-> Average(w[s])]
        gated == Gated(w, mean)
    IN
    /\ convStarted' \in [Sensors -> BOOLEAN]
    /\ \A s \in Sensors : convStarted'[s] \in ConvStartedAfter(s, line[s])
    /\ errors' = [s \in Sensors |-> ErrorsAfter(s, r[s])]
    /\ avg' = w
    /\ fire' = FireAfter(c, Instant(r["inner"]))
    /\ sensorFault' = \E s \in Sensors : IsFaulty(s, r[s])
    /\ diffOpen' = DiffAfter(gated["inner"], gated["outer"], c.diffThr)
    /\ ventOpen' = VentAfter(gated["outer"])
    /\ windowOpen' = (diffOpen' \/ ventOpen')
    /\ melody' = IF windowOpen' = windowOpen \/ Quiet(c, tod) THEN "none"
                 ELSE IF windowOpen' THEN "open"
                 ELSE "close"
    /\ snapshot' = [inner |-> mean["inner"], outer |-> mean["outer"],
                    open |-> windowOpen', fire |-> fire',
                    sensorFault |-> sensorFault', diffAlarm |-> diffOpen']
    /\ UNCHANGED webConfig

Cycle ==
    \E in \in Lines("inner"), out \in Lines("outer"),
       tod \in 0 .. Minutes - 1 \cup {NotSynced} :
        MeasurementCycle([s \in Sensors |-> IF s = "inner" THEN in ELSE out], tod)

Next == WebConfig \/ Cycle

Spec == Init /\ [][Next]_vars

-----------------------------------------------------------------------------
(* Properties *)

\* main.cpp:752-753: the advice stays "closed" until both windows are full, and
\* later falls back to it when the samples it rests on are gone: an open advice
\* goes with full windows and a known outer temperature, in the very snapshot
\* that publishes it.
AdviceNeedsFullWindows ==
    snapshot.open =>
        /\ \A s \in Sensors : IsFull(avg[s])
        /\ snapshot.outer # Invalid

\* FR-03: no implausible reading, however it got through the bus checks, ever
\* enters an average: what is published is plausible or Invalid.
AveragesArePlausible ==
    \A t \in {snapshot.inner, snapshot.outer} :
        t \in ValidMin .. ValidMax \cup {Invalid}

\* FR-04: a sensor that has given nothing but errors for ErrThreshold readings
\* shows as a fault, also in the cycles in which the bus merely restarts a
\* conversion (kNotReady sets no flag of its own), and stays one.
ErrorsShowAsFault ==
    \A s \in Sensors : errors[s] = ErrThreshold => snapshot.sensorFault

\* main.cpp:727-728: the fire alarm is independent of the averages and of the
\* fault: it changes only by a reading of the inner sensor, never because that
\* sensor is lost while it burns.
FireNeedsReading ==
    [][fire # fire' => errors'["inner"] = 0]_vars

\* Config.h:80-81, the 85 degree sentinel is "treated together with CRC failure
\* as SENSOR_OPEN", and FR-03, an implausible value is marked invalid: no such
\* reading raises the fire alarm.  The code refutes it: classify() only flags the
\* sentinel and readSensor() returns it (core/anomaly.cpp:51-53, main.cpp:706).
FireFromPlausibleReading ==
    [][~fire /\ fire' => Last(avg'["inner"]) # Invalid]_vars
=============================================================================
