-------------------------------- MODULE Siren -------------------------------
(***************************************************************************)
(* The buzzer: BeepEngine (core/beep_engine.cpp) as core1Task drives it    *)
(* (main.cpp:734-776 and 830-866) while the sound tests of the web         *)
(* (main.cpp:619-635) write to the same engine.                            *)
(*                                                                         *)
(* The web task holds g_mux around its play* call but Core 1 never takes   *)
(* it: the two race on the fields of the engine.  The stores of the web    *)
(* task happen one by one and in any order (the fields are plain, the      *)
(* compiler may reorder them).  Core 1's own reads and stores are grouped: *)
(* any mixture of fields that splitting them could give arises already     *)
(* from the position of the web's stores around the group.                 *)
(*                                                                         *)
(* When the alarms and the window advice change is the business of         *)
(* Measurement; here they change freely.                                   *)
(*                                                                         *)
(* Time is the value of millis(), on a clock face of ClockMod ticks (2^32  *)
(* ms in the code), so a wrap is an ordinary step.                         *)
(***************************************************************************)
EXTENDS Integers

CONSTANTS
    Tests,           \* sound tests pressed on the web page
    ToneMs,          \* cfg::beep::kBeepDurationMs, 120
    MelodyMs,        \* 3 * cfg::beep::kTriadStepMs, 540
    TestMs,          \* cfg::beep::kFireTestMs, 3000
    BurstMs,         \* cfg::beep::kFireBurstMs, 60000
    PeriodMs,        \* cfg::sample::kSamplePeriodMs, 60000
    ClockMod,        \* the modulus of millis()
    LagMs,           \* bound: what one iteration of Core 1, or the web task
                     \* from millis() to its critical section, takes at most
    BeeperMayToggle  \* the web may switch the beeper off and on

ASSUME SirenAssumption ==
    /\ Tests \subseteq {"tone", "melody", "fire"}
    /\ {ToneMs, MelodyMs, TestMs, BurstMs, PeriodMs, LagMs} \subseteq Nat \ {0}
    /\ ClockMod \in Nat \ {0}
    /\ LagMs < BurstMs
    /\ BurstMs + LagMs < ClockMod /\ PeriodMs + LagMs < ClockMod
    /\ BeeperMayToggle \in BOOLEAN

VARIABLES
    clock,    \* millis()
    fire,     \* g_alarm.isFire()
    enabled,  \* g_beep.enabled_, latched from the configuration
    beep,     \* the other fields of g_beep
    core,     \* core1Task: program counter and locals
    web,      \* the web task in handleAction
    siren,    \* the PWM channel plays the fire pattern; a tone and silence are
              \* one to the properties
    raced,    \* history: the web has stored into the engine since the edge of
              \* a fire alarm that rose in this iteration of Core 1 (to which
              \* boot adds the second boot cycle), or since tick() found the
              \* pattern expired
    late      \* history: a fire pattern has begun while the test in the hands
              \* of the web task was past its guard

vars == <<clock, fire, enabled, beep, core, web, siren, raced, late>>

-----------------------------------------------------------------------------

Millis   == 0 .. ClockMod - 1
\* One per play* method; they are called with different pitches.
Calls    == {"tone", "melody", "fire"}
\* steps_, stepCount_ and repeat_: a tone and a melody differ in pitch and
\* length only, and the length is totalMs_.
Patterns == {"tones", "fire"}

\* uint32_t subtraction
Since(t, now) == (now - t) % ClockMod

Duration(call) == CASE call = "fire"   -> BurstMs
                    [] call = "melody" -> MelodyMs
                    [] call = "tone"   -> ToneMs

\* What playFire, playSequence3 and playTone store.
Stored(call, total, now) ==
    [pattern |-> IF call = "fire" THEN "fire" ELSE "tones", startMs |-> now,
     totalMs |-> total, fireMode |-> call = "fire", active |-> TRUE]

\* The web's fire test is a short burst.
WebDuration(test) == IF test = "fire" THEN TestMs ELSE Duration(test)

Fields == {"pattern", "startMs", "totalMs", "fireMode", "active"}

\* The guard of playFire, and that of playTone and playSequence3.
Refused(call) == ~enabled \/ (call # "fire" /\ beep.active /\ beep.fireMode)

\* Core 1 plays.
Play(call, now) ==
    IF Refused(call) THEN beep ELSE Stored(call, Duration(call), now)

Expired(now) == Since(beep.startMs, now) >= beep.totalMs

FirePlays == beep.active /\ beep.fireMode /\ beep.pattern = "fire"

\* Has a fire pattern begun in this step, or since the guard of the test?
TracksLate ==
    late' = (web'.pc = "store" /\ (late \/ (~FirePlays /\ FirePlays')))

NoStores == [f \in {} |-> 0]
WebIdle  == [pc |-> "idle", test |-> "none", now |-> 0, stores |-> NoStores]

Engine == [pattern : Patterns, startMs : Millis,
           totalMs : {ToneMs, MelodyMs, TestMs, BurstMs},
           fireMode : BOOLEAN, active : BOOLEAN]

TypeOK ==
    /\ clock \in Millis
    /\ fire \in BOOLEAN /\ enabled \in BOOLEAN
    /\ beep \in Engine
    /\ core \in [pc : {"boot", "cycle", "alarms", "rearm", "advise",
                       "top", "tick", "expire", "rest"},
                 now : Millis, lastMeasure : Millis, boots : 0 .. 2,
                 rose : BOOLEAN, faulty : BOOLEAN]
    /\ web.pc \in {"idle", "guard", "store"}
    /\ web.test \in Tests \cup {"none"}
    /\ web.now \in Millis
    /\ DOMAIN web.stores \subseteq Fields
    /\ siren \in BOOLEAN
    /\ raced \in BOOLEAN /\ late \in BOOLEAN

\* setup() has enabled the beeper as configured and played the boot tone.
Init ==
    /\ clock = 0
    /\ fire = FALSE
    /\ enabled = TRUE
    /\ beep = Stored("tone", ToneMs, 0)
    /\ core = [pc |-> "boot", now |-> 0, lastMeasure |-> 0, boots |-> 2,
               rose |-> FALSE, faulty |-> FALSE]
    /\ web = WebIdle
    /\ siren = FALSE
    /\ raced = FALSE /\ late = FALSE

-----------------------------------------------------------------------------
(* Time.  Core 1 reads the clock at least once in LagMs ticks; the web task *)
(* is not held up longer before its critical section, and that section     *)
(* takes no time.                                                          *)

\* Mutant of Tick: the counter does not wrap.
TickUnbounded ==
    /\ Since(core.now, clock) < LagMs
    /\ web.pc = "guard" => Since(web.now, clock) < LagMs
    /\ web.pc # "store"
    /\ clock' = clock + 1
    /\ UNCHANGED <<fire, enabled, beep, core, web, siren, raced, late>>

Tick ==
    /\ Since(core.now, clock) < LagMs
    /\ web.pc = "guard" => Since(web.now, clock) < LagMs
    /\ web.pc # "store"
    /\ clock' = (clock + 1) % ClockMod
    /\ UNCHANGED <<fire, enabled, beep, core, web, siren, raced, late>>

-----------------------------------------------------------------------------
(* Core 1 *)

CoreAt(pc) == core.pc = pc
CoreGoes(pc) == core' = [core EXCEPT !.pc = pc]

\* The two measurement cycles before the loop, without a tick of the engine.
BootCycle ==
    /\ CoreAt("boot")
    /\ core' = [core EXCEPT !.pc = "cycle", !.now = clock]
    /\ UNCHANGED <<clock, fire, enabled, beep, web, siren, raced, late>>

\* The only reading of the clock in an iteration; measure when it is time.
ReadClock ==
    /\ core.pc \in {"top", "rest"}
    /\ core' = IF Since(core.lastMeasure, clock) >= PeriodMs
               THEN [core EXCEPT !.pc = "cycle", !.now = clock,
                                 !.lastMeasure = clock, !.rose = FALSE]
               ELSE [core EXCEPT !.pc = "tick", !.now = clock,
                                 !.rose = @ /\ CoreAt("top")]
    /\ raced' = (raced /\ CoreAt("top"))
    /\ UNCHANGED <<clock, fire, enabled, beep, web, siren, late>>

\* measurementCycle up to setEnabled.  What AlarmState::update has found in it
\* is first used in the next step, and left to it.
CycleEnable ==
    /\ CoreAt("cycle")
    /\ enabled' \in IF BeeperMayToggle THEN BOOLEAN ELSE {enabled}
    /\ CoreGoes("alarms")
    /\ UNCHANGED <<clock, fire, beep, web, siren, raced, late>>

\* Mutant of CycleAlarms: the sensor fault is signalled first.
CycleAlarmsSensorFirst ==
    /\ CoreAt("alarms")
    /\ fire' \in BOOLEAN /\ (core.boots = 2 => ~fire')
    /\ \E faulty \in BOOLEAN :
           /\ beep' = IF ~core.faulty /\ faulty THEN Play("tone", core.now)
                      ELSE IF ~fire /\ fire' THEN Play("fire", core.now)
                      ELSE beep
           /\ core' = [core EXCEPT !.pc = "rearm", !.rose = ~fire /\ fire',
                                   !.faulty = faulty]
    /\ UNCHANGED <<clock, enabled, web, siren, raced>>
    /\ TracksLate

\* The edges of the fire alarm and of the sensor alarm.  The very first reading
\* is not ready: it shows no fire.
CycleAlarms ==
    /\ CoreAt("alarms")
    /\ fire' \in BOOLEAN /\ (core.boots = 2 => ~fire')
    /\ \E faulty \in BOOLEAN :
           /\ beep' = IF ~fire /\ fire' THEN Play("fire", core.now)
                      ELSE IF ~core.faulty /\ faulty THEN Play("tone", core.now)
                      ELSE beep
           /\ core' = [core EXCEPT !.pc = "rearm", !.rose = ~fire /\ fire',
                                   !.faulty = faulty]
    /\ UNCHANGED <<clock, enabled, web, siren, raced>>
    /\ TracksLate

\* Mutants of CycleRearm: the siren sounds once per fire; it is re-armed
\* whatever the alarm says.
CycleRearmNever ==
    /\ CoreAt("rearm")
    /\ CoreGoes("advise")
    /\ UNCHANGED <<clock, fire, enabled, beep, web, siren, raced, late>>

CycleRearmAlways ==
    /\ CoreAt("rearm")
    /\ beep' = IF ~beep.active THEN Play("fire", core.now) ELSE beep
    /\ CoreGoes("advise")
    /\ UNCHANGED <<clock, fire, enabled, web, siren, raced>>
    /\ TracksLate

\* "keep sounding while the fire condition holds"
CycleRearm ==
    /\ CoreAt("rearm")
    /\ beep' = IF fire /\ ~beep.active THEN Play("fire", core.now) ELSE beep
    /\ CoreGoes("advise")
    /\ UNCHANGED <<clock, fire, enabled, web, siren, raced>>
    /\ TracksLate

\* The window melody, when the advice has flipped outside the quiet hours.
CycleAdvise ==
    /\ CoreAt("advise")
    /\ beep' \in {beep, Play("melody", core.now)}
    /\ core' = CASE core.boots = 2 -> [core EXCEPT !.pc = "boot", !.boots = 1]
                 [] core.boots = 1 -> [core EXCEPT !.pc = "top", !.boots = 0]
                 [] core.boots = 0 -> [core EXCEPT !.pc = "tick"]
    /\ UNCHANGED <<clock, fire, enabled, web, siren, raced, late>>

\* BeepEngine::tick, and the PWM channel set to what it returns.
TickSilent ==
    /\ CoreAt("tick")
    /\ ~enabled \/ ~beep.active
    /\ siren' = FALSE
    /\ CoreGoes("rest")
    /\ UNCHANGED <<clock, fire, enabled, beep, web, raced, late>>

TickPlays ==
    /\ CoreAt("tick")
    /\ enabled /\ beep.active /\ ~Expired(core.now)
    /\ siren' = (beep.pattern = "fire")
    /\ CoreGoes("rest")
    /\ UNCHANGED <<clock, fire, enabled, beep, web, raced, late>>

TickFindsExpired ==
    /\ CoreAt("tick")
    /\ enabled /\ beep.active /\ Expired(core.now)
    /\ CoreGoes("expire")
    /\ UNCHANGED <<clock, fire, enabled, beep, web, siren, raced, late>>

TickExpires ==
    /\ CoreAt("expire")
    /\ beep' = [beep EXCEPT !.active = FALSE, !.fireMode = FALSE]
    /\ siren' = FALSE
    /\ CoreGoes("rest")
    /\ raced' = (raced /\ core.rose)
    /\ UNCHANGED <<clock, fire, enabled, web, late>>

Core1 ==
    \/ BootCycle \/ ReadClock
    \/ CycleEnable \/ CycleAlarms \/ CycleRearm \/ CycleAdvise
    \/ TickSilent \/ TickPlays \/ TickFindsExpired \/ TickExpires

-----------------------------------------------------------------------------
(* The web task: POST /api/action/test-* *)

\* const uint32_t now = millis();  WiFi, and with it the server, comes up after
\* the two boot cycles.
WebPress(test) ==
    /\ web.pc = "idle" /\ core.boots = 0
    /\ web' = [WebIdle EXCEPT !.pc = "guard", !.test = test, !.now = clock]
    /\ UNCHANGED <<clock, fire, enabled, beep, core, siren, raced, late>>

\* Mutant of WebGuard: the test is not refused while a fire pattern plays.
WebGuardOpen ==
    /\ web.pc = "guard"
    /\ web' = IF ~enabled THEN WebIdle
              ELSE [WebIdle EXCEPT
                       !.pc = "store",
                       !.stores = Stored(web.test, WebDuration(web.test),
                                         web.now)]
    /\ UNCHANGED <<clock, fire, enabled, beep, core, siren, raced, late>>

\* taskENTER_CRITICAL and the guard of the play* method
WebGuard ==
    /\ web.pc = "guard"
    /\ web' = IF Refused(web.test) THEN WebIdle
              ELSE [WebIdle EXCEPT
                       !.pc = "store",
                       !.stores = Stored(web.test, WebDuration(web.test),
                                         web.now)]
    /\ UNCHANGED <<clock, fire, enabled, beep, core, siren, raced, late>>

WebStore(f) ==
    /\ web.pc = "store" /\ f \in DOMAIN web.stores
    /\ beep' = [beep EXCEPT ![f] = web.stores[f]]
    /\ LET rest == DOMAIN web.stores \ {f}
       IN  web' = IF rest = {} THEN WebIdle
                  ELSE [web EXCEPT !.stores = [g \in rest |-> web.stores[g]]]
    /\ raced' = (raced \/ core.rose \/ CoreAt("expire"))
    /\ TracksLate
    /\ UNCHANGED <<clock, fire, enabled, core, siren>>

WebPlay == WebGuard \/ \E f \in Fields : WebStore(f)

-----------------------------------------------------------------------------

Next ==
    \/ Tick
    \/ Core1
    \/ \E test \in Tests : WebPress(test)
    \/ WebPlay

\* Time passes, Core 1 runs its loop (it feeds the watchdog there) and a web
\* handler once started returns.  Nobody is obliged to press a button.
Fairness == WF_vars(Tick) /\ WF_vars(Core1) /\ WF_vars(WebPlay)

Spec     == Init /\ [][Next]_vars
FairSpec == Spec /\ Fairness

-----------------------------------------------------------------------------
(* Properties *)

\* beep_engine.h:27-28, fire "always takes over": in the iteration in which
\* the fire alarm rises the siren sounds, whatever else rose or flipped in the
\* same cycle, whatever was playing and whatever a test has left in the fields
\* before; only a test stored in the rest of that iteration can prevent it.
FireTakesOver ==
    CoreAt("rest") /\ core.rose /\ enabled /\ ~raced => siren

\* beep_engine.h:17-24, "fire owns the buzzer": a fire pattern with time left is
\* neither replaced nor silenced, by no tone and no melody of Core 1 and by no
\* sound test, however the stores of several tests and of Core 1 have mixed.
\* A fire test does restart it, as a burst of TestMs: the pattern stays fire.
\* Two races break it, and only these: a test that had passed its guard before
\* the fire pattern began, and tick(), which goes by the fields it has read, for
\* a fire pattern a test has renewed since.
FireOwnsBuzzer ==
    [][FirePlays /\ ~Expired(core.now) /\ ~FirePlays'
          => (late /\ WebPlay) \/ (raced /\ TickExpires)]_vars

\* However tests, races, a beeper switched off and wraps of the clock have left
\* the engine, a fire that lasts with the beeper enabled is heard again and
\* again once nobody presses a test: the re-arming cannot be jammed.
SirenRecurs ==
    <>[](fire /\ enabled /\ web = WebIdle) => []<>siren

\* And without a fire the siren stops for good: no mixture of fields keeps a
\* repeating pattern alive.
SirenStops ==
    <>[](~fire /\ enabled /\ web = WebIdle) => <>[](~siren)

\* main.cpp:746, "keep sounding while the fire condition holds (FR-08)":
\* whenever Core 1 rests, a fire is being sounded.  The code refutes it: the cycle
\* that could re-arm the siren comes just before tick() finds the burst expired,
\* and the next one a period later.
SirenWhileFire == CoreAt("rest") /\ fire /\ enabled => siren
=============================================================================
