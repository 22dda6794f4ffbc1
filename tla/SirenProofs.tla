----------------------------- MODULE SirenProofs -----------------------------
(***************************************************************************)
(* The siren takes over and owns the buzzer, for all durations, any lag of *)
(* Core 1 shorter than a burst and any width of the clock that is longer   *)
(* than a burst and an iteration, however the stores of a sound test fall  *)
(* between the steps of Core 1.                                            *)
(***************************************************************************)
EXTENDS Siren, TLAPS

\* What the web task holds: a typed value for each field it has still to store.
WebOK ==
    /\ web = [pc |-> web.pc, test |-> web.test, now |-> web.now,
              stores |-> web.stores]
    /\ \A f \in DOMAIN web.stores :
           \/ f = "pattern" /\ web.stores[f] \in Patterns
           \/ f = "startMs" /\ web.stores[f] \in Millis
           \/ f = "totalMs" /\ web.stores[f] \in {ToneMs, MelodyMs, TestMs, BurstMs}
           \/ f \in {"fireMode", "active"} /\ web.stores[f] \in BOOLEAN
    /\ web.pc = "guard" => web.test \in Tests

\* The fire alarm rose in this iteration, with the beeper enabled and no test
\* stored since: this is what the siren must be heard for.
Heard == core.rose /\ enabled /\ ~raced

\* Core 1 has begun the burst at t.
Begun(t) == beep = Stored("fire", BurstMs, t)

\* From the edge on the engine holds the burst, at the tick still a fresh one:
\* in the second boot cycle the loop reads the clock again before it.
RiseInv ==
    Heard =>
        /\ core.pc \in {"rearm", "advise", "top"} => Begun(core.now)
        /\ core.pc = "tick" =>
               \E t \in Millis : Begun(t) /\ Since(t, core.now) <= LagMs
        /\ core.pc # "expire"
        /\ core.pc = "rest" => siren

SirenInv ==
    /\ TypeOK
    /\ WebOK
    /\ Since(core.now, clock) <= LagMs
    /\ RiseInv

-----------------------------------------------------------------------------
(* The clock *)

LEMMA Durations ==
    /\ ToneMs \in Nat \ {0} /\ MelodyMs \in Nat \ {0} /\ TestMs \in Nat \ {0}
    /\ BurstMs \in Nat \ {0} /\ LagMs \in Nat \ {0} /\ ClockMod \in Nat \ {0}
    /\ LagMs < BurstMs /\ BurstMs + LagMs < ClockMod
    /\ BeeperMayToggle \in BOOLEAN
  BY SirenAssumption

\* Subtraction on the clock face.
LEMMA SinceIs ==
    ASSUME NEW t \in Millis, NEW u \in Millis
    PROVE  Since(t, u) = IF t <= u THEN u - t ELSE u - t + ClockMod
<1>1. /\ ClockMod \in Int /\ ClockMod > 0
      /\ u - t \in Int /\ -ClockMod < u - t /\ u - t < ClockMod
  BY Durations DEF Millis
<1> DEFINE a == u - t
<1>2. a \in Int /\ -ClockMod < a /\ a < ClockMod
  BY <1>1
<1> HIDE DEF a
<1>3. CASE a < 0
  <2>1. a % ClockMod = a + ClockMod
    BY <1>1, <1>2, <1>3
  <2> QED
    BY <2>1, <1>3 DEF Since, a, Millis
<1>4. CASE 0 <= a
  <2>1. a % ClockMod = a
    BY <1>1, <1>2, <1>4
  <2> QED
    BY <2>1, <1>4 DEF Since, a, Millis
<1> QED
  BY <1>2, <1>3, <1>4

LEMMA NoneSince == ASSUME NEW t \in Millis PROVE Since(t, t) = 0
  BY SinceIs DEF Millis

LEMMA ClockStays == ASSUME NEW c \in Millis PROVE (c + 1) % ClockMod \in Millis
  BY Durations DEF Millis

\* A tick of the clock is one more since whatever lies less than a turn back.
LEMMA TickSince ==
    ASSUME NEW t \in Millis, NEW c \in Millis, Since(t, c) < LagMs
    PROVE  Since(t, (c + 1) % ClockMod) <= LagMs
<1> DEFINE d == (c + 1) % ClockMod
<1>1. ClockMod \in Nat /\ LagMs \in Nat /\ 0 < LagMs /\ LagMs < ClockMod
  BY Durations
<1>2. d = IF c + 1 < ClockMod THEN c + 1 ELSE 0
  <2>1. CASE c + 1 < ClockMod
    BY <1>1, <2>1 DEF Millis
  <2>2. CASE c + 1 = ClockMod
    <3>1. ClockMod % ClockMod = 0
      BY <1>1
    <3> QED
      BY <3>1, <2>2, <1>1
  <2> QED
    BY <2>1, <2>2, <1>1 DEF Millis
<1>3. /\ d \in Millis
      /\ Since(t, c) = IF t <= c THEN c - t ELSE c - t + ClockMod
      /\ Since(t, d) = IF t <= d THEN d - t ELSE d - t + ClockMod
  BY <1>1, SinceIs, ClockStays
<1> HIDE DEF d
<1>4. Since(t, d) <= LagMs
  BY <1>1, <1>2, <1>3 DEF Millis
<1> QED
  BY <1>4 DEF d

-----------------------------------------------------------------------------
(* The engine *)

\* A pattern that is stored is well typed, its duration being one of four.
LEMMA StoredType ==
    ASSUME NEW p \in Calls, NEW now \in Millis,
           NEW total \in {ToneMs, MelodyMs, TestMs, BurstMs}
    PROVE  Stored(p, total, now) \in Engine
<1>1. (p = "fire") \in BOOLEAN /\ TRUE \in BOOLEAN
  OBVIOUS
<1>2. (IF p = "fire" THEN "fire" ELSE "tones") \in Patterns
  BY DEF Patterns
<1> QED
  BY <1>1, <1>2 DEF Stored, Engine

LEMMA DurationType ==
    ASSUME NEW p \in Calls
    PROVE  /\ Duration(p) \in {ToneMs, MelodyMs, TestMs, BurstMs}
           /\ WebDuration(p) \in {ToneMs, MelodyMs, TestMs, BurstMs}
  BY DEF Calls, Duration, WebDuration

LEMMA LateType == ASSUME TracksLate PROVE late' \in BOOLEAN
  BY DEF TracksLate

LEMMA PlayType ==
    ASSUME beep \in Engine, NEW p \in Calls, NEW now \in Millis
    PROVE  Play(p, now) \in Engine
  BY StoredType, DurationType DEF Play

\* Nothing that Core 1 plays replaces a fire pattern but another one.
LEMMA OwnsAgainstCore ==
    ASSUME beep.active, beep.fireMode, NEW p \in {"tone", "melody"},
           NEW now \in Millis
    PROVE  Play(p, now) = beep
  BY DEF Play, Refused

-----------------------------------------------------------------------------
(* The type invariant, with what the web task holds *)

LEMMA TypeInit == Init => TypeOK /\ WebOK
<1> SUFFICES ASSUME Init PROVE TypeOK /\ WebOK
  OBVIOUS
<1>1. 0 \in Millis
  BY Durations DEF Millis
<1>2. beep \in Engine
  BY <1>1, StoredType DEF Init, Calls
<1>3. /\ web.pc = "idle" /\ web.test = "none" /\ web.now = 0
      /\ web.stores = NoStores /\ DOMAIN web.stores = {}
      /\ web = [pc |-> web.pc, test |-> web.test, now |-> web.now,
                stores |-> web.stores]
  BY DEF Init, WebIdle, NoStores
<1>4. WebOK
  BY <1>3 DEF WebOK
<1>5. core \in [pc : {"boot", "cycle", "alarms", "rearm", "advise", "top",
                    "tick", "expire", "rest"},
              now : Millis, lastMeasure : Millis, boots : 0 .. 2,
              rose : BOOLEAN, faulty : BOOLEAN]
  BY <1>1 DEF Init
<1>6. clock \in Millis /\ fire \in BOOLEAN /\ enabled \in BOOLEAN /\ raced \in BOOLEAN
  BY <1>1 DEF Init
<1>7. siren \in BOOLEAN /\ late \in BOOLEAN
  BY DEF Init
<1> QED
  BY <1>1, <1>2, <1>3, <1>4, <1>5, <1>6, <1>7 DEF TypeOK

\* The parts of the state that the steps of Core 1 leave alone or set freely.
LEMMA CoreType ==
    ASSUME TypeOK, WebOK, Core1
    PROVE  TypeOK' /\ WebOK'
<1>1. CASE BootCycle
  BY <1>1 DEF BootCycle, CoreAt, TypeOK, WebOK
<1>2. CASE ReadClock
  <2>1. core' \in [pc : {"boot", "cycle", "alarms", "rearm", "advise", "top",
                         "tick", "expire", "rest"},
                   now : Millis, lastMeasure : Millis, boots : 0 .. 2,
                   rose : BOOLEAN, faulty : BOOLEAN]
    <3>1. CASE Since(core.lastMeasure, clock) >= PeriodMs
      BY <1>2, <3>1 DEF ReadClock, TypeOK
    <3>2. CASE ~(Since(core.lastMeasure, clock) >= PeriodMs)
      <4>1. (core.rose /\ CoreAt("top")) \in BOOLEAN
        BY DEF TypeOK, CoreAt
      <4> QED
        BY <1>2, <3>2, <4>1 DEF ReadClock, TypeOK
    <3> QED
      BY <3>1, <3>2
  <2>2. raced' \in BOOLEAN
    BY <1>2 DEF ReadClock, CoreAt, TypeOK
  <2> QED
    BY <1>2, <2>1, <2>2 DEF ReadClock, TypeOK, WebOK
<1>3. CASE CycleEnable
  <2>1. enabled' \in BOOLEAN
    BY <1>3, Zenon DEF CycleEnable, TypeOK
  <2> QED
    BY <1>3, <2>1 DEF CycleEnable, CoreGoes, TypeOK, WebOK
<1>4. CASE CycleAlarms
  <2>1. core.now \in Millis /\ beep \in Engine
    BY DEF TypeOK
  <2>2. fire' \in BOOLEAN /\ (~fire /\ fire') \in BOOLEAN
    BY <1>4 DEF CycleAlarms
  <2>3. PICK faulty \in BOOLEAN :
            /\ beep' \in {Play("fire", core.now), Play("tone", core.now), beep}
            /\ core' = [core EXCEPT !.pc = "rearm", !.rose = ~fire /\ fire',
                                    !.faulty = faulty]
    BY <1>4, Zenon DEF CycleAlarms
  <2>4. beep' \in Engine
    BY <2>1, <2>3, PlayType DEF Calls
  <2>5. core' \in [pc : {"boot", "cycle", "alarms", "rearm", "advise", "top",
                         "tick", "expire", "rest"},
                   now : Millis, lastMeasure : Millis, boots : 0 .. 2,
                   rose : BOOLEAN, faulty : BOOLEAN]
    BY <2>2, <2>3 DEF TypeOK
  <2> QED
    BY <1>4, <2>2, <2>4, <2>5, LateType DEF CycleAlarms, TypeOK, WebOK
<1>5. CASE CycleRearm
  <2>1. core.now \in Millis /\ beep \in Engine
    BY DEF TypeOK
  <2>2. beep' \in Engine
    BY <1>5, <2>1, PlayType DEF CycleRearm, Calls
  <2> QED
    BY <1>5, <2>2, LateType DEF CycleRearm, CoreGoes, TypeOK, WebOK
<1>6. CASE CycleAdvise
  <2>1. core.now \in Millis /\ beep \in Engine /\ core.boots \in {0, 1, 2}
    BY DEF TypeOK
  <2>2. beep' \in Engine
    BY <1>6, <2>1, PlayType DEF CycleAdvise, Calls
  <2>3. \/ core' = [core EXCEPT !.pc = "boot", !.boots = 1]
        \/ core' = [core EXCEPT !.pc = "top", !.boots = 0]
        \/ core' = [core EXCEPT !.pc = "tick"]
    BY <1>6, <2>1 DEF CycleAdvise
  <2>4. core' \in [pc : {"boot", "cycle", "alarms", "rearm", "advise", "top",
                         "tick", "expire", "rest"},
                   now : Millis, lastMeasure : Millis, boots : 0 .. 2,
                   rose : BOOLEAN, faulty : BOOLEAN]
    <3> DEFINE Boots == 0 .. 2
    <3>1. 1 \in Boots /\ 0 \in Boots
      OBVIOUS
    <3>2. core \in [pc : {"boot", "cycle", "alarms", "rearm", "advise", "top",
                          "tick", "expire", "rest"},
                    now : Millis, lastMeasure : Millis, boots : Boots,
                    rose : BOOLEAN, faulty : BOOLEAN]
      BY DEF TypeOK
    <3> HIDE DEF Boots
    <3>3. core' \in [pc : {"boot", "cycle", "alarms", "rearm", "advise", "top",
                           "tick", "expire", "rest"},
                     now : Millis, lastMeasure : Millis, boots : Boots,
                     rose : BOOLEAN, faulty : BOOLEAN]
      BY <2>3, <3>1, <3>2
    <3> QED
      BY <3>3 DEF Boots
  <2> QED
    BY <1>6, <2>2, <2>4 DEF CycleAdvise, TypeOK, WebOK
<1>7. CASE TickSilent
  BY <1>7 DEF TickSilent, CoreGoes, TypeOK, WebOK
<1>8. CASE TickPlays
  BY <1>8 DEF TickPlays, CoreGoes, TypeOK, Engine, WebOK
<1>9. CASE TickFindsExpired
  BY <1>9 DEF TickFindsExpired, CoreGoes, TypeOK, WebOK
<1>10. CASE TickExpires
  <2>1. beep' \in Engine
    BY <1>10 DEF TickExpires, TypeOK, Engine
  <2>2. raced' \in BOOLEAN
    BY <1>10 DEF TickExpires, TypeOK
  <2> QED
    BY <1>10, <2>1, <2>2 DEF TickExpires, CoreGoes, TypeOK, WebOK
<1> QED
  BY <1>1, <1>2, <1>3, <1>4, <1>5, <1>6, <1>7, <1>8, <1>9, <1>10 DEF Core1

\* A store of the web task, one field at a time.
LEMMA StoreType ==
    ASSUME TypeOK, WebOK, NEW f \in Fields, WebStore(f)
    PROVE  TypeOK' /\ WebOK'
<1>1. /\ f \in DOMAIN web.stores /\ DOMAIN web.stores \subseteq Fields
      /\ beep \in Engine /\ beep' = [beep EXCEPT ![f] = web.stores[f]]
  BY DEF WebStore, TypeOK
<1>2. beep' \in Engine
  <2>1. \/ f = "pattern" /\ web.stores[f] \in Patterns
        \/ f = "startMs" /\ web.stores[f] \in Millis
        \/ f = "totalMs" /\ web.stores[f] \in {ToneMs, MelodyMs, TestMs, BurstMs}
        \/ f \in {"fireMode", "active"} /\ web.stores[f] \in BOOLEAN
    BY <1>1 DEF WebOK
  <2> DEFINE v == web.stores[f]
  <2> HIDE DEF v
  <2>2. CASE f = "pattern" /\ v \in Patterns
    BY <1>1, <2>2 DEF v, Engine
  <2>3. CASE f = "startMs" /\ v \in Millis
    BY <1>1, <2>3 DEF v, Engine
  <2>4. CASE f = "totalMs" /\ v \in {ToneMs, MelodyMs, TestMs, BurstMs}
    BY <1>1, <2>4 DEF v, Engine
  <2>5. CASE f \in {"fireMode", "active"} /\ v \in BOOLEAN
    BY <1>1, <2>5 DEF v, Engine
  <2> QED
    BY <2>1, <2>2, <2>3, <2>4, <2>5 DEF v
<1>6. raced' \in BOOLEAN /\ late' \in BOOLEAN
  BY LateType DEF WebStore, TypeOK, CoreAt
<1> DEFINE rest == DOMAIN web.stores \ {f}
           held == [g \in rest |-> web.stores[g]]
<1>3. \/ web' = WebIdle
      \/ web' = [web EXCEPT !.stores = held]
  BY DEF WebStore
<1>4. CASE web' = WebIdle
  <2>1. /\ web'.pc = "idle" /\ web'.test = "none" /\ web'.now = 0
        /\ DOMAIN web'.stores = {} /\ 0 \in Millis
        /\ web' = [pc |-> web'.pc, test |-> web'.test, now |-> web'.now,
                   stores |-> web'.stores]
    BY <1>4, Durations DEF WebIdle, NoStores, Millis
  <2> QED
    BY <1>2, <1>6, <2>1 DEF WebStore, TypeOK, WebOK
<1>5. CASE web' = [web EXCEPT !.stores = held]
  <2>1. web = [pc |-> web.pc, test |-> web.test, now |-> web.now,
               stores |-> web.stores]
    BY DEF WebOK
  <2>2. /\ DOMAIN held = rest /\ rest \subseteq DOMAIN web.stores
        /\ \A g \in rest : held[g] = web.stores[g]
    OBVIOUS
  <2> HIDE DEF held, rest
  <2>3. web' = [pc |-> web.pc, test |-> web.test, now |-> web.now, stores |-> held]
    BY <1>5, <2>1
  <2>4. /\ web'.pc = web.pc /\ web'.test = web.test /\ web'.now = web.now
        /\ web'.stores = held
        /\ web' = [pc |-> web'.pc, test |-> web'.test, now |-> web'.now,
                   stores |-> web'.stores]
    BY <2>3
  <2>5. WebOK'
    BY <2>2, <2>4, <1>1 DEF WebOK, WebStore
  <2>6. DOMAIN web'.stores \subseteq Fields
    BY <2>2, <2>4, <1>1
  <2> QED
    BY <1>2, <1>6, <2>4, <2>5, <2>6 DEF WebStore, TypeOK
<1> QED
  BY <1>3, <1>4, <1>5

LEMMA TypeStep == TypeOK /\ WebOK /\ [Next]_vars => TypeOK' /\ WebOK'
<1> SUFFICES ASSUME TypeOK, WebOK, [Next]_vars PROVE TypeOK' /\ WebOK'
  OBVIOUS
<1>1. CASE Tick
  BY <1>1, ClockStays DEF Tick, TypeOK, WebOK
<1>2. CASE Core1
  BY <1>2, CoreType
<1>3. ASSUME NEW test \in Tests, WebPress(test) PROVE TypeOK' /\ WebOK'
  <2>1. /\ web'.pc = "guard" /\ web'.test = test /\ web'.now = clock
        /\ DOMAIN web'.stores = {}
        /\ web' = [pc |-> web'.pc, test |-> web'.test, now |-> web'.now,
                   stores |-> web'.stores]
    BY <1>3 DEF WebPress, WebIdle, NoStores
  <2>2. WebOK'
    BY <2>1 DEF WebOK
  <2> QED
    BY <1>3, <2>1, <2>2 DEF WebPress, TypeOK
<1>4. CASE WebGuard
  <2> DEFINE p == web.test
             total == WebDuration(p)
             now == web.now
             st == Stored(p, total, now)
  <2>1. p \in Calls /\ now \in Millis /\ total \in {ToneMs, MelodyMs, TestMs, BurstMs}
    BY <1>4, SirenAssumption, DurationType DEF WebGuard, WebOK, TypeOK, Calls
  <2>2. /\ DOMAIN st = Fields
        /\ st["pattern"] \in Patterns /\ st["startMs"] = now /\ st["totalMs"] = total
        /\ st["fireMode"] \in BOOLEAN /\ st["active"] \in BOOLEAN
    BY DEF Stored, Fields, Patterns
  <2>3. web' \in {WebIdle, [WebIdle EXCEPT !.pc = "store", !.stores = st]}
    BY <1>4 DEF WebGuard
  <2> HIDE DEF st, total, p, now
  <2>4. /\ web'.pc \in {"idle", "store"} /\ web'.test = "none" /\ web'.now = 0
        /\ web'.stores \in {NoStores, st}
        /\ web' = [pc |-> web'.pc, test |-> web'.test, now |-> web'.now,
                   stores |-> web'.stores]
    <3>1. CASE web' = WebIdle
      BY <3>1 DEF WebIdle
    <3>2. CASE web' = [WebIdle EXCEPT !.pc = "store", !.stores = st]
      <4>1. web' = [pc |-> "store", test |-> "none", now |-> 0, stores |-> st]
        BY <3>2 DEF WebIdle
      <4> QED
        BY <4>1
    <3> QED
      BY <2>3, <3>1, <3>2
  <2>5. DOMAIN NoStores = {} /\ 0 \in Millis
    BY Durations DEF NoStores, Millis
  <2>6. WebOK'
    BY <2>1, <2>2, <2>4, <2>5 DEF WebOK, Fields
  <2>7. DOMAIN web'.stores \subseteq Fields
    BY <2>2, <2>4, <2>5
  <2> QED
    BY <1>4, <2>4, <2>5, <2>6, <2>7 DEF WebGuard, TypeOK
<1>5. ASSUME NEW f \in Fields, WebStore(f) PROVE TypeOK' /\ WebOK'
  BY <1>5, StoreType
<1>6. CASE UNCHANGED vars
  BY <1>6 DEF vars, TypeOK, WebOK
<1> QED
  BY <1>1, <1>2, <1>3, <1>4, <1>5, <1>6 DEF Next, WebPlay

\* Engine, loop and web task keep their types, whatever mixture of fields the
\* two tasks leave in the engine (Siren's TypeOK).
THEOREM SirenTypeOK == Spec => []TypeOK
  BY TypeInit, TypeStep, PTL DEF Spec

-----------------------------------------------------------------------------
(* The burst of a fire that has just risen *)

\* One iteration takes LagMs at most.
LEMMA LagStep ==
    ASSUME TypeOK, Since(core.now, clock) <= LagMs, [Next]_vars
    PROVE  Since(core'.now, clock') <= LagMs
<1>1. core.now \in Millis /\ clock \in Millis
  BY DEF TypeOK
<1>2. CASE Tick
  BY <1>1, <1>2, TickSince DEF Tick
<1>3. CASE BootCycle \/ ReadClock
  <2>1. core'.now = clock /\ clock' = clock
    BY <1>3 DEF BootCycle, ReadClock, TypeOK
  <2> QED
    BY <1>1, <2>1, NoneSince, Durations
<1>4. CASE core'.now = core.now /\ clock' = clock
  BY <1>4
<1>5. CASE CycleEnable \/ CycleAlarms \/ CycleRearm \/ CycleAdvise
  <2>1. core'.now = core.now
    <3>1. CASE CycleAlarms
      BY <3>1 DEF CycleAlarms, TypeOK
    <3>2. CASE CycleEnable \/ CycleRearm
      BY <3>2 DEF CycleEnable, CycleRearm, CoreGoes, TypeOK
    <3>3. CASE CycleAdvise
      BY <3>3 DEF CycleAdvise, TypeOK
    <3> QED
      BY <1>5, <3>1, <3>2, <3>3
  <2>2. clock' = clock
    BY <1>5 DEF CycleEnable, CycleAlarms, CycleRearm, CycleAdvise
  <2> QED
    BY <1>4, <2>1, <2>2
<1>6. CASE TickSilent \/ TickPlays \/ TickFindsExpired \/ TickExpires
  BY <1>4, <1>6
  DEF TickSilent, TickPlays, TickFindsExpired, TickExpires, CoreGoes, TypeOK
<1>7. CASE (\E test \in Tests : WebPress(test)) \/ WebPlay \/ UNCHANGED vars
  BY <1>4, <1>7 DEF WebPress, WebPlay, WebGuard, WebStore, vars
<1> QED
  BY <1>2, <1>3, <1>5, <1>6, <1>7 DEF Next, Core1

\* What a burst begun at t looks like.
LEMMA BegunIs ==
    ASSUME NEW t \in Millis, Begun(t)
    PROVE  /\ beep.active /\ beep.fireMode /\ beep.pattern = "fire"
           /\ beep.startMs = t /\ beep.totalMs = BurstMs
  BY DEF Begun, Stored

\* A fresh burst is not found expired.
LEMMA FreshPlays ==
    ASSUME TypeOK, NEW t \in Millis, Begun(t), Since(t, core.now) <= LagMs
    PROVE  ~Expired(core.now)
<1>1. core.now \in Millis
  BY DEF TypeOK
<1>2. Since(t, core.now) \in Int
  <2>1. t \in Int /\ core.now \in Int /\ ClockMod \in Int
    BY <1>1, Durations DEF Millis
  <2>2. Since(t, core.now) = IF t <= core.now THEN core.now - t
                             ELSE core.now - t + ClockMod
    BY <1>1, SinceIs
  <2> QED
    BY <2>1, <2>2
<1>3. beep.startMs = t /\ beep.totalMs = BurstMs
  BY BegunIs
<1> QED
  BY <1>2, <1>3, Durations DEF Expired

\* The measurement cycle of the rise: the edge stores the burst, neither the
\* re-arming nor the window melody touches it.
LEMMA CycleRises ==
    ASSUME SirenInv, CycleEnable \/ CycleAlarms \/ CycleRearm \/ CycleAdvise
    PROVE  RiseInv'
<1>1. /\ core.now \in Millis /\ core.boots \in {0, 1, 2}
      /\ Since(core.now, core.now) = 0
  BY NoneSince DEF SirenInv, TypeOK
<1>2. CASE CycleEnable
  <2>1. core'.pc = "alarms"
    BY <1>2 DEF CycleEnable, CoreGoes, SirenInv, TypeOK
  <2> QED
    BY <2>1 DEF RiseInv
<1>3. CASE CycleAlarms
  <2>1. core'.pc = "rearm" /\ core'.rose = (~fire /\ fire') /\ core'.now = core.now
    BY <1>3, Zenon DEF CycleAlarms, SirenInv, TypeOK
  <2>2. Heard' => ~fire /\ fire' /\ enabled
    BY <1>3, <2>1 DEF CycleAlarms, Heard
  <2>3. Heard' => beep' = Play("fire", core.now)
    BY <1>3, <2>2 DEF CycleAlarms
  <2>4. Heard' => Begun(core.now)'
    BY <2>1, <2>2, <2>3 DEF Play, Refused, Duration, Begun
  <2> QED
    BY <2>1, <2>4 DEF RiseInv
<1>4. CASE CycleRearm
  <2>1. /\ core.pc = "rearm" /\ core'.pc = "advise" /\ core'.rose = core.rose
        /\ core'.now = core.now
    BY <1>4 DEF CycleRearm, CoreAt, CoreGoes, SirenInv, TypeOK
  <2>2. Heard' => Heard
    BY <1>4, <2>1 DEF CycleRearm, Heard
  <2>3. Heard => Begun(core.now) /\ beep.active
    BY <1>1, <2>1, BegunIs DEF SirenInv, RiseInv
  <2>4. Heard => Begun(core.now)'
    BY <1>4, <2>1, <2>3 DEF CycleRearm, Begun
  <2> QED
    BY <2>1, <2>2, <2>4 DEF RiseInv
<1>5. CASE CycleAdvise
  <2>1. /\ core.pc = "advise" /\ core'.pc \in {"boot", "top", "tick"}
        /\ core'.rose = core.rose /\ core'.now = core.now
    <3>1. \/ core' = [core EXCEPT !.pc = "boot", !.boots = 1]
          \/ core' = [core EXCEPT !.pc = "top", !.boots = 0]
          \/ core' = [core EXCEPT !.pc = "tick"]
      BY <1>1, <1>5 DEF CycleAdvise
    <3> QED
      BY <1>5, <3>1 DEF CycleAdvise, CoreAt, SirenInv, TypeOK
  <2>2. Heard' => Heard
    BY <1>5, <2>1 DEF CycleAdvise, Heard
  <2>3. Heard => Begun(core.now) /\ beep.active /\ beep.fireMode
    BY <1>1, <2>1, BegunIs DEF SirenInv, RiseInv
  <2>4. Heard => beep' = beep
    BY <1>1, <1>5, <2>3, OwnsAgainstCore DEF CycleAdvise
  <2>5. Heard => Begun(core.now)'
    BY <2>1, <2>3, <2>4 DEF Begun
  <2>6. Heard => \E t \in Millis : Begun(t)' /\ Since(t, core'.now) <= LagMs
    BY <1>1, <2>1, <2>5, Durations DEF Begun
  <2> QED
    BY <2>1, <2>2, <2>5, <2>6 DEF RiseInv
<1> QED
  BY <1>2, <1>3, <1>4, <1>5

\* The tick that follows: it finds the burst, and plays it.
LEMMA TickRises ==
    ASSUME SirenInv, TickSilent \/ TickPlays \/ TickFindsExpired \/ TickExpires
    PROVE  RiseInv'
<1>1. core.pc \in {"tick", "expire"}
  BY DEF TickSilent, TickPlays, TickFindsExpired, TickExpires, CoreAt
<1>2. Heard => /\ core.pc = "tick" /\ enabled /\ beep.active
               /\ beep.pattern = "fire" /\ ~Expired(core.now)
  <2> SUFFICES ASSUME Heard
               PROVE  /\ core.pc = "tick" /\ enabled /\ beep.active
                      /\ beep.pattern = "fire" /\ ~Expired(core.now)
    OBVIOUS
  <2>1. core.pc = "tick" /\ enabled
    BY <1>1 DEF SirenInv, RiseInv, Heard
  <2>2. PICK t \in Millis : Begun(t) /\ Since(t, core.now) <= LagMs
    BY <2>1 DEF SirenInv, RiseInv
  <2> QED
    BY <2>1, <2>2, BegunIs, FreshPlays DEF SirenInv
<1>3. core'.rose = core.rose /\ enabled' = enabled
  BY DEF TickSilent, TickPlays, TickFindsExpired, TickExpires, CoreGoes,
         SirenInv, TypeOK
<1>4. Heard' => Heard
  <2>1. raced' = raced \/ raced' = (raced /\ core.rose)
    BY Zenon DEF TickSilent, TickPlays, TickFindsExpired, TickExpires
  <2> QED
    BY <1>3, <2>1 DEF Heard
<1>5. Heard => core'.pc = "rest" /\ siren'
  <2> SUFFICES ASSUME Heard PROVE core'.pc = "rest" /\ siren'
    OBVIOUS
  <2>1. ~TickSilent /\ ~TickFindsExpired /\ ~TickExpires
    BY <1>2 DEF TickSilent, TickFindsExpired, TickExpires, CoreAt
  <2> QED
    BY <1>2, <2>1 DEF TickPlays, CoreGoes, SirenInv, TypeOK
<1> QED
  BY <1>4, <1>5 DEF RiseInv

\* The clock is read once between the second boot cycle and the tick; a new
\* iteration forgets the rise.
LEMMA ReadRises ==
    ASSUME SirenInv, BootCycle \/ ReadClock
    PROVE  RiseInv'
<1>1. CASE core'.pc = "cycle"
  BY <1>1 DEF RiseInv
<1>2. CASE core'.pc # "cycle"
  <2>1. /\ core.pc \in {"top", "rest"} /\ core'.pc = "tick" /\ core'.now = clock
        /\ core'.rose = (core.rose /\ CoreAt("top"))
        /\ raced' = (raced /\ CoreAt("top"))
        /\ beep' = beep /\ enabled' = enabled
    <3>1. ReadClock
      BY <1>2 DEF BootCycle, SirenInv, TypeOK
    <3>2. core' = [core EXCEPT !.pc = "tick", !.now = clock,
                               !.rose = @ /\ CoreAt("top")]
      BY <1>2, <3>1 DEF ReadClock, SirenInv, TypeOK
    <3>3. core'.pc = "tick" /\ core'.now = clock
      BY <3>2 DEF SirenInv, TypeOK
    <3>4. core'.rose = (core.rose /\ CoreAt("top"))
      BY <3>2, Zenon DEF SirenInv, TypeOK
    <3> QED
      BY <3>1, <3>3, <3>4, Zenon DEF ReadClock
  <2>2. Heard' => Heard /\ core.pc = "top"
    BY <2>1, Zenon DEF Heard, CoreAt
  <2>3. Heard /\ core.pc = "top" => Begun(core.now)
    BY DEF SirenInv, RiseInv
  <2>4. core.now \in Millis /\ Since(core.now, clock) <= LagMs
    BY DEF SirenInv, TypeOK
  <2>5. Heard' => \E t \in Millis : Begun(t)' /\ Since(t, core'.now) <= LagMs
    BY <2>1, <2>2, <2>3, <2>4 DEF Begun
  <2> QED
    BY <2>1, <2>5 DEF RiseInv, Begun
<1> QED
  BY <1>1, <1>2

LEMMA SirenInit == Init => SirenInv
<1> SUFFICES ASSUME Init PROVE SirenInv
  OBVIOUS
<1>1. Since(core.now, clock) <= LagMs
  BY TypeInit, NoneSince, Durations DEF Init, TypeOK
<1>2. RiseInv
  BY DEF Init, RiseInv
<1> QED
  BY <1>1, <1>2, TypeInit DEF SirenInv

LEMMA SirenStep == SirenInv /\ [Next]_vars => SirenInv'
<1> SUFFICES ASSUME SirenInv, [Next]_vars PROVE SirenInv'
  OBVIOUS
<1>1. TypeOK /\ WebOK /\ RiseInv /\ Since(core.now, clock) <= LagMs
  BY DEF SirenInv
<1>2. TypeOK' /\ WebOK' /\ Since(core'.now, clock') <= LagMs
  BY <1>1, TypeStep, LagStep
<1>3. RiseInv'
  <2>1. CASE \/ Tick \/ WebGuard \/ UNCHANGED vars
             \/ \E test \in Tests : WebPress(test)
    <3>1. UNCHANGED <<core, beep, siren, enabled, raced>>
      BY <2>1 DEF Tick, WebPress, WebGuard, vars
    <3> QED
      BY <1>1, <3>1 DEF RiseInv, Heard, Begun
  <2>2. ASSUME NEW f \in Fields, WebStore(f) PROVE RiseInv'
    <3>1. ~Heard'
      BY <2>2 DEF WebStore, Heard
    <3> QED
      BY <3>1 DEF RiseInv
  <2> QED
    BY <2>1, <2>2, CycleRises, TickRises, ReadRises DEF Next, Core1, WebPlay
<1> QED
  BY <1>2, <1>3 DEF SirenInv

\* In the iteration in which the fire alarm rises the siren sounds, whatever
\* was playing and whatever a race with a test has left in the engine, but for
\* a test stored in the rest of that iteration: playFire takes over
\* (beep_engine.h:27-28), and Core 1 reaches tick() before the burst is over.
THEOREM SirenTakesOver == Spec => []FireTakesOver
<1>1. SirenInv => FireTakesOver
  BY DEF SirenInv, RiseInv, Heard, FireTakesOver, CoreAt
<1> QED
  BY <1>1, SirenInit, SirenStep, PTL DEF Spec

-----------------------------------------------------------------------------
(* The fire pattern owns the buzzer *)

\* What a test in flight has still to store is of a fire pattern.
OfFire ==
    \A f \in DOMAIN web.stores :
        /\ f = "pattern" => web.stores[f] = "fire"
        /\ f \in {"fireMode", "active"} => web.stores[f] = TRUE

\* A test past its guard while a fire pattern plays that began before is itself
\* a fire test; and tick() expires no other pattern than the one it has read.
OwnInv ==
    /\ TypeOK
    /\ WebOK
    /\ late => web.pc = "store"
    /\ web.pc = "store" /\ FirePlays /\ ~late => OfFire
    /\ core.pc = "expire" /\ ~raced => Expired(core.now)

\* Nothing that Core 1 plays ends a fire pattern.
LEMMA PlayKeepsFire ==
    ASSUME FirePlays, NEW call \in Calls, NEW now \in Millis,
           beep' = Play(call, now)
    PROVE  FirePlays'
<1>1. CASE call = "fire"
  <2>1. beep' = beep \/ beep' = Stored("fire", BurstMs, now)
    BY <1>1 DEF Play, Duration
  <2>2. CASE beep' = beep
    BY <2>2 DEF FirePlays
  <2>3. CASE beep' = Stored("fire", BurstMs, now)
    <3> DEFINE st == Stored("fire", BurstMs, now)
    <3>1. st.active /\ st.fireMode /\ st.pattern = "fire"
      BY DEF Stored
    <3>2. beep' = st
      BY <2>3
    <3> HIDE DEF st
    <3> QED
      BY <3>1, <3>2 DEF FirePlays
  <2> QED
    BY <2>1, <2>2, <2>3
<1>2. CASE call \in {"tone", "melody"}
  <2>1. beep' = beep
    BY <1>2, OwnsAgainstCore DEF FirePlays
  <2> QED
    BY <2>1 DEF FirePlays
<1> QED
  BY <1>1, <1>2 DEF Calls

\* Nor do the stores of a fire test.
LEMMA StoreKeepsFire ==
    ASSUME TypeOK, FirePlays, OfFire, NEW f \in Fields, WebStore(f)
    PROVE  FirePlays'
<1>1. /\ f \in DOMAIN web.stores
      /\ beep' = [beep EXCEPT ![f] = web.stores[f]]
  BY DEF WebStore
<1> DEFINE v == web.stores[f]
<1>2. /\ f = "pattern" => v = "fire"
      /\ f = "fireMode" => v = TRUE
      /\ f = "active" => v = TRUE
  BY <1>1 DEF OfFire
<1>3. beep' = [beep EXCEPT ![f] = v]
  BY <1>1
<1> HIDE DEF v
<1>4. /\ beep'.pattern = "fire"
      /\ beep'.fireMode = TRUE
      /\ beep'.active = TRUE
  BY <1>2, <1>3 DEF FirePlays, TypeOK, Engine, Fields
<1> QED
  BY <1>4 DEF FirePlays

\* The steps of Core 1, which leave the web task alone.
LEMMA OwnCore ==
    ASSUME OwnInv, Core1
    PROVE  /\ late' => web'.pc = "store"
           /\ web'.pc = "store" /\ FirePlays' /\ ~late' => OfFire'
           /\ core'.pc = "expire" /\ ~raced' => Expired(core.now)'
<1>1. web' = web /\ core.now \in Millis /\ core.boots \in {0, 1, 2}
  <2>1. web' = web
    BY Zenon DEF Core1, BootCycle, ReadClock, CycleEnable, CycleAlarms, CycleRearm,
                 CycleAdvise, TickSilent, TickPlays, TickFindsExpired, TickExpires
  <2> QED
    BY <2>1 DEF OwnInv, TypeOK
<1>2. CASE CycleAlarms \/ CycleRearm
  <2>1. TracksLate /\ core'.pc # "expire"
    BY <1>2 DEF CycleAlarms, CycleRearm, CoreGoes, OwnInv, TypeOK
  <2>2. late' => web'.pc = "store"
    BY <2>1 DEF TracksLate
  <2>3. web'.pc = "store" /\ FirePlays' /\ ~late' => FirePlays /\ ~late
    BY <2>1 DEF TracksLate
  <2> QED
    BY <1>1, <2>1, <2>2, <2>3 DEF OwnInv, OfFire
<1>3. CASE CycleAdvise \/ TickExpires
  <2>1. late' = late
    BY <1>3 DEF CycleAdvise, TickExpires
  <2>2. core'.pc # "expire"
    <3>1. CASE CycleAdvise
      BY <1>1, <3>1 DEF CycleAdvise, OwnInv, TypeOK
    <3>2. CASE TickExpires
      BY <3>2 DEF TickExpires, CoreGoes, OwnInv, TypeOK
    <3> QED
      BY <1>3, <3>1, <3>2
  <2>3. FirePlays' => FirePlays
    <3>1. CASE TickExpires
      BY <3>1 DEF TickExpires, FirePlays, OwnInv, TypeOK, Engine
    <3>2. CASE CycleAdvise
      BY <3>2 DEF CycleAdvise, Play, Stored, FirePlays
    <3> QED
      BY <1>3, <3>1, <3>2
  <2> QED
    BY <1>1, <2>1, <2>2, <2>3 DEF OwnInv, OfFire
<1>4. CASE \/ BootCycle \/ ReadClock \/ CycleEnable
           \/ TickSilent \/ TickPlays \/ TickFindsExpired
  <2>1. late' = late /\ beep' = beep
    BY <1>4 DEF BootCycle, ReadClock, CycleEnable, TickSilent, TickPlays,
                TickFindsExpired
  <2>2. core'.pc = "expire" => Expired(core.now)'
    <3>1. CASE TickFindsExpired
      BY <3>1 DEF TickFindsExpired, CoreGoes, Expired, OwnInv, TypeOK
    <3>2. CASE ReadClock
      BY <3>2 DEF ReadClock, OwnInv, TypeOK
    <3>3. CASE BootCycle \/ CycleEnable \/ TickSilent \/ TickPlays
      BY <3>3 DEF BootCycle, CycleEnable, TickSilent, TickPlays, CoreGoes, OwnInv, TypeOK
    <3> QED
      BY <1>4, <3>1, <3>2, <3>3
  <2> QED
    BY <1>1, <2>1, <2>2 DEF OwnInv, OfFire, FirePlays
<1> QED
  BY <1>2, <1>3, <1>4 DEF Core1

\* The guard lets a test pass only while no fire pattern plays, or a fire test.
LEMMA OwnGuard ==
    ASSUME OwnInv, WebGuard
    PROVE  /\ late' => web'.pc = "store"
           /\ web'.pc = "store" /\ FirePlays' /\ ~late' => OfFire'
<1>1. ~late /\ late' = late /\ beep' = beep
  BY DEF OwnInv, WebGuard
<1>2. ASSUME web'.pc = "store", FirePlays' PROVE OfFire'
  <2> DEFINE st == Stored(web.test, WebDuration(web.test), web.now)
  <2>1. ~Refused(web.test) /\ web' = [WebIdle EXCEPT !.pc = "store", !.stores = st]
    BY <1>2 DEF WebGuard, WebIdle
  <2>2. web.test = "fire"
    BY <1>1, <1>2, <2>1 DEF Refused, FirePlays
  <2>3. st["pattern"] = "fire" /\ st["fireMode"] = TRUE /\ st["active"] = TRUE
    BY <2>2 DEF Stored
  <2> HIDE DEF st
  <2>4. web'.stores = st
    BY <2>1 DEF WebIdle
  <2> QED
    BY <2>3, <2>4 DEF OfFire
<1> QED
  BY <1>1, <1>2

\* A store keeps what is known of the stores that are left.
LEMMA OwnStore ==
    ASSUME OwnInv, NEW f \in Fields, WebStore(f)
    PROVE  /\ late' => web'.pc = "store"
           /\ web'.pc = "store" /\ FirePlays' /\ ~late' => OfFire'
<1>1. TracksLate /\ web.pc = "store"
  BY DEF WebStore
<1>2. late' => web'.pc = "store"
  BY <1>1 DEF TracksLate
<1>3. ASSUME web'.pc = "store", FirePlays', ~late' PROVE OfFire'
  <2>1. FirePlays /\ ~late
    BY <1>1, <1>3 DEF TracksLate
  <2>2. OfFire
    BY <1>1, <2>1 DEF OwnInv
  <2> DEFINE rest == DOMAIN web.stores \ {f}
             held == [g \in rest |-> web.stores[g]]
  <2>3. web' = [web EXCEPT !.stores = held]
    BY <1>3 DEF WebStore, WebIdle
  <2>4. DOMAIN held = rest /\ \A g \in rest : held[g] = web.stores[g]
    OBVIOUS
  <2>5. rest \subseteq DOMAIN web.stores
    OBVIOUS
  <2> HIDE DEF held, rest
  <2>6. web'.stores = held
    BY <2>3 DEF OwnInv, WebOK
  <2> QED
    BY <2>2, <2>4, <2>5, <2>6 DEF OfFire
<1> QED
  BY <1>2, <1>3

LEMMA OwnInit == Init => OwnInv
<1> SUFFICES ASSUME Init PROVE OwnInv
  OBVIOUS
<1>1. late = FALSE /\ web.pc = "idle" /\ core.pc = "boot"
  BY DEF Init, WebIdle
<1> QED
  BY <1>1, TypeInit DEF OwnInv

LEMMA OwnStep == OwnInv /\ [Next]_vars => OwnInv'
<1> SUFFICES ASSUME OwnInv, [Next]_vars PROVE OwnInv'
  OBVIOUS
<1>1. TypeOK' /\ WebOK'
  BY TypeStep DEF OwnInv
<1>2. CASE Core1
  BY <1>1, <1>2, OwnCore DEF OwnInv
<1>3. CASE WebGuard
  BY <1>1, <1>3, OwnGuard DEF OwnInv, WebGuard, Expired
<1>4. ASSUME NEW f \in Fields, WebStore(f) PROVE OwnInv'
  <2>1. core' = core /\ (core.pc = "expire" => raced')
    BY <1>4 DEF WebStore, CoreAt
  <2> QED
    BY <1>1, <1>4, <2>1, OwnStore DEF OwnInv
<1>5. ASSUME NEW test \in Tests, WebPress(test) PROVE OwnInv'
  <2>1. web.pc = "idle" /\ web'.pc = "guard" /\ UNCHANGED <<late, core, beep, raced>>
    BY <1>5 DEF WebPress, WebIdle
  <2> QED
    BY <1>1, <2>1 DEF OwnInv, Expired
<1>6. CASE Tick \/ UNCHANGED vars
  <2>1. UNCHANGED <<web, late, core, beep, raced>>
    BY <1>6 DEF Tick, vars
  <2> QED
    BY <1>1, <2>1 DEF OwnInv, OfFire, FirePlays, Expired
<1> QED
  BY <1>2, <1>3, <1>4, <1>5, <1>6 DEF Next, WebPlay

\* A fire pattern with time left is neither replaced nor silenced, whatever
\* Core 1 and the sound tests play and however their stores mix; but by a test
\* past its guard before the pattern began, and by the expiry of the pattern
\* that a fire test has just renewed (beep_engine.cpp, main.cpp:625-634).  A fire
\* test restarts the pattern for a shorter time, which is no loss here.
THEOREM SirenOwnsBuzzer == Spec => FireOwnsBuzzer
<1> DEFINE Lost == FirePlays /\ ~Expired(core.now) /\ ~FirePlays'
           Known == (late /\ WebPlay) \/ (raced /\ TickExpires)
<1>1. OwnInv /\ [Next]_vars => (Lost => Known)
  <2> SUFFICES ASSUME OwnInv, [Next]_vars, Lost PROVE Known
    OBVIOUS
  <2>1. core.now \in Millis /\ beep' # beep
    BY DEF OwnInv, TypeOK, FirePlays
  <2>2. ASSUME NEW f \in Fields, WebStore(f) PROVE Known
    <3>1. web.pc = "store" /\ ~OfFire
      BY <2>2, StoreKeepsFire DEF WebStore, OwnInv
    <3> QED
      BY <2>2, <3>1 DEF OwnInv, WebPlay
  <2>3. CASE TickExpires
    BY <2>3 DEF OwnInv, TickExpires, CoreAt
  <2>4. CASE CycleAlarms \/ CycleRearm \/ CycleAdvise
    <3>1. \E call \in Calls : beep' = Play(call, core.now)
      BY <2>1, <2>4, Zenon DEF CycleAlarms, CycleRearm, CycleAdvise, Calls
    <3> QED
      BY <2>1, <3>1, PlayKeepsFire
  <2> QED
    BY <2>1, <2>2, <2>3, <2>4
    DEF Next, Core1, WebPlay, Tick, BootCycle, ReadClock, CycleEnable,
        TickSilent, TickPlays, TickFindsExpired, WebPress, WebGuard, vars
<1> QED
  BY <1>1, OwnInit, OwnStep, PTL DEF Spec, FireOwnsBuzzer
=============================================================================
