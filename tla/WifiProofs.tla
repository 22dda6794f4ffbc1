----------------------------- MODULE WifiProofs ------------------------------
(***************************************************************************)
(* The times of the web task's loop, for all periods and backoffs, any lag *)
(* of an iteration and any width of the clock that is longer than a period *)
(* and two iterations.                                                     *)
(***************************************************************************)
EXTENDS WifiSupervisor, TLAPS

\* What has elapsed since the loop read the clock, and then since the anchors.
Lag        == Since(web.now, clock)
SinceTry   == Since(lastWifiTry, web.now)
SinceBle   == Since(lastBle, web.now)

\* How the wait for an attempt stands to the anchor: a link just lost; or the
\* backoff has been found not to have elapsed; or the clock has been read and
\* the backoff is about to be looked at, with an anchor that is fresh or so old
\* that its age has wrapped.
WaitBound ==
    \/ waited <= Lag
    \/ /\ web.pc # "link"
       /\ SinceTry < ReconnectMax /\ waited <= LagMs + SinceTry + Lag
    \/ web.pc = "link" /\ waited <= LagMs + Lag
    \/ /\ web.pc = "link"
       /\ SinceTry < ReconnectMax + LagMs /\ waited <= LagMs + SinceTry + Lag

BeaconBound ==
    /\ SinceBle < SamplePeriod + (IF web.pc = "top" THEN 0 ELSE LagMs)
    /\ adv = 0 /\ ~client => unheard <= SinceBle + Lag
    /\ unheard < ScanTime

WifiInv ==
    /\ TypeOK
    /\ backoffMs <= ReconnectMax
    /\ Lag <= LagMs
    /\ connected => waited = 0
    /\ ~connected => WaitBound
    /\ BeaconBound

-----------------------------------------------------------------------------
(* The clock *)

LEMMA Constants ==
    /\ ReconnectMin \in Nat \ {0} /\ ReconnectMax \in Nat \ {0}
    /\ AssocTime \in Nat \ {0} /\ SamplePeriod \in Nat \ {0}
    /\ Burst \in Nat \ {0} /\ LagMs \in Nat \ {0} /\ ClockMod \in Nat
    /\ ReconnectMin <= ReconnectMax
    /\ ReconnectMax + 2 * LagMs < ClockMod
    /\ SamplePeriod + 2 * LagMs < ClockMod
  BY SupervisorAssumption

LEMMA WrapOnce ==
    ASSUME NEW n \in Int, NEW a \in Int, n > 0, -n < a, a < n + n
    PROVE  a % n = IF a < 0 THEN a + n ELSE IF a < n THEN a ELSE a - n
<1>1. CASE a < 0
  BY <1>1
<1>2. CASE 0 <= a /\ a < n
  BY <1>2
<1>3. CASE n <= a
  BY <1>3
<1> QED
  BY <1>1, <1>2, <1>3

LEMMA SinceIs ==
    ASSUME NEW t \in Millis, NEW u \in Millis
    PROVE  /\ Since(t, u) \in Millis
           /\ Since(t, u) = IF t <= u THEN u - t ELSE u - t + ClockMod
<1>1. /\ t \in Int /\ u \in Int /\ 0 <= t /\ t < ClockMod /\ 0 <= u /\ u < ClockMod
      /\ ClockMod \in Int /\ ClockMod > 0
  BY Constants DEF Millis
<1>2. u - t \in Int /\ -ClockMod < u - t /\ u - t < ClockMod + ClockMod
  BY <1>1
<1>3. Since(t, u) = IF u - t < 0 THEN u - t + ClockMod
                    ELSE IF u - t < ClockMod THEN u - t ELSE u - t - ClockMod
  BY <1>1, <1>2, WrapOnce DEF Since
<1> QED
  BY <1>1, <1>3 DEF Millis

\* Times add up, up to one wrap.
LEMMA SinceAdds ==
    ASSUME NEW t \in Millis, NEW u \in Millis, NEW v \in Millis
    PROVE  LET sum == Since(t, u) + Since(u, v)
           IN  Since(t, v) = IF sum < ClockMod THEN sum ELSE sum - ClockMod
<1>1. ClockMod \in Int /\ ClockMod > 0
  BY Constants
<1>2. /\ t \in Int /\ u \in Int /\ v \in Int
      /\ 0 <= t /\ t < ClockMod /\ 0 <= u /\ u < ClockMod /\ 0 <= v /\ v < ClockMod
  BY <1>1 DEF Millis
<1>3. /\ Since(t, u) = IF t <= u THEN u - t ELSE u - t + ClockMod
      /\ Since(u, v) = IF u <= v THEN v - u ELSE v - u + ClockMod
      /\ Since(t, v) = IF t <= v THEN v - t ELSE v - t + ClockMod
  BY SinceIs
<1>4. CASE t <= u /\ u <= v
  BY <1>1, <1>2, <1>3, <1>4
<1>5. CASE t <= u /\ ~(u <= v)
  BY <1>1, <1>2, <1>3, <1>5
<1>6. CASE ~(t <= u) /\ u <= v
  BY <1>1, <1>2, <1>3, <1>6
<1>7. CASE ~(t <= u) /\ ~(u <= v)
  BY <1>1, <1>2, <1>3, <1>7
<1> QED
  BY <1>4, <1>5, <1>6, <1>7

LEMMA TickClock ==
    ASSUME NEW c \in Millis
    PROVE  (c + 1) % ClockMod \in Millis
           /\ (c + 1) % ClockMod = IF c + 1 < ClockMod THEN c + 1 ELSE 0
<1>1. ClockMod \in Int /\ ClockMod > 1
  BY Constants
<1>2. c + 1 \in Int /\ 0 <= c + 1 /\ c + 1 <= ClockMod
  BY <1>1 DEF Millis
<1> DEFINE a == c + 1
<1>3. a \in Int /\ -ClockMod < a /\ a < ClockMod + ClockMod /\ 0 <= a /\ a <= ClockMod
  BY <1>1, <1>2
<1> HIDE DEF a
<1>4. a % ClockMod = IF a < ClockMod THEN a ELSE a - ClockMod
  BY <1>1, <1>3, WrapOnce
<1>5. a % ClockMod \in Millis /\ a % ClockMod = IF a < ClockMod THEN a ELSE 0
  BY <1>1, <1>3, <1>4 DEF Millis
<1> QED
  BY <1>5 DEF a

\* A tick is one more since whatever lies less than a whole turn back.
LEMMA TickSince ==
    ASSUME NEW t \in Millis, NEW c \in Millis, Since(t, c) + 1 < ClockMod
    PROVE  Since(t, (c + 1) % ClockMod) = Since(t, c) + 1
<1>1. ClockMod \in Int /\ ClockMod > 1
  BY Constants
<1> DEFINE d == (c + 1) % ClockMod
<1>2. d \in Millis /\ d = IF c + 1 < ClockMod THEN c + 1 ELSE 0
  BY TickClock
<1>3. /\ Since(t, c) = IF t <= c THEN c - t ELSE c - t + ClockMod
      /\ Since(t, d) = IF t <= d THEN d - t ELSE d - t + ClockMod
  BY <1>2, SinceIs
<1> HIDE DEF d
<1>4. Since(t, d) = Since(t, c) + 1
  BY <1>1, <1>2, <1>3 DEF Millis
<1> QED
  BY <1>4 DEF d

\* The times of a well-typed state.
LEMMA Times ==
    ASSUME TypeOK
    PROVE  /\ Lag \in Millis /\ SinceTry \in Millis /\ SinceBle \in Millis
           /\ Lag \in Int /\ SinceTry \in Int /\ SinceBle \in Int
           /\ 0 <= Lag /\ 0 <= SinceTry /\ 0 <= SinceBle
           /\ waited \in Int /\ unheard \in Int /\ 0 <= waited /\ 0 <= unheard
<1>1. /\ clock \in Millis /\ web.now \in Millis
      /\ lastWifiTry \in Millis /\ lastBle \in Millis
      /\ waited \in 0 .. Patience /\ unheard \in 0 .. ScanTime
  BY DEF TypeOK
<1>2. Lag \in Millis /\ SinceTry \in Millis /\ SinceBle \in Millis
  BY <1>1, SinceIs DEF Lag, SinceTry, SinceBle
<1> QED
  BY <1>1, <1>2 DEF Millis

LEMMA ZeroSince == ASSUME NEW t \in Millis PROVE Since(t, t) = 0
  BY SinceIs DEF Millis

-----------------------------------------------------------------------------
(* The type invariant *)

LEMMA TypeInit == Init => TypeOK
<1> SUFFICES ASSUME Init PROVE TypeOK
  OBVIOUS
<1>1. web \in [pc : {"top", "link", "beacon"}, now : Millis]
  BY DEF Init
<1>2. lastWifiTry \in Millis /\ lastBle \in Millis /\ backoffMs \in Nat \ {0}
  BY Constants DEF Init, Millis
<1>3. waited \in 0 .. Patience /\ unheard \in 0 .. ScanTime /\ adv \in 0 .. Burst
  BY Constants DEF Init, Patience, ScanTime
<1> QED
  BY <1>1, <1>2, <1>3 DEF Init, TypeOK

\* What a tick of waiting and of advertising does to the counters.
LEMMA PassesType == TypeOK /\ assoc # AssocTime /\ Passes =>
    /\ assoc' \in 0 .. AssocTime \cup {NoAssoc}
    /\ waited' \in 0 .. Patience
    /\ adv' \in 0 .. Burst \cup {Endless}
    /\ unheard' \in 0 .. ScanTime
<1> SUFFICES ASSUME TypeOK, assoc # AssocTime, Passes
             PROVE  /\ assoc' \in 0 .. AssocTime \cup {NoAssoc}
                    /\ waited' \in 0 .. Patience
                    /\ adv' \in 0 .. Burst \cup {Endless}
                    /\ unheard' \in 0 .. ScanTime
  OBVIOUS
<1>1. /\ Patience \in Nat /\ ScanTime \in Nat /\ AssocTime \in Nat /\ Burst \in Nat
  BY Constants DEF Patience, ScanTime
<1>2. assoc' \in 0 .. AssocTime \cup {NoAssoc}
  BY <1>1 DEF TypeOK, Passes, NoAssoc
<1>3. waited' \in 0 .. Patience
  BY <1>1 DEF TypeOK, Passes
<1>4. adv' \in 0 .. Burst \cup {Endless}
  BY <1>1 DEF TypeOK, Passes, Endless
<1>5. unheard' \in 0 .. ScanTime
  BY <1>1 DEF TypeOK, Passes
<1> QED
  BY <1>2, <1>3, <1>4, <1>5

LEMMA BackoffType == TypeOK =>
    /\ NextBackoff \in Nat \ {0}
    /\ NextBackoff <= ReconnectMax
  BY Constants DEF TypeOK, NextBackoff

LEMMA TypeStep == TypeOK /\ [Next]_vars => TypeOK'
<1> SUFFICES ASSUME TypeOK, [Next]_vars PROVE TypeOK'
  OBVIOUS
<1>1. CASE Tick
  <2>1. clock' \in Millis
    BY <1>1, TickClock DEF Tick, TypeOK
  <2> QED
    BY <1>1, <2>1, PassesType DEF Tick, Passes, TypeOK
<1>2. CASE Associates
  BY <1>2, Constants DEF Associates, TypeOK, bleVars, Patience
<1>3. CASE ApChanges
  BY <1>3 DEF ApChanges, TypeOK, bleVars
<1>4. CASE ClientConnects
  BY <1>4, Constants DEF ClientConnects, TypeOK, wifiVars, linkVars
<1>5. CASE ClientLeaves
  BY <1>5 DEF ClientLeaves, TypeOK, wifiVars, linkVars
<1>6. CASE ReadClock
  BY <1>6 DEF ReadClock, TypeOK, wifiVars, linkVars, bleVars
<1>7. CASE Reconnect
  <2>1. web' \in [pc : {"top", "link", "beacon"}, now : Millis]
    BY <1>7 DEF Reconnect, TypeOK
  <2>2. assoc' \in 0 .. AssocTime \cup {NoAssoc} /\ waited' \in 0 .. Patience
    BY <1>7, Constants DEF Reconnect, Patience
  <2> QED
    BY <1>7, <2>1, <2>2, BackoffType DEF Reconnect, TypeOK, bleVars
<1>8. CASE BackOff
  BY <1>8 DEF BackOff, TypeOK, linkVars, bleVars
<1>9. CASE Serve
  BY <1>9, Constants DEF Serve, TypeOK, linkVars, bleVars
<1>10. CASE Beacon
  <2>1. lastBle' \in Millis /\ web' \in [pc : {"top", "link", "beacon"}, now : Millis]
    BY <1>10 DEF Beacon, TypeOK
  <2>2. adv' \in 0 .. Burst \cup {Endless}
    BY <1>10, Constants DEF Beacon, StartBurst, TypeOK
  <2> QED
    BY <1>10, <2>1, <2>2 DEF Beacon, TypeOK, wifiVars, linkVars
<1>11. CASE UNCHANGED vars
  BY <1>11 DEF vars, TypeOK, wifiVars, linkVars, bleVars
<1> QED
  BY <1>1, <1>2, <1>3, <1>4, <1>5, <1>6, <1>7, <1>8, <1>9, <1>10, <1>11
  DEF Next, WebTask

\* The clock, the counters and the state of the loop keep their ranges, the
\* advertising among them, whatever the periods are (WifiSupervisor's TypeOK).
THEOREM WifiTypeOK == Spec => []TypeOK
  BY TypeInit, TypeStep, PTL DEF Spec

-----------------------------------------------------------------------------
(* The waits *)

LEMMA WifiInit == Init => WifiInv
<1> SUFFICES ASSUME Init PROVE WifiInv
  OBVIOUS
<1>1. TypeOK
  BY TypeInit
<1>2. Lag = 0 /\ SinceBle = 0
  BY <1>1, ZeroSince DEF Init, TypeOK, Lag, SinceBle
<1>3. BeaconBound
  BY <1>2, Constants DEF Init, BeaconBound, ScanTime
<1> QED
  BY <1>1, <1>2, <1>3, Constants DEF Init, WifiInv, WaitBound

\* A tick: everything but the anchors' distance grows by one at most.
LEMMA TickKeeps == WifiInv /\ Tick => WifiInv'
<1> SUFFICES ASSUME WifiInv, Tick PROVE WifiInv'
  OBVIOUS
<1>1. TypeOK /\ TypeOK'
  BY TypeStep DEF WifiInv, Next
<1> DEFINE lag == Lag + 1
<1>2. /\ lag \in Int /\ lag <= LagMs /\ Lag' = lag
      /\ SinceTry' = SinceTry /\ SinceBle' = SinceBle
  <2>1. Since(web.now, clock) + 1 < ClockMod
    BY <1>1, Times, Constants DEF Tick, Lag
  <2>2. web.now \in Millis /\ clock \in Millis
    BY <1>1 DEF TypeOK
  <2>3. Lag' = Lag + 1
    BY <2>1, <2>2, TickSince DEF Tick, Passes, Lag
  <2>4. Lag + 1 \in Int /\ Lag + 1 <= LagMs
    BY <1>1, Times, Constants DEF Tick, Lag
  <2> QED
    BY <2>3, <2>4 DEF Tick, Passes, SinceTry, SinceBle
<1> DEFINE w == IF connected \/ waited = Patience THEN waited ELSE waited + 1
           u == IF client \/ adv # 0 THEN 0
                ELSE IF unheard = ScanTime THEN unheard ELSE unheard + 1
<1>3. /\ w \in Int /\ (connected => w = waited) /\ w <= waited + 1 /\ waited' = w
      /\ connected' = connected /\ web' = web /\ client' = client
      /\ backoffMs' = backoffMs
  BY <1>1, Times DEF Tick, Passes
<1>4. /\ u \in Int /\ unheard' = u
      /\ client \/ adv # 0 => u = 0
      /\ ~client /\ adv = 0 => u <= unheard + 1 /\ adv' = 0
  BY <1>1, Times, Constants DEF Tick, Passes
<1> HIDE DEF w, u
<1>5. ~connected => WaitBound'
  <2> SUFFICES ASSUME ~connected PROVE WaitBound'
    OBVIOUS
  <2>1. WaitBound /\ waited \in Int /\ Lag \in Int /\ SinceTry \in Int /\ LagMs \in Int
    BY <1>1, Times, Constants DEF WifiInv
  <2>2. \/ w <= lag
        \/ /\ web.pc # "link"
           /\ SinceTry < ReconnectMax /\ w <= LagMs + SinceTry + lag
        \/ web.pc = "link" /\ w <= LagMs + lag
        \/ /\ web.pc = "link"
           /\ SinceTry < ReconnectMax + LagMs /\ w <= LagMs + SinceTry + lag
    BY <1>3, <2>1 DEF WaitBound
  <2> HIDE DEF lag
  <2> QED
    BY <1>2, <1>3, <2>2 DEF WaitBound
<1>6. BeaconBound'
  <2>1. BeaconBound /\ SinceBle \in Int /\ Lag \in Int /\ unheard \in Int
    BY <1>1, Times DEF WifiInv
  <2>2. (adv = 0 /\ ~client => u <= SinceBle + lag) /\ u < ScanTime
    BY <1>2, <1>4, <2>1, Constants DEF BeaconBound, ScanTime
  <2>3. adv' = 0 /\ ~client => u <= SinceBle + lag
    <3>1. 0 <= SinceBle + lag
      BY <1>1, <2>1, Times
    <3> QED
      BY <3>1, <1>4, <2>2
  <2> HIDE DEF lag
  <2> QED
    BY <1>2, <1>3, <1>4, <2>1, <2>2, <2>3 DEF BeaconBound, ScanTime
<1> HIDE DEF lag
<1> QED
  BY <1>1, <1>2, <1>3, <1>5, <1>6 DEF WifiInv

\* What the environment does to the link and to the client.
LEMMA EnvironmentKeeps ==
    WifiInv /\ (Associates \/ ApChanges \/ ClientConnects \/ ClientLeaves) => WifiInv'
<1> SUFFICES ASSUME WifiInv, Associates \/ ApChanges \/ ClientConnects \/ ClientLeaves
             PROVE  WifiInv'
  OBVIOUS
<1>1. TypeOK /\ TypeOK'
  BY TypeStep DEF WifiInv, Next
<1>2. /\ clock' = clock /\ web' = web /\ lastWifiTry' = lastWifiTry
      /\ lastBle' = lastBle /\ backoffMs' = backoffMs /\ unheard' = unheard
  BY DEF Associates, ApChanges, ClientConnects, ClientLeaves, wifiVars, bleVars
<1>3. Lag' = Lag /\ SinceTry' = SinceTry /\ SinceBle' = SinceBle
  BY <1>2 DEF Lag, SinceTry, SinceBle
<1>4. (connected => waited = 0)' /\ (~connected => WaitBound)'
  <2>1. CASE Associates
    BY <2>1 DEF Associates
  <2>2. CASE ApChanges
    <3>1. waited' = waited /\ ~connected'
      BY <2>2 DEF ApChanges
    <3>2. connected => waited <= Lag
      BY <1>1, Times DEF WifiInv
    <3> QED
      BY <1>2, <1>3, <3>1, <3>2 DEF WifiInv, WaitBound
  <2>3. CASE ClientConnects \/ ClientLeaves
    BY <1>2, <1>3, <2>3
    DEF WifiInv, WaitBound, ClientConnects, ClientLeaves, wifiVars, linkVars
  <2> QED
    BY <2>1, <2>2, <2>3
<1>5. BeaconBound'
  <2>1. (adv' = 0 /\ ~client') => (adv = 0 /\ ~client)
    BY DEF Associates, ApChanges, ClientConnects, ClientLeaves, bleVars, Endless
  <2> QED
    BY <1>2, <1>3, <2>1 DEF WifiInv, BeaconBound, ScanTime
<1> QED
  BY <1>1, <1>2, <1>3, <1>4, <1>5 DEF WifiInv

\* Reading the clock adds the lag to the age of both anchors.  That of the
\* beacon cannot wrap; that of the last attempt is no older than the backoff
\* when an attempt is being waited for.
LEMMA ReadClockKeeps == WifiInv /\ ReadClock => WifiInv'
<1> SUFFICES ASSUME WifiInv, ReadClock PROVE WifiInv'
  OBVIOUS
<1>1. TypeOK /\ TypeOK'
  BY TypeStep DEF WifiInv, Next, WebTask
<1>2. /\ clock' = clock /\ web'.now = clock /\ web'.pc = "link" /\ web.pc = "top"
      /\ UNCHANGED <<ap, assoc, connected, lastWifiTry, backoffMs, mdnsStarted,
                     httpsServer, waited, lastBle, client, adv, unheard>>
  BY DEF ReadClock, wifiVars, linkVars, bleVars
<1>3. /\ clock \in Millis /\ web.now \in Millis
      /\ lastWifiTry \in Millis /\ lastBle \in Millis
  BY <1>1 DEF TypeOK
<1>4. Lag' = 0
  BY <1>2, <1>3, ZeroSince DEF Lag
<1> DEFINE try == SinceTry + Lag
           ble == SinceBle + Lag
<1>5. SinceTry' = IF try < ClockMod THEN try ELSE try - ClockMod
  BY <1>2, <1>3, SinceAdds DEF SinceTry, Lag
<1>6. SinceBle' = IF ble < ClockMod THEN ble ELSE ble - ClockMod
  BY <1>2, <1>3, SinceAdds DEF SinceBle, Lag
<1>7. try \in Int /\ ble \in Int /\ Lag <= LagMs
  BY <1>1, Times DEF WifiInv
<1>8. BeaconBound'
  <2>1. ble < ClockMod /\ ble < SamplePeriod + LagMs
    BY <1>1, <1>2, Times, Constants DEF WifiInv, BeaconBound
  <2>2. adv = 0 /\ ~client => unheard <= ble + 0
    BY <1>1, <1>7, Times DEF WifiInv, BeaconBound
  <2> HIDE DEF ble
  <2> QED
    BY <1>2, <1>4, <1>6, <2>1, <2>2 DEF WifiInv, BeaconBound, ScanTime
<1>9. ~connected => WaitBound'
  <2> SUFFICES ASSUME ~connected PROVE WaitBound'
    OBVIOUS
  <2>1. CASE waited <= Lag
    <3>1. waited <= LagMs + 0
      BY <1>1, <2>1, Times, Constants DEF WifiInv
    <3> QED
      BY <1>2, <1>4, <3>1 DEF WaitBound
  <2>2. CASE SinceTry < ReconnectMax /\ waited <= LagMs + SinceTry + Lag
    <3>1. try < ClockMod /\ try < ReconnectMax + LagMs /\ waited <= LagMs + try + 0
      BY <1>1, <1>7, <2>2, Times, Constants
    <3> HIDE DEF try
    <3> QED
      BY <1>2, <1>4, <1>5, <3>1 DEF WaitBound
  <2> QED
    BY <1>2, <2>1, <2>2 DEF WifiInv, WaitBound
<1> HIDE DEF try, ble
<1> QED
  BY <1>1, <1>2, <1>4, <1>8, <1>9, Constants DEF WifiInv

\* The look at the link.
LEMMA LinkKeeps == WifiInv /\ (Reconnect \/ BackOff \/ Serve) => WifiInv'
<1> SUFFICES ASSUME WifiInv, Reconnect \/ BackOff \/ Serve PROVE WifiInv'
  OBVIOUS
<1>1. TypeOK /\ TypeOK'
  BY TypeStep DEF WifiInv, Next, WebTask
<1>2. /\ clock' = clock /\ web'.now = web.now /\ web'.pc = "beacon" /\ web.pc = "link"
      /\ connected' = connected /\ UNCHANGED bleVars
  BY <1>1 DEF Reconnect, BackOff, Serve, linkVars, bleVars, TypeOK
<1>3. Lag' = Lag /\ SinceBle' = SinceBle
  BY <1>2 DEF Lag, SinceBle, bleVars
<1>4. BeaconBound'
  BY <1>2, <1>3 DEF WifiInv, BeaconBound, bleVars, ScanTime
<1>5. backoffMs' <= ReconnectMax
  BY <1>1, BackoffType, Constants DEF Reconnect, BackOff, Serve, WifiInv
<1>6. (connected => waited = 0)' /\ (~connected => WaitBound)'
  <2>1. CASE Reconnect
    <3>1. waited' = 0 /\ 0 <= Lag
      BY <1>1, <2>1, Times DEF Reconnect
    <3> QED
      BY <1>3, <3>1 DEF WaitBound
  <2>2. CASE BackOff
    <3>1. waited' = waited /\ ~connected /\ SinceTry < backoffMs /\ SinceTry' = SinceTry
      BY <1>2, <2>2 DEF BackOff, SinceTry
    <3>2. SinceTry < ReconnectMax
      BY <1>1, <3>1, Times, Constants DEF WifiInv, TypeOK
    <3>3. waited <= LagMs + SinceTry + Lag
      BY <1>1, <3>1, Times, Constants DEF WifiInv, WaitBound
    <3> QED
      BY <1>2, <1>3, <3>1, <3>2, <3>3 DEF WaitBound
  <2>3. CASE Serve
    BY <1>2, <2>3 DEF Serve, WifiInv
  <2> QED
    BY <2>1, <2>2, <2>3
<1> QED
  BY <1>1, <1>3, <1>4, <1>5, <1>6, <1>2 DEF WifiInv

LEMMA BeaconKeeps == WifiInv /\ Beacon => WifiInv'
<1> SUFFICES ASSUME WifiInv, Beacon PROVE WifiInv'
  OBVIOUS
<1>1. TypeOK /\ TypeOK'
  BY TypeStep DEF WifiInv, Next, WebTask
<1>2. /\ clock' = clock /\ web'.now = web.now /\ web'.pc = "top" /\ web.pc = "beacon"
      /\ client' = client /\ unheard' = unheard /\ UNCHANGED wifiVars
  BY <1>1 DEF Beacon, TypeOK
<1>3. Lag' = Lag /\ SinceTry' = SinceTry
  BY <1>2 DEF Lag, SinceTry, wifiVars
<1>4. /\ (connected => waited = 0)' /\ (~connected => WaitBound)'
      /\ backoffMs' <= ReconnectMax
  BY <1>2, <1>3 DEF WifiInv, WaitBound, wifiVars, linkVars
<1>5. BeaconBound'
  <2>1. CASE BeaconDue
    <3>1. SinceBle' = 0
      BY <1>1, <1>2, <2>1, ZeroSince DEF Beacon, SinceBle, TypeOK
    <3>2. ~client' => adv' # 0
      BY <1>2, <2>1, Constants DEF Beacon, StartBurst
    <3> QED
      BY <1>2, <1>3, <3>1, <3>2, Constants DEF WifiInv, BeaconBound, ScanTime
  <2>2. CASE ~BeaconDue
    <3>1. SinceBle' = SinceBle /\ adv' = adv
      BY <1>2, <2>2 DEF Beacon, SinceBle
    <3>2. SinceBle < SamplePeriod + 0
      BY <1>1, <2>2, Times, Constants DEF BeaconDue, SinceBle
    <3> QED
      BY <1>2, <1>3, <3>1, <3>2 DEF WifiInv, BeaconBound, ScanTime
  <2> QED
    BY <2>1, <2>2
<1> QED
  BY <1>1, <1>3, <1>4, <1>5, <1>2 DEF WifiInv

LEMMA WifiStep == WifiInv /\ [Next]_vars => WifiInv'
<1>1. WifiInv /\ UNCHANGED vars => WifiInv'
  BY DEF vars, wifiVars, linkVars, bleVars, WifiInv, TypeOK, WaitBound, BeaconBound,
         Lag, SinceTry, SinceBle, ScanTime, Patience
<1> QED
  BY <1>1, TickKeeps, EnvironmentKeeps, ReadClockKeeps, LinkKeeps, BeaconKeeps
  DEF Next, WebTask

LEMMA WifiInvariant == Spec => []WifiInv
  BY WifiInit, WifiStep, PTL DEF Spec

\* FR-15: without a link an attempt to connect is made in time, across wraps of
\* the clock and however the access point comes and goes (core0Task,
\* main.cpp:1061-1069).
THEOREM AttemptAlwaysInTime == Spec => []AttemptInTime
<1>1. WifiInv => AttemptInTime
  <2> SUFFICES ASSUME WifiInv PROVE AttemptInTime
    OBVIOUS
  <2>1. /\ TypeOK /\ Lag <= LagMs
        /\ connected => waited = 0
        /\ ~connected => WaitBound
    BY DEF WifiInv
  <2>2. CASE connected
    BY <2>1, <2>2, Constants DEF AttemptInTime, Patience
  <2>3. CASE ~connected
    BY <2>1, <2>3, Times, Constants DEF AttemptInTime, Patience, WaitBound
  <2> QED
    BY <2>2, <2>3
<1> QED
  BY <1>1, WifiInvariant, PTL

\* A scan of a period and two iterations of the loop finds the device or its
\* client (main.cpp:1110-1118, tools/ble_ota.py:52-66).
THEOREM FoundAlways == Spec => []FoundByScan
<1>1. WifiInv => FoundByScan
  BY DEF WifiInv, BeaconBound, FoundByScan
<1> QED
  BY <1>1, WifiInvariant, PTL

=============================================================================
