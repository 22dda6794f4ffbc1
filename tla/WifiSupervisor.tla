--------------------------- MODULE WifiSupervisor ---------------------------
(***************************************************************************)
(* The loop of core0Task (main.cpp:1050-1127) as far as the radio goes:    *)
(* reconnection of WiFi with exponential backoff, the start of the servers *)
(* once the link is up, and the BLE beacon.  The mails of the same loop    *)
(* are MailPipeline's.                                                     *)
(*                                                                         *)
(* WiFi.begin() only starts an association, which needs up to AssocTime;   *)
(* begin() again starts it anew, so a backoff that never grew would cut a  *)
(* slow association off for ever.  The access point comes and goes.        *)
(*                                                                         *)
(* The device can be found over BLE only while it advertises: a short      *)
(* burst each SamplePeriod, none while a GATT client is connected, and     *)
(* without end once one has left (advertiseOnDisconnect, main.cpp:400).    *)
(*                                                                         *)
(* Time is the value of millis(), on a clock face of ClockMod ticks.       *)
(***************************************************************************)
EXTENDS Integers

CONSTANTS
    ReconnectMin,  \* cfg::net::kReconnectMinMs, 1000
    ReconnectMax,  \* cfg::net::kReconnectMaxMs, 30000
    AssocTime,     \* what an association takes at most (external)
    SamplePeriod,  \* cfg::sample::kSamplePeriodMs, 60000
    Burst,         \* kBurstsPerMinute * kBurstSpacingMs, 750
    LagMs,         \* what one iteration of the web task takes at most
    ClockMod       \* the modulus of millis()

ASSUME SupervisorAssumption ==
    /\ {ReconnectMin, ReconnectMax, AssocTime, SamplePeriod, Burst, LagMs}
          \subseteq Nat \ {0}
    /\ ReconnectMin <= ReconnectMax
    /\ ClockMod \in Nat
    /\ ReconnectMax + 2 * LagMs < ClockMod
    /\ SamplePeriod + 2 * LagMs < ClockMod

VARIABLES
    clock,        \* millis()
    ap,           \* the access point is in reach (external)
    assoc,        \* ticks since begin(), or NoAssoc: none in progress (external)
    connected,    \* g_wifi.isConnected() (external)
    web,          \* core0Task: program counter and `now'
    lastWifiTry,
    backoffMs,
    mdnsStarted,  \* g_server.begin() and startMdns() done for this link
    httpsServer,  \* g_httpsServer # nullptr
    waited,       \* ticks without link and without begin(), counted up to Patience
    lastBle,
    client,       \* a GATT client is connected (external)
    adv,          \* what is left of the advertising in ticks, or Endless (external)
    unheard       \* ticks without advertising and client, counted up to ScanTime

linkVars == <<ap, assoc, connected>>
wifiVars == <<linkVars, lastWifiTry, backoffMs, mdnsStarted, httpsServer, waited>>
bleVars  == <<lastBle, client, adv, unheard>>
vars     == <<clock, web, wifiVars, bleVars>>

Millis   == 0 .. ClockMod - 1
NoAssoc  == -1
\* One tick more than the longest wait between two attempts: an iteration in
\* which the link was lost, the backoff, one that missed its end, and one that
\* has read the clock but not looked at the link yet.
Patience == ReconnectMax + 3 * LagMs

Endless  == -1
\* What tools/ble_ota.py scans for at most: a period and two iterations.
ScanTime == SamplePeriod + 2 * LagMs

Since(t, now) == (now - t) % ClockMod

TypeOK ==
    /\ clock \in Millis
    /\ ap \in BOOLEAN /\ connected \in BOOLEAN
    /\ assoc \in 0 .. AssocTime \cup {NoAssoc}
    /\ web \in [pc : {"top", "link", "beacon"}, now : Millis]
    /\ lastWifiTry \in Millis
    /\ backoffMs \in Nat \ {0}
    /\ mdnsStarted \in BOOLEAN /\ httpsServer \in BOOLEAN
    /\ waited \in 0 .. Patience
    /\ lastBle \in Millis
    /\ client \in BOOLEAN
    /\ adv \in 0 .. Burst \cup {Endless}
    /\ unheard \in 0 .. ScanTime

\* setup() has taken some time already.
Init ==
    /\ clock \in Millis
    /\ ap \in BOOLEAN
    /\ assoc = NoAssoc /\ connected = FALSE
    /\ web = [pc |-> "top", now |-> clock]
    /\ lastWifiTry = 0
    /\ backoffMs = ReconnectMin
    /\ mdnsStarted = FALSE /\ httpsServer = FALSE
    /\ waited = 0
    /\ lastBle = clock
    /\ client = FALSE /\ adv = 0 /\ unheard = 0

-----------------------------------------------------------------------------
(* Environment *)

\* A tick of waiting and of advertising, for the counters.
Passes ==
    /\ assoc' = IF assoc = NoAssoc THEN NoAssoc ELSE assoc + 1
    /\ waited' = IF connected \/ waited = Patience THEN waited ELSE waited + 1
    /\ adv' = IF adv \in 1 .. Burst THEN adv - 1 ELSE adv
    /\ unheard' = IF client \/ adv # 0 THEN 0
                  ELSE IF unheard = ScanTime THEN unheard ELSE unheard + 1
    /\ UNCHANGED <<ap, connected, web, lastWifiTry, backoffMs, mdnsStarted,
                   httpsServer, lastBle, client>>

\* Time: an association is over in AssocTime, an iteration in LagMs.
Tick ==
    /\ assoc # AssocTime
    /\ Since(web.now, clock) < LagMs
    /\ clock' = (clock + 1) % ClockMod
    /\ Passes

Associates ==
    /\ assoc # NoAssoc
    /\ connected' = TRUE /\ assoc' = NoAssoc
    /\ waited' = 0
    /\ UNCHANGED <<clock, ap, web, lastWifiTry, backoffMs, mdnsStarted,
                   httpsServer, bleVars>>

ApChanges ==
    /\ ap' = ~ap
    /\ connected' = FALSE /\ assoc' = NoAssoc
    /\ UNCHANGED <<clock, web, lastWifiTry, backoffMs, mdnsStarted,
                   httpsServer, waited, bleVars>>

\* A GATT client stops the advertising; once it has left it goes on without end.
ClientConnects ==
    /\ ~client /\ adv # 0
    /\ client' = TRUE /\ adv' = 0
    /\ UNCHANGED <<clock, web, wifiVars, lastBle, unheard>>

ClientLeaves ==
    /\ client
    /\ client' = FALSE /\ adv' = Endless
    /\ UNCHANGED <<clock, web, wifiVars, lastBle, unheard>>

-----------------------------------------------------------------------------
(* core0Task *)

\* const uint32_t now = millis()
ReadClock ==
    /\ web.pc = "top"
    /\ web' = [pc |-> "link", now |-> clock]
    /\ UNCHANGED <<clock, wifiVars, bleVars>>

\* Mutants of NextBackoff: without growth, without a cap.
NextBackoffConstant == backoffMs
NextBackoffUncapped == backoffMs * 2

NextBackoff ==
    IF backoffMs * 2 > ReconnectMax THEN ReconnectMax ELSE backoffMs * 2

\* No link: try to connect when the backoff has elapsed.
Reconnect ==
    /\ web.pc = "link" /\ ~connected
    /\ Since(lastWifiTry, web.now) >= backoffMs
    /\ lastWifiTry' = web.now
    /\ backoffMs' = NextBackoff
    /\ assoc' = IF ap THEN 0 ELSE NoAssoc
    /\ waited' = 0
    /\ mdnsStarted' = FALSE
    /\ web' = [web EXCEPT !.pc = "beacon"]
    /\ UNCHANGED <<clock, ap, connected, httpsServer, bleVars>>

BackOff ==
    /\ web.pc = "link" /\ ~connected
    /\ Since(lastWifiTry, web.now) < backoffMs
    /\ mdnsStarted' = FALSE
    /\ web' = [web EXCEPT !.pc = "beacon"]
    /\ UNCHANGED <<clock, linkVars, lastWifiTry, backoffMs, httpsServer,
                   waited, bleVars>>

\* A link, new or old.  On a new one the servers are started; the HTTPS server
\* only until it has started once, which may fail.
Serve ==
    /\ web.pc = "link" /\ connected
    /\ backoffMs' = ReconnectMin
    /\ mdnsStarted' = TRUE
    /\ IF mdnsStarted THEN UNCHANGED httpsServer
       ELSE httpsServer' \in {TRUE, httpsServer}
    /\ web' = [web EXCEPT !.pc = "beacon"]
    /\ UNCHANGED <<clock, linkVars, lastWifiTry, waited, bleVars>>

\* BleAdvertiser::burst: advertise for Burst, unless that is going on already.
StartBurst == IF adv = 0 THEN Burst ELSE adv

BeaconDue == Since(lastBle, web.now) >= SamplePeriod

\* Mutant of Beacon: the anchor is set in every iteration.
BeaconAnchorsAlways ==
    /\ web.pc = "beacon"
    /\ lastBle' = web.now
    /\ adv' = IF BeaconDue /\ ~client THEN StartBurst ELSE adv
    /\ web' = [web EXCEPT !.pc = "top"]
    /\ UNCHANGED <<clock, wifiVars, client, unheard>>

\* Once each period, not while a GATT client is connected.
Beacon ==
    /\ web.pc = "beacon"
    /\ lastBle' = IF BeaconDue THEN web.now ELSE lastBle
    /\ adv' = IF BeaconDue /\ ~client THEN StartBurst ELSE adv
    /\ web' = [web EXCEPT !.pc = "top"]
    /\ UNCHANGED <<clock, wifiVars, client, unheard>>

WebTask == ReadClock \/ Reconnect \/ BackOff \/ Serve \/ Beacon

Next ==
    \/ Tick \/ Associates \/ ApChanges \/ ClientConnects \/ ClientLeaves
    \/ WebTask

\* Time passes, the web task runs (it feeds the watchdog in every iteration),
\* and an association left alone for AssocTime succeeds.  One that is cut off
\* earlier need not have.
Fairness ==
    /\ WF_vars(Tick) /\ WF_vars(WebTask)
    /\ WF_vars(Associates /\ assoc = AssocTime)

Spec     == Init /\ [][Next]_vars
FairSpec == Spec /\ Fairness

-----------------------------------------------------------------------------
(* Properties *)

\* SPECIFICATION.md:381 (A5): once the access point stays in reach the web is
\* served again without a restart, for good, although every attempt cuts off
\* the one before and whatever state the outages have left the backoff in.
WebComesBack == <>[]ap => <>[](connected /\ mdnsStarted)

\* FR-15, cap of 30 s: without a link an attempt is made at least every
\* ReconnectMax, across wraps of the clock and however link and access point
\* come and go between two looks at them.
AttemptInTime == waited < Patience

\* tools/ble_ota.py:60-62, "65 s covers one full cycle + margin": whoever scans
\* that long finds the device advertising or in use by another client, across
\* wraps of the clock and whenever clients come and go; the margin must cover
\* two iterations of the web task.
FoundByScan == unheard < ScanTime
=============================================================================
