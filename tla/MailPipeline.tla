---------------------------- MODULE MailPipeline ----------------------------
(***************************************************************************)
(* The alarm-mail pipeline of main.cpp: the web task (core0Task, calling   *)
(* handleClient and checkEmail), the mail task (mailTask, the blocking     *)
(* SMTP send) and the FreeRTOS queue between them, with the decision logic *)
(* of core/email_policy.cpp.  Core 1 is the environment that publishes a   *)
(* new g_snapshot; the WiFi link goes up and down; a send may fail.        *)
(*                                                                         *)
(* One action is what one task does between two points where the other     *)
(* task can act: a critical section under g_mux, a queue call, a read of   *)
(* the clock.  `clock' is real time in ticks; millis() is clock modulo     *)
(* ClockMod (2^32 in the code).                                            *)
(***************************************************************************)
EXTENDS Integers, Sequences

CONSTANTS
    AlarmTypes,   \* email_policy::Type, {"Fire", "Sensor"} in the code
    QueueDepth,   \* cfg::email::kQueueDepth, 4
    MinInterval,  \* cfg::email::kMinIntervalMs, in ticks
    ClockMod,     \* the modulus of millis()
    MaxClock      \* bound: real time stops here

ASSUME MailAssumption ==
    /\ AlarmTypes \subseteq {"Fire", "Sensor"}
    /\ QueueDepth \in Nat \ {0}
    /\ MinInterval \in Nat
    /\ ClockMod \in Nat \ {0}
    /\ MaxClock \in Nat

VARIABLES
    clock,            \* real time, in ticks
    connected,        \* g_wifi.isConnected()
    snapshot,         \* g_snapshot: the active alarms and emailEnabled
    webEmailEnabled,  \* g_webConfig.emailEnabled
    core,             \* Core 1: in a measurement cycle, and emailEnabled in
                      \* its g_config
    policy,           \* g_email, one record per type
    pending,          \* g_mailFirePending, g_mailSensorPending
    queue,            \* s_mailQueue
    web,              \* the web task: program counter and locals
    mail              \* the mail task: the job in flight, or NoJob

vars == <<clock, connected, snapshot, webEmailEnabled, core, policy, pending,
          queue, web, mail>>

-----------------------------------------------------------------------------
(* Data *)

NoJob    == "None"
Jobs     == AlarmTypes \cup {"Status"}
Snapshot == [active : SUBSET AlarmTypes, enabled : BOOLEAN]
\* A queued request carries a copy of the snapshot, of which the mail body
\* shows the alarms.
MailReq  == [job : Jobs, active : SUBSET AlarmTypes]

\* What the policy remembers of each type: the alarm it saw last, and the last
\* mail that was delivered.
PolicyRecord == [prevActive : BOOLEAN, everSucceeded : BOOLEAN,
                 lastSuccessMs : 0 .. ClockMod - 1]

Millis(t) == t % ClockMod

EmptySnapshot == [active |-> {}, enabled |-> FALSE]

\* The web task between two loop iterations: its locals are out of scope.
WebTop == [pc |-> "top", now |-> 0, snap |-> EmptySnapshot, due |-> {}]

\* Core 1 between two measurement cycles.
CoreIdle == [pc |-> "idle", enabled |-> FALSE]

TypeOK ==
    /\ clock \in 0 .. MaxClock
    /\ connected \in BOOLEAN
    /\ snapshot \in Snapshot
    /\ webEmailEnabled \in BOOLEAN
    /\ core \in [pc : {"idle", "measure"}, enabled : BOOLEAN]
    /\ policy \in [AlarmTypes -> PolicyRecord]
    /\ pending \in [AlarmTypes -> BOOLEAN]
    /\ queue \in Seq(MailReq)
    /\ Len(queue) <= QueueDepth
    /\ web \in [pc : {"top", "serve", "copy", "check", "enqueue"},
                now : 0 .. MaxClock, snap : Snapshot, due : SUBSET AlarmTypes]
    /\ mail \in Jobs \cup {NoJob}

-----------------------------------------------------------------------------
(* email_policy::EmailPolicy *)

\* Mutant of ShouldSend: triggers on the level instead of the edge.
ShouldSendOnLevel(t, active, enabled, nowMs) ==
    /\ active /\ enabled
    /\ policy[t].everSucceeded =>
           (nowMs - policy[t].lastSuccessMs) % ClockMod >= MinInterval

\* shouldSend: what it answers ...
ShouldSend(t, active, enabled, nowMs) ==
    /\ active /\ ~policy[t].prevActive
    /\ enabled
    /\ policy[t].everSucceeded =>
           (nowMs - policy[t].lastSuccessMs) % ClockMod >= MinInterval

\* ... and the edge it records whatever it answers.
TrackEdge(t, active) == [policy[t] EXCEPT !.prevActive = active]

\* Mutant of MarkSent: the first success is not remembered.
MarkSentForgetful(t, nowMs) ==
    [policy EXCEPT ![t] = [@ EXCEPT !.lastSuccessMs = nowMs]]

\* markSent
MarkSent(t, nowMs) ==
    [policy EXCEPT ![t] = [@ EXCEPT !.lastSuccessMs = nowMs,
                                    !.everSucceeded = TRUE]]

-----------------------------------------------------------------------------
(* Initial state: after setup() has created the queue and the tasks.  The  *)
(* configuration loaded from flash may enable mail or not.                 *)

Init ==
    /\ clock = 0
    /\ connected = FALSE
    /\ snapshot = EmptySnapshot
    /\ webEmailEnabled \in BOOLEAN
    /\ core = CoreIdle
    /\ policy = [t \in AlarmTypes |-> [prevActive |-> FALSE,
                                       everSucceeded |-> FALSE,
                                       lastSuccessMs |-> 0]]
    /\ pending = [t \in AlarmTypes |-> FALSE]
    /\ queue = <<>>
    /\ web = WebTop
    /\ mail = NoJob

-----------------------------------------------------------------------------
(* Environment *)

Tick ==
    /\ clock < MaxClock
    /\ clock' = clock + 1
    /\ UNCHANGED <<connected, snapshot, webEmailEnabled, core, policy, pending,
                   queue, web, mail>>

WifiChanges ==
    /\ connected' = ~connected
    /\ UNCHANGED <<clock, snapshot, webEmailEnabled, core, policy, pending,
                   queue, web, mail>>

\* measurementCycle latches the configuration ...
LatchConfig ==
    /\ core.pc = "idle"
    /\ core' = [pc |-> "measure", enabled |-> webEmailEnabled]
    /\ UNCHANGED <<clock, connected, snapshot, webEmailEnabled, policy, pending,
                   queue, web, mail>>

\* ... and publishes the alarm state it computes.
PublishSnapshot ==
    /\ core.pc = "measure"
    /\ \E active \in SUBSET AlarmTypes :
           snapshot' = [active |-> active, enabled |-> core.enabled]
    /\ core' = CoreIdle
    /\ UNCHANGED <<clock, connected, webEmailEnabled, policy, pending, queue,
                   web, mail>>

-----------------------------------------------------------------------------
(* The web task: one loop iteration is top, serve, copy, check, enqueue.   *)

\* const uint32_t now = millis(): the iteration's only reading of the clock.
WebReadClock ==
    /\ web.pc = "top"
    /\ web' = [web EXCEPT !.pc = "serve", !.now = clock]
    /\ UNCHANGED <<clock, connected, snapshot, webEmailEnabled, core, policy,
                   pending, queue, mail>>

\* handleClient with no request, one that touches nothing here, or no link.
WebServeOther ==
    /\ web.pc = "serve"
    /\ web' = [web EXCEPT !.pc = "copy"]
    /\ UNCHANGED <<clock, connected, snapshot, webEmailEnabled, core, policy,
                   pending, queue, mail>>

\* POST /api/config: g_webConfig takes a new emailEnabled.
WebServeConfig ==
    /\ web.pc = "serve" /\ connected
    /\ webEmailEnabled' = ~webEmailEnabled
    /\ web' = [web EXCEPT !.pc = "copy"]
    /\ UNCHANGED <<clock, connected, snapshot, core, policy, pending, queue,
                   mail>>

\* POST /api/action/status-email; refused with 409 when mail is disabled and
\* with 503 when the queue is full, both without effect (WebServeOther).
WebServeStatusMail ==
    /\ web.pc = "serve" /\ connected
    /\ webEmailEnabled
    /\ Len(queue) < QueueDepth
    /\ queue' = Append(queue, [job |-> "Status", active |-> snapshot.active])
    /\ web' = [web EXCEPT !.pc = "copy"]
    /\ UNCHANGED <<clock, connected, snapshot, webEmailEnabled, core, policy,
                   pending, mail>>

\* snapshotCopy(); then either the 2 s mail period has not elapsed and the
\* iteration ends, or checkEmail follows.
WebCopySnapshot ==
    /\ web.pc = "copy"
    /\ \/ web' = WebTop
       \/ web' = [web EXCEPT !.pc = "check", !.snap = snapshot]
    /\ UNCHANGED <<clock, connected, snapshot, webEmailEnabled, core, policy,
                   pending, queue, mail>>

\* checkEmail without a link returns before the policy sees the alarms.
WebCheckOffline ==
    /\ web.pc = "check" /\ ~connected
    /\ web' = WebTop
    /\ UNCHANGED <<clock, connected, snapshot, webEmailEnabled, core, policy,
                   pending, queue, mail>>

\* The alarm types checkEmail finds due in its critical section.
DueTypes ==
    {t \in AlarmTypes :
        /\ ShouldSend(t, t \in web.snap.active, web.snap.enabled,
                      Millis(web.now))
        /\ ~pending[t]}

\* checkEmail's critical section: run the policy for every type, mark the due
\* ones pending.
WebCheck ==
    /\ web.pc = "check" /\ connected
    /\ policy' = [t \in AlarmTypes |-> TrackEdge(t, t \in web.snap.active)]
    /\ pending' = [t \in AlarmTypes |-> pending[t] \/ t \in DueTypes]
    /\ web' = [web EXCEPT !.pc = "enqueue", !.due = DueTypes]
    /\ UNCHANGED <<clock, connected, snapshot, webEmailEnabled, core, queue,
                   mail>>

\* Fire is queued before the sensor fault.
NextDue(t) == t \in web.due /\ (t = "Sensor" => "Fire" \notin web.due)

\* Mutant of WebEnqueue: the mail takes a fresh copy of the snapshot.
WebEnqueueFresh(t) ==
    /\ web.pc = "enqueue" /\ NextDue(t)
    /\ Len(queue) < QueueDepth
    /\ queue' = Append(queue, [job |-> t, active |-> snapshot.active])
    /\ web' = [web EXCEPT !.due = @ \ {t}]
    /\ UNCHANGED <<clock, connected, snapshot, webEmailEnabled, core, policy,
                   pending, mail>>

\* xQueueSend(..., 0) succeeds.
WebEnqueue(t) ==
    /\ web.pc = "enqueue" /\ NextDue(t)
    /\ Len(queue) < QueueDepth
    /\ queue' = Append(queue, [job |-> t, active |-> web.snap.active])
    /\ web' = [web EXCEPT !.due = @ \ {t}]
    /\ UNCHANGED <<clock, connected, snapshot, webEmailEnabled, core, policy,
                   pending, mail>>

\* Mutant of WebQueueFull: the pending flag stays set.
WebQueueFullKeepsFlag(t) ==
    /\ web.pc = "enqueue" /\ NextDue(t)
    /\ Len(queue) = QueueDepth
    /\ web' = [web EXCEPT !.due = @ \ {t}]
    /\ UNCHANGED <<clock, connected, snapshot, webEmailEnabled, core, policy,
                   pending, queue, mail>>

\* xQueueSend(..., 0) finds the queue full: only the pending flag is undone.
WebQueueFull(t) ==
    /\ web.pc = "enqueue" /\ NextDue(t)
    /\ Len(queue) = QueueDepth
    /\ pending' = [pending EXCEPT ![t] = FALSE]
    /\ web' = [web EXCEPT !.due = @ \ {t}]
    /\ UNCHANGED <<clock, connected, snapshot, webEmailEnabled, core, policy,
                   queue, mail>>

\* checkEmail returns; wdtFeed, vTaskDelay, next iteration.
WebLoop ==
    /\ web.pc = "enqueue" /\ web.due = {}
    /\ web' = WebTop
    /\ UNCHANGED <<clock, connected, snapshot, webEmailEnabled, core, policy,
                   pending, queue, mail>>

WebTask ==
    \/ WebReadClock
    \/ WebServeOther \/ WebServeConfig \/ WebServeStatusMail
    \/ WebCopySnapshot
    \/ WebCheckOffline \/ WebCheck
    \/ \E t \in AlarmTypes : WebEnqueue(t) \/ WebQueueFull(t)
    \/ WebLoop

-----------------------------------------------------------------------------
(* The mail task *)

\* xQueueReceive(..., portMAX_DELAY), then g_mailer.send starts.
MailReceive ==
    /\ mail = NoJob /\ queue # <<>>
    /\ mail' = Head(queue).job
    /\ queue' = Tail(queue)
    /\ UNCHANGED <<clock, connected, snapshot, webEmailEnabled, core, policy,
                   pending, web>>

\* The send of a status mail returns: it has no policy and no pending flag.
MailFinishStatus ==
    /\ mail = "Status"
    /\ mail' = NoJob
    /\ UNCHANGED <<clock, connected, snapshot, webEmailEnabled, core, policy,
                   pending, queue, web>>

\* The send of an alarm mail succeeds: anchor the rate limiter at millis().
MailDelivered(t) ==
    /\ mail = t
    /\ policy' = MarkSent(t, Millis(clock))
    /\ pending' = [pending EXCEPT ![t] = FALSE]
    /\ mail' = NoJob
    /\ UNCHANGED <<clock, connected, snapshot, webEmailEnabled, core, queue,
                   web>>

\* Mutant of MailFailed: the pending flag is cleared on success only.
MailFailedKeepsFlag(t) ==
    /\ mail = t
    /\ mail' = NoJob
    /\ UNCHANGED <<clock, connected, snapshot, webEmailEnabled, core, policy,
                   pending, queue, web>>

\* The send of an alarm mail fails: the anchor stays.
MailFailed(t) ==
    /\ mail = t
    /\ pending' = [pending EXCEPT ![t] = FALSE]
    /\ mail' = NoJob
    /\ UNCHANGED <<clock, connected, snapshot, webEmailEnabled, core, policy,
                   queue, web>>

MailTask ==
    \/ MailReceive
    \/ MailFinishStatus
    \/ \E t \in AlarmTypes : MailDelivered(t) \/ MailFailed(t)

-----------------------------------------------------------------------------

Next ==
    \/ Tick \/ WifiChanges
    \/ LatchConfig \/ PublishSnapshot
    \/ WebTask
    \/ MailTask

\* Both tasks are scheduled (the web task blocks only in vTaskDelay, the mail
\* task only on an empty queue) and a send returns: the mailer has a timeout.
Fairness == WF_vars(WebTask) /\ WF_vars(MailTask)

Spec     == Init /\ [][Next]_vars
FairSpec == Spec /\ Fairness

-----------------------------------------------------------------------------
(* Properties *)

Queued(t) == \E i \in 1 .. Len(queue) : queue[i].job = t

OneMail(t) ==
    /\ pending[t] <=> (t \in web.due \/ Queued(t) \/ mail = t)
    /\ t \in web.due => ~Queued(t) /\ mail # t
    /\ mail = t => ~Queued(t)
    /\ \A i, j \in 1 .. Len(queue) :
           queue[i].job = t /\ queue[j].job = t => i = j

\* The pending flag of a type (main.cpp:135-139) is set exactly while one mail
\* of that type is on its way, and then there is exactly one: decided but not
\* yet queued, or queued once, or being sent.  A flag cleared early lets a
\* second mail in; a flag left set silences that alarm for ever.
OneMailPerFlag == \A t \in AlarmTypes : OneMail(t)

\* An alarm mail carries the very snapshot that raised it (checkEmail hands s
\* to the queue, not a fresh copy): its body shows the alarm it announces,
\* however the alarms changed while the mail waited.
MailShowsItsAlarm ==
    /\ \A i \in 1 .. Len(queue) :
           queue[i].job \in AlarmTypes => queue[i].job \in queue[i].active
    /\ web.due \subseteq web.snap.active

\* For each type the pipeline implements the contract of section 7: no mail
\* without a new edge, one mail outstanding, every mail resolved.  Fire is
\* queued first and the two share the queue and the mail task, so each has a
\* mapping and a property of its own.
FireMail == INSTANCE AlarmMailContract WITH
                armed       <- ~policy["Fire"].prevActive,
                outstanding <- pending["Fire"],
                delivered   <- policy["Fire"].everSucceeded

SensorMail == INSTANCE AlarmMailContract WITH
                armed       <- ~policy["Sensor"].prevActive,
                outstanding <- pending["Sensor"],
                delivered   <- policy["Sensor"].everSucceeded

FireContract   == FireMail!Spec
SensorContract == SensorMail!Spec
=============================================================================
