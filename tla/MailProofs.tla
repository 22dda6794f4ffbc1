----------------------------- MODULE MailProofs -----------------------------
(***************************************************************************)
(* Theorems about the mail pipeline, for every set of alarm types, queue   *)
(* depth, interval, clock modulus and clock bound.                         *)
(***************************************************************************)
EXTENDS MailHistory, SequenceTheorems, TLAPS

\* Mails are due only while checkEmail hands them to the queue.
DueWhileEnqueueing == web.pc # "enqueue" => web.due = {}

MailInv ==
    /\ TypeOK
    /\ DueWhileEnqueueing
    /\ OneMailPerFlag
    /\ MailShowsItsAlarm

-----------------------------------------------------------------------------

WebRecord == [pc : {"top", "serve", "copy", "check", "enqueue"},
              now : 0 .. MaxClock, snap : Snapshot, due : SUBSET AlarmTypes]

\* The record the web task starts an iteration with is well typed.
LEMMA WebTopType == WebTop \in WebRecord
<1>1. EmptySnapshot \in Snapshot
  BY DEF EmptySnapshot, Snapshot
<1>2. 0 \in 0 .. MaxClock
  BY MailAssumption DEF MailAssumption
<1> QED
  BY <1>1, <1>2 DEF WebTop, WebRecord

\* Sending to the queue adds one job at its end.
LEMMA QueueAppend ==
    ASSUME NEW q \in Seq(MailReq), NEW r \in MailReq
    PROVE  /\ Append(q, r) \in Seq(MailReq)
           /\ Len(Append(q, r)) = Len(q) + 1
           /\ \A i \in 1 .. Len(q) : Append(q, r)[i] = q[i]
           /\ Append(q, r)[Len(q) + 1] = r
BY AppendProperties

\* Receiving takes the first job and moves the others up.
LEMMA QueueTail ==
    ASSUME NEW q \in Seq(MailReq), q # <<>>
    PROVE  /\ Head(q) = q[1]
           /\ Head(q).job \in Jobs
           /\ Tail(q) \in Seq(MailReq)
           /\ Len(q) \in Nat \ {0}
           /\ Len(Tail(q)) = Len(q) - 1
           /\ \A i \in 1 .. Len(q) - 1 : Tail(q)[i] = q[i + 1]
<1>1. Head(q) \in MailReq /\ Tail(q) \in Seq(MailReq)
      /\ Len(Tail(q)) = Len(q) - 1
      /\ \A i \in 1 .. Len(Tail(q)) : Tail(q)[i] = q[i + 1]
  BY HeadTailProperties
<1>2. Len(q) \in Nat \ {0} /\ Head(q) = q[1]
  OBVIOUS
<1>3. Head(q).job \in Jobs
  BY <1>1 DEF MailReq
<1> QED
  BY <1>1, <1>2, <1>3

\* The variables have their types initially ...
LEMMA TypeInit == Init => TypeOK
<1> SUFFICES ASSUME Init PROVE TypeOK
  OBVIOUS
<1> USE MailAssumption DEF MailAssumption, Init
<1>1. web \in WebRecord
  BY WebTopType
<1>2. snapshot \in Snapshot
  BY DEF EmptySnapshot, Snapshot
<1>3. policy \in [AlarmTypes -> PolicyRecord]
  BY DEF PolicyRecord
<1>4. queue \in Seq(MailReq) /\ Len(queue) <= QueueDepth
  OBVIOUS
<1>5. clock \in 0 .. MaxClock
  OBVIOUS
<1>6. /\ connected \in BOOLEAN /\ webEmailEnabled \in BOOLEAN
      /\ core \in [pc : {"idle", "measure"}, enabled : BOOLEAN]
  BY DEF CoreIdle
<1>7. pending \in [AlarmTypes -> BOOLEAN]
  OBVIOUS
<1>8. mail \in Jobs \cup {NoJob}
  OBVIOUS
<1> QED
  BY <1>1, <1>2, <1>3, <1>4, <1>5, <1>6, <1>7, <1>8
     DEF TypeOK, WebRecord, PolicyRecord

\* ... and every step preserves them.
LEMMA TypeStep == TypeOK /\ [Next]_vars => TypeOK'
<1> SUFFICES ASSUME TypeOK, [Next]_vars PROVE TypeOK'
  OBVIOUS
<1> USE MailAssumption DEF MailAssumption, TypeOK, Snapshot, Jobs, NoJob
<1>1. CASE Tick
  BY <1>1 DEF Tick
<1>2. CASE WifiChanges
  BY <1>2 DEF WifiChanges
<1>3. CASE LatchConfig \/ PublishSnapshot
  <2>1. CASE LatchConfig
    BY <2>1 DEF LatchConfig
  <2>2. CASE PublishSnapshot
    <3>1. PICK active \in SUBSET AlarmTypes :
             snapshot' = [active |-> active, enabled |-> core.enabled]
      BY <2>2 DEF PublishSnapshot
    <3>2. snapshot' \in Snapshot
      BY <3>1
    <3>3. core' \in [pc : {"idle", "measure"}, enabled : BOOLEAN]
      BY <2>2 DEF PublishSnapshot, CoreIdle
    <3> QED
      BY <2>2, <3>2, <3>3 DEF PublishSnapshot
  <2> QED
    BY <1>3, <2>1, <2>2
<1>4. CASE WebReadClock
  BY <1>4 DEF WebReadClock
<1>5. CASE WebServeOther
  BY <1>5 DEF WebServeOther
<1>6. CASE WebServeConfig
  BY <1>6 DEF WebServeConfig
<1>7. CASE WebServeStatusMail
  <2>1. [job |-> "Status", active |-> snapshot.active] \in MailReq
    BY DEF MailReq
  <2>2. queue' \in Seq(MailReq) /\ Len(queue') = Len(queue) + 1
    BY <1>7, <2>1, QueueAppend DEF WebServeStatusMail
  <2>3. Len(queue') <= QueueDepth
    BY <1>7, <2>2 DEF WebServeStatusMail
  <2> QED
    BY <1>7, <2>2, <2>3 DEF WebServeStatusMail
<1>8. CASE WebCopySnapshot
  BY <1>8, WebTopType DEF WebCopySnapshot, WebRecord
<1>9. CASE WebCheckOffline
  BY <1>9, WebTopType DEF WebCheckOffline, WebRecord
<1>10. CASE WebCheck
  <2>1. DueTypes \subseteq AlarmTypes
    BY DEF DueTypes
  <2>2. ASSUME NEW t \in AlarmTypes
        PROVE  TrackEdge(t, t \in web.snap.active) \in PolicyRecord
    <3> DEFINE b == t \in web.snap.active
    <3>1. policy[t] \in PolicyRecord
      BY DEF PolicyRecord
    <3>2. b \in BOOLEAN
      OBVIOUS
    <3> HIDE DEF b
    <3>3. [policy[t] EXCEPT !.prevActive = b] \in PolicyRecord
      BY <3>1, <3>2 DEF PolicyRecord
    <3> QED
      BY <3>3 DEF TrackEdge, b
  <2>3. pending' \in [AlarmTypes -> BOOLEAN]
    BY <1>10 DEF WebCheck
  <2> QED
    BY <1>10, <2>1, <2>2, <2>3 DEF WebCheck, PolicyRecord
<1>11. ASSUME NEW t \in AlarmTypes, WebEnqueue(t) PROVE TypeOK'
  <2>1. [job |-> t, active |-> web.snap.active] \in MailReq
    BY DEF MailReq
  <2>2. queue' \in Seq(MailReq) /\ Len(queue') = Len(queue) + 1
    BY <1>11, <2>1, QueueAppend DEF WebEnqueue
  <2>3. Len(queue') <= QueueDepth
    BY <1>11, <2>2 DEF WebEnqueue
  <2> QED
    BY <1>11, <2>2, <2>3 DEF WebEnqueue
<1>12. ASSUME NEW t \in AlarmTypes, WebQueueFull(t) PROVE TypeOK'
  BY <1>12 DEF WebQueueFull
<1>13. CASE WebLoop
  BY <1>13, WebTopType DEF WebLoop, WebRecord
<1>14. CASE MailReceive
  BY <1>14, QueueTail DEF MailReceive
<1>15. CASE MailFinishStatus
  BY <1>15 DEF MailFinishStatus
<1>16. ASSUME NEW t \in AlarmTypes, MailDelivered(t) PROVE TypeOK'
  <2>1. Millis(clock) \in 0 .. ClockMod - 1
    BY DEF Millis
  <2> QED
    BY <1>16, <2>1 DEF PolicyRecord, MailDelivered, MarkSent
<1>17. ASSUME NEW t \in AlarmTypes, MailFailed(t) PROVE TypeOK'
  BY <1>17 DEF MailFailed
<1>18. CASE UNCHANGED vars
  BY <1>18 DEF vars
<1> QED
  BY <1>1, <1>2, <1>3, <1>4, <1>5, <1>6, <1>7, <1>8, <1>9, <1>10, <1>11,
     <1>12, <1>13, <1>14, <1>15, <1>16, <1>17, <1>18
     DEF Next, WebTask, MailTask

\* The variables keep their types and the queue its capacity: a job is sent
\* to the queue only when there is room (main.cpp:654, 987, 995).
THEOREM TypeCorrect == Spec => []TypeOK
BY TypeInit, TypeStep, PTL DEF Spec

-----------------------------------------------------------------------------

LEMMA InvInit == Init => MailInv
<1> SUFFICES ASSUME Init PROVE MailInv
  OBVIOUS
<1>1. TypeOK
  BY TypeInit
<1>2. queue = <<>> /\ web.due = {} /\ mail = "None"
  BY DEF Init, WebTop, NoJob
<1>3. \A t \in AlarmTypes : pending[t] = FALSE /\ mail # t
  BY <1>2, MailAssumption DEF Init, MailAssumption
<1>4. Len(queue) = 0
  BY <1>2
<1> QED
  BY <1>1, <1>2, <1>3, <1>4
     DEF MailInv, DueWhileEnqueueing, OneMailPerFlag, OneMail, Queued,
         MailShowsItsAlarm

\* A step that leaves the queue, the flags, the mail task and the due mails
\* alone keeps both queue invariants.
LEMMA InvFrame ==
    ASSUME MailInv, TypeOK',
           UNCHANGED <<pending, queue, mail>>,
           web'.due = web.due,
           web.due = {} \/ web'.snap = web.snap,
           web'.pc # "enqueue" => web'.due = {}
    PROVE  MailInv'
<1>1. OneMailPerFlag'
  BY DEF MailInv, OneMailPerFlag, OneMail, Queued
<1>2. MailShowsItsAlarm'
  BY DEF MailInv, MailShowsItsAlarm
<1> QED
  BY <1>1, <1>2 DEF MailInv, DueWhileEnqueueing

\* Queueing a status mail disturbs no alarm mail.
LEMMA InvStatus ==
    ASSUME MailInv, TypeOK', WebServeStatusMail
    PROVE  MailInv'
<1> DEFINE r == [job |-> "Status", active |-> snapshot.active]
<1> USE MailAssumption DEF MailAssumption
<1>1. web.due = {} /\ web'.due = {}
  BY DEF MailInv, DueWhileEnqueueing, WebServeStatusMail, TypeOK
<1>2. /\ r \in MailReq
      /\ Len(queue') = Len(queue) + 1
      /\ \A i \in 1 .. Len(queue) : queue'[i] = queue[i]
      /\ queue'[Len(queue) + 1] = r
  <2>1. r \in MailReq
    BY DEF MailInv, TypeOK, Snapshot, MailReq, Jobs
  <2> QED
    BY <2>1, QueueAppend DEF WebServeStatusMail, MailInv, TypeOK
<1>3. Len(queue) \in Nat
  BY DEF MailInv, TypeOK
<1>4. \A i \in 1 .. Len(queue') :
         queue'[i].job \in AlarmTypes => i \in 1 .. Len(queue)
  BY <1>2, <1>3
<1>5. ASSUME NEW t \in AlarmTypes PROVE OneMail(t)'
  BY <1>1, <1>2, <1>3, <1>4
     DEF MailInv, OneMailPerFlag, OneMail, Queued, WebServeStatusMail
<1>6. MailShowsItsAlarm'
  BY <1>1, <1>2, <1>3, <1>4 DEF MailInv, MailShowsItsAlarm
<1> QED
  BY <1>1, <1>5, <1>6 DEF MailInv, DueWhileEnqueueing, OneMailPerFlag

\* checkEmail's critical section starts a mail only where none is on its way.
LEMMA InvCheck ==
    ASSUME MailInv, TypeOK', WebCheck
    PROVE  MailInv'
<1>1. web.due = {} /\ web'.due = DueTypes /\ web'.snap = web.snap
      /\ web'.pc = "enqueue"
  BY DEF MailInv, DueWhileEnqueueing, WebCheck, TypeOK
<1>2. \A t \in DueTypes : ~pending[t] /\ t \in web.snap.active
  BY DEF DueTypes, ShouldSend
<1>3. ASSUME NEW t \in AlarmTypes PROVE OneMail(t)'
  <2>1. OneMail(t)
    BY DEF MailInv, OneMailPerFlag
  <2>2. pending'[t] <=> (pending[t] \/ t \in DueTypes)
    BY DEF WebCheck
  <2>3. queue' = queue /\ mail' = mail
    BY DEF WebCheck
  <2> QED
    BY <1>1, <1>2, <2>1, <2>2, <2>3 DEF OneMail, Queued
<1>4. MailShowsItsAlarm'
  BY <1>1, <1>2 DEF MailInv, MailShowsItsAlarm, WebCheck
<1> QED
  BY <1>1, <1>3, <1>4 DEF MailInv, DueWhileEnqueueing, OneMailPerFlag

\* The due mail moves from the web task to the end of the queue.
LEMMA InvEnqueue ==
    ASSUME MailInv, TypeOK', NEW u \in AlarmTypes, WebEnqueue(u)
    PROVE  MailInv'
<1> DEFINE r == [job |-> u, active |-> web.snap.active]
<1>1. /\ u \in web.due /\ web'.due = web.due \ {u}
      /\ web'.snap = web.snap /\ web'.pc = "enqueue"
  BY DEF WebEnqueue, NextDue, MailInv, TypeOK
<1>2. /\ Len(queue') = Len(queue) + 1
      /\ \A i \in 1 .. Len(queue) : queue'[i] = queue[i]
      /\ queue'[Len(queue) + 1] = r
  <2>1. r \in MailReq
    BY DEF MailInv, TypeOK, Snapshot, MailReq, Jobs
  <2> QED
    BY <2>1, QueueAppend DEF WebEnqueue, MailInv, TypeOK
<1>3. Len(queue) \in Nat
  BY DEF MailInv, TypeOK
<1>4. ASSUME NEW t \in AlarmTypes PROVE OneMail(t)'
  <2>1. OneMail(t) /\ OneMail(u)
    BY DEF MailInv, OneMailPerFlag
  <2>2. CASE t = u
    BY <1>1, <1>2, <1>3, <2>1, <2>2 DEF OneMail, Queued, WebEnqueue
  <2>3. CASE t # u
    <3>1. \A i \in 1 .. Len(queue') :
             queue'[i].job = t => i \in 1 .. Len(queue)
      BY <1>2, <1>3, <2>3
    <3> QED
      BY <1>1, <1>2, <1>3, <2>1, <2>3, <3>1 DEF OneMail, Queued, WebEnqueue
  <2> QED
    BY <2>2, <2>3
<1>5. MailShowsItsAlarm'
  <2>1. u \in web.snap.active
    BY <1>1 DEF MailInv, MailShowsItsAlarm
  <2> QED
    BY <1>1, <1>2, <1>3, <2>1 DEF MailInv, MailShowsItsAlarm
<1> QED
  BY <1>1, <1>4, <1>5 DEF MailInv, DueWhileEnqueueing, OneMailPerFlag

\* The due mail is dropped and its flag undone.
LEMMA InvQueueFull ==
    ASSUME MailInv, TypeOK', NEW u \in AlarmTypes, WebQueueFull(u)
    PROVE  MailInv'
<1>1. /\ u \in web.due /\ web'.due = web.due \ {u}
      /\ web'.snap = web.snap /\ web'.pc = "enqueue"
  BY DEF WebQueueFull, NextDue, MailInv, TypeOK
<1>2. pending' = [pending EXCEPT ![u] = FALSE] /\ queue' = queue /\ mail' = mail
  BY DEF WebQueueFull
<1>3. ASSUME NEW t \in AlarmTypes PROVE OneMail(t)'
  <2>1. OneMail(t) /\ OneMail(u)
    BY DEF MailInv, OneMailPerFlag
  <2>2. pending'[t] = IF t = u THEN FALSE ELSE pending[t]
    BY <1>2 DEF MailInv, TypeOK
  <2> QED
    BY <1>1, <1>2, <2>1, <2>2 DEF OneMail, Queued
<1>4. MailShowsItsAlarm'
  BY <1>1, <1>2 DEF MailInv, MailShowsItsAlarm
<1> QED
  BY <1>1, <1>3, <1>4 DEF MailInv, DueWhileEnqueueing, OneMailPerFlag

\* The first job of the queue becomes the one in flight.
LEMMA InvReceive ==
    ASSUME MailInv, TypeOK', MailReceive
    PROVE  MailInv'
<1> USE MailAssumption DEF MailAssumption
<1>1. /\ web' = web /\ pending' = pending /\ mail = "None"
      /\ mail' = queue[1].job
      /\ Len(queue) \in Nat \ {0} /\ Len(queue') = Len(queue) - 1
      /\ \A i \in 1 .. Len(queue) - 1 : queue'[i] = queue[i + 1]
  BY QueueTail DEF MailReceive, MailInv, TypeOK, NoJob
<1>2. ASSUME NEW t \in AlarmTypes PROVE OneMail(t)'
  <2>1. OneMail(t) /\ t # "None"
    BY DEF MailInv, OneMailPerFlag
  <2>2. Queued(t) <=> (mail' = t \/ Queued(t)')
    <3>1. \A i \in 1 .. Len(queue) : i = 1 \/ i - 1 \in 1 .. Len(queue')
      BY <1>1
    <3>2. \A i \in 1 .. Len(queue') :
             i + 1 \in 1 .. Len(queue) /\ queue'[i] = queue[i + 1]
      BY <1>1
    <3>3. 1 \in 1 .. Len(queue)
      BY <1>1
    <3>4. ASSUME Queued(t) PROVE mail' = t \/ Queued(t)'
      <4>1. PICK i \in 1 .. Len(queue) : queue[i].job = t
        BY <3>4 DEF Queued
      <4>2. CASE i = 1
        BY <1>1, <4>1, <4>2
      <4>3. CASE i # 1
        <5>1. i - 1 \in 1 .. Len(queue') /\ queue'[i - 1] = queue[i]
          BY <1>1, <3>1, <3>2, <4>1, <4>3
        <5> QED
          BY <4>1, <5>1 DEF Queued
      <4> QED
        BY <4>2, <4>3
    <3> QED
      BY <1>1, <3>2, <3>3, <3>4 DEF Queued
  <2>3. mail' = t => ~Queued(t)'
    <3> SUFFICES ASSUME mail' = t, NEW i \in 1 .. Len(queue'),
                        queue'[i].job = t
                 PROVE  FALSE
      BY DEF Queued
    <3>1. i + 1 \in 1 .. Len(queue) /\ queue[i + 1].job = t
      BY <1>1
    <3>2. 1 \in 1 .. Len(queue) /\ queue[1].job = t
      BY <1>1
    <3> QED
      BY <2>1, <3>1, <3>2 DEF OneMail
  <2>4. \A i, j \in 1 .. Len(queue') :
           queue'[i].job = t /\ queue'[j].job = t => i = j
    BY <1>1, <2>1 DEF OneMail
  <2> QED
    BY <1>1, <2>1, <2>2, <2>3, <2>4 DEF OneMail
<1>3. MailShowsItsAlarm'
  BY <1>1 DEF MailInv, MailShowsItsAlarm
<1> QED
  BY <1>1, <1>2, <1>3 DEF MailInv, DueWhileEnqueueing, OneMailPerFlag

\* The send returns, whatever its outcome: nothing of the type is left.
LEMMA InvFinish ==
    ASSUME MailInv, TypeOK', NEW u \in AlarmTypes, mail = u, mail' = NoJob,
           pending' = [pending EXCEPT ![u] = FALSE],
           UNCHANGED <<queue, web>>
    PROVE  MailInv'
<1> USE MailAssumption DEF MailAssumption, NoJob
<1>1. ASSUME NEW t \in AlarmTypes PROVE OneMail(t)'
  <2>1. OneMail(t) /\ t # "None"
    BY DEF MailInv, OneMailPerFlag
  <2>2. pending'[t] = IF t = u THEN FALSE ELSE pending[t]
    BY DEF MailInv, TypeOK
  <2> QED
    BY <2>1, <2>2 DEF OneMail, Queued
<1>2. MailShowsItsAlarm'
  BY DEF MailInv, MailShowsItsAlarm
<1> QED
  BY <1>1, <1>2 DEF MailInv, DueWhileEnqueueing, OneMailPerFlag

LEMMA InvStep == MailInv /\ [Next]_vars => MailInv'
<1> SUFFICES ASSUME MailInv, [Next]_vars PROVE MailInv'
  OBVIOUS
<1> USE DEF MailInv
<1>0. TypeOK'
  BY TypeStep
<1>1. CASE Tick \/ WifiChanges \/ LatchConfig \/ PublishSnapshot \/ UNCHANGED vars
  BY <1>0, <1>1, InvFrame
     DEF Tick, WifiChanges, LatchConfig, PublishSnapshot, vars,
         DueWhileEnqueueing
<1>2. CASE WebReadClock \/ WebServeOther \/ WebServeConfig
  BY <1>0, <1>2, InvFrame
     DEF WebReadClock, WebServeOther, WebServeConfig, DueWhileEnqueueing,
         TypeOK
<1>3. CASE WebServeStatusMail
  BY <1>0, <1>3, InvStatus
<1>4. CASE WebCopySnapshot \/ WebCheckOffline \/ WebLoop
  <2>1. web.due = {}
    BY <1>4 DEF WebCopySnapshot, WebCheckOffline, WebLoop, DueWhileEnqueueing
  <2>2. web' = WebTop \/ web' = [web EXCEPT !.pc = "check", !.snap = snapshot]
    BY <1>4 DEF WebCopySnapshot, WebCheckOffline, WebLoop
  <2>3. web'.due = {} /\ web'.pc # "enqueue"
    <3>1. web \in WebRecord
      BY DEF TypeOK, WebRecord
    <3>2. CASE web' = WebTop
      BY <3>2 DEF WebTop
    <3>3. CASE web' = [web EXCEPT !.pc = "check", !.snap = snapshot]
      BY <2>1, <3>1, <3>3 DEF WebRecord
    <3> QED
      BY <2>2, <3>2, <3>3
  <2> QED
    BY <1>0, <1>4, <2>1, <2>3, InvFrame
       DEF WebCopySnapshot, WebCheckOffline, WebLoop
<1>5. CASE WebCheck
  BY <1>0, <1>5, InvCheck
<1>6. ASSUME NEW t \in AlarmTypes, WebEnqueue(t) PROVE MailInv'
  BY <1>0, <1>6, InvEnqueue
<1>7. ASSUME NEW t \in AlarmTypes, WebQueueFull(t) PROVE MailInv'
  BY <1>0, <1>7, InvQueueFull
<1>8. CASE MailReceive
  BY <1>0, <1>8, InvReceive
<1>9. CASE MailFinishStatus
  <2>1. ASSUME NEW t \in AlarmTypes PROVE OneMail(t)'
    BY <1>9, MailAssumption
       DEF MailFinishStatus, OneMailPerFlag, OneMail, Queued, NoJob,
           MailAssumption
  <2> QED
    BY <1>0, <1>9, <2>1
       DEF MailFinishStatus, OneMailPerFlag, MailShowsItsAlarm,
           DueWhileEnqueueing
<1>10. ASSUME NEW t \in AlarmTypes, MailDelivered(t) PROVE MailInv'
  BY <1>0, <1>10, InvFinish DEF MailDelivered
<1>11. ASSUME NEW t \in AlarmTypes, MailFailed(t) PROVE MailInv'
  BY <1>0, <1>11, InvFinish DEF MailFailed
<1> QED
  BY <1>1, <1>2, <1>3, <1>4, <1>5, <1>6, <1>7, <1>8, <1>9, <1>10, <1>11
     DEF Next, WebTask, MailTask

\* At every moment the pending flag of a type stands for exactly one mail on
\* its way (main.cpp:135-139).
THEOREM OneMailAlways == Spec => []OneMailPerFlag
BY InvInit, InvStep, PTL DEF Spec, MailInv

\* Every alarm mail shows the alarm it announces.
THEOREM ShowsAlarmAlways == Spec => []MailShowsItsAlarm
BY InvInit, InvStep, PTL DEF Spec, MailInv

-----------------------------------------------------------------------------
(* Refinement: the pipeline implements the safety part of the contract of  *)
(* section 7 for the fire alarm and for the sensor fault.                  *)

\* A send that returns finds its pending flag set.
LEMMA FlagWhileSending ==
    ASSUME MailInv, NEW t \in AlarmTypes, mail = t
    PROVE  pending[t]
BY DEF MailInv, OneMailPerFlag, OneMail

\* How one step moves the policy and the flag of a type.
LEMMA StepOfType ==
    ASSUME MailInv, [Next]_vars, NEW t \in AlarmTypes
    PROVE  \/ UNCHANGED <<policy[t], pending[t]>>
           \* WebCheck, without and with a mail
           \/ /\ policy'[t] = TrackEdge(t, t \in web.snap.active)
              /\ pending'[t] = pending[t]
           \/ /\ ~policy[t].prevActive /\ ~pending[t]
              /\ t \in web.snap.active
              /\ policy'[t] = TrackEdge(t, t \in web.snap.active)
              /\ pending'[t] = TRUE
           \* MailDelivered
           \/ /\ pending[t] /\ pending'[t] = FALSE
              /\ \E ms \in Int :
                     policy'[t] = [policy[t] EXCEPT !.lastSuccessMs = ms,
                                                    !.everSucceeded = TRUE]
           \* WebQueueFull, MailFailed
           \/ pending[t] /\ pending'[t] = FALSE /\ policy'[t] = policy[t]
<1> USE DEF MailInv
<1>1. CASE \/ UNCHANGED <<policy, pending>>
  BY <1>1
<1>2. CASE WebCheck
  <2>1. policy'[t] = TrackEdge(t, t \in web.snap.active)
    BY <1>2 DEF WebCheck
  <2>2. CASE t \in DueTypes
    <3>1. pending'[t] = TRUE
      BY <1>2, <2>2 DEF WebCheck
    <3> QED
      BY <2>1, <2>2, <3>1 DEF DueTypes, ShouldSend
  <2>3. CASE t \notin DueTypes
    <3>1. pending'[t] = pending[t]
      BY <1>2, <2>3 DEF WebCheck, TypeOK
    <3> QED
      BY <2>1, <3>1
  <2> QED
    BY <2>2, <2>3
<1>3. ASSUME NEW u \in AlarmTypes, pending[u],
             pending' = [pending EXCEPT ![u] = FALSE], policy' = policy
      PROVE  \/ UNCHANGED <<policy[t], pending[t]>>
             \/ pending[t] /\ pending'[t] = FALSE /\ policy'[t] = policy[t]
  BY <1>3 DEF TypeOK
<1>4. ASSUME NEW u \in AlarmTypes, MailDelivered(u)
      PROVE  \/ UNCHANGED <<policy[t], pending[t]>>
             \/ /\ pending[t] /\ pending'[t] = FALSE
                /\ \E ms \in Int :
                       policy'[t] = [policy[t] EXCEPT !.lastSuccessMs = ms,
                                                      !.everSucceeded = TRUE]
  <2>1. pending[u] /\ Millis(clock) \in Int
    BY <1>4, FlagWhileSending, MailAssumption
       DEF MailDelivered, MailAssumption, TypeOK, Millis
  <2>2. CASE t = u
    BY <1>4, <2>1, <2>2 DEF MailDelivered, MarkSent, TypeOK
  <2>3. CASE t # u
    BY <1>4, <2>3 DEF MailDelivered, MarkSent, TypeOK
  <2> QED
    BY <2>2, <2>3
<1>5. ASSUME NEW u \in AlarmTypes, WebQueueFull(u) PROVE pending[u]
  BY <1>5 DEF WebQueueFull, NextDue, OneMailPerFlag, OneMail
<1>6. ASSUME NEW u \in AlarmTypes, MailFailed(u) PROVE pending[u]
  BY <1>6, FlagWhileSending DEF MailFailed
<1>7. \/ UNCHANGED <<policy, pending>>
      \/ WebCheck
      \/ \E u \in AlarmTypes :
             MailDelivered(u) \/ MailFailed(u) \/ WebQueueFull(u)
  BY DEF Next, WebTask, MailTask, Tick, WifiChanges, LatchConfig, PublishSnapshot,
         WebReadClock, WebServeOther, WebServeConfig, WebServeStatusMail,
         WebCopySnapshot, WebCheckOffline, WebEnqueue, WebLoop, MailReceive,
         MailFinishStatus, vars
<1>8. ASSUME NEW u \in AlarmTypes, WebQueueFull(u) \/ MailFailed(u)
      PROVE  \/ UNCHANGED <<policy[t], pending[t]>>
             \/ pending[t] /\ pending'[t] = FALSE /\ policy'[t] = policy[t]
  BY <1>3, <1>5, <1>6, <1>8 DEF WebQueueFull, MailFailed
<1> QED
  BY <1>1, <1>2, <1>4, <1>7, <1>8

\* The fire mails implement the contract of section 7: a mail only on a new
\* edge, never two outstanding, resolved mails only.
THEOREM FireImplements ==
    ASSUME "Fire" \in AlarmTypes PROVE Spec => FireMail!Safety
<1>1. Init => FireMail!Init
  BY DEF Init, FireMail!Init
<1>2. MailInv /\ [Next]_vars => [FireMail!Next]_(FireMail!contractVars)
  <2> SUFFICES ASSUME MailInv, [Next]_vars
               PROVE  FireMail!Next \/ UNCHANGED FireMail!contractVars
    OBVIOUS
  <2> DEFINE p == policy["Fire"]
  <2>1. p \in PolicyRecord /\ pending["Fire"] \in BOOLEAN
    BY DEF MailInv, TypeOK, PolicyRecord
  <2> QED
    BY <2>1, StepOfType
       DEF TrackEdge, PolicyRecord, FireMail!Next, FireMail!contractVars,
           FireMail!Rearm, FireMail!Consume, FireMail!Raise,
           FireMail!Deliver, FireMail!GiveUp
<1> QED
  BY <1>1, <1>2, InvInit, InvStep, PTL DEF Spec, FireMail!Safety

\* The sensor-fault mails implement it too.
THEOREM SensorImplements ==
    ASSUME "Sensor" \in AlarmTypes PROVE Spec => SensorMail!Safety
<1>1. Init => SensorMail!Init
  BY DEF Init, SensorMail!Init
<1>2. MailInv /\ [Next]_vars => [SensorMail!Next]_(SensorMail!contractVars)
  <2> SUFFICES ASSUME MailInv, [Next]_vars
               PROVE  SensorMail!Next \/ UNCHANGED SensorMail!contractVars
    OBVIOUS
  <2> DEFINE p == policy["Sensor"]
  <2>1. p \in PolicyRecord /\ pending["Sensor"] \in BOOLEAN
    BY DEF MailInv, TypeOK, PolicyRecord
  <2> QED
    BY <2>1, StepOfType
       DEF TrackEdge, PolicyRecord, SensorMail!Next, SensorMail!contractVars,
           SensorMail!Rearm, SensorMail!Consume, SensorMail!Raise,
           SensorMail!Deliver, SensorMail!GiveUp
<1> QED
  BY <1>1, <1>2, InvInit, InvStep, PTL DEF Spec, SensorMail!Safety

-----------------------------------------------------------------------------
(* The rate limit in real time, with the history of MailHistory *)

\* What the policy remembers of the last mail of t is when it was accepted, as
\* far as millis() shows it.
Anchored(t) ==
    IF sentAt[t] = Never THEN ~policy[t].everSucceeded
    ELSE /\ policy[t].everSucceeded
         /\ policy[t].lastSuccessMs = Millis(sentAt[t])
         /\ sentAt[t] \in 0 .. clock

RateInv ==
    /\ TypeOK
    /\ web.now <= clock
    /\ \A t \in AlarmTypes : Anchored(t)

\* On the clock face two times are never further apart than in truth.
LEMMA FaceIsShorter ==
    ASSUME NEW a \in Nat, NEW b \in Nat, b <= a
    PROVE  (Millis(a) - Millis(b)) % ClockMod <= a - b
<1> DEFINE n == ClockMod
           p == a \div n
           q == b \div n
           x == a % n
           y == b % n
<1>1. n \in Nat \ {0}
  BY MailAssumption DEF MailAssumption
<1>2. /\ p \in Int /\ q \in Int /\ x \in 0 .. n - 1 /\ y \in 0 .. n - 1
      /\ a = n * p + x /\ b = n * q + y
  BY <1>1
<1> HIDE DEF p, q, x, y, n
<1>3. a - b = n * (p - q) + (x - y)
  <2>1. n * (p - q) = n * p - n * q /\ n * p \in Int /\ n * q \in Int
    BY <1>1, <1>2
  <2> QED
    BY <2>1, <1>2
<1> DEFINE k == p - q
<1>4. k \in Int /\ n * k \in Int /\ a - b = n * k + (x - y)
  BY <1>1, <1>2, <1>3
<1> HIDE DEF k
<1>5. CASE x >= y
  <2>1. (x - y) % n = x - y
    BY <1>1, <1>2, <1>5
  <2>2. k >= 0
    <3> SUFFICES ASSUME k <= -1 PROVE FALSE
      BY <1>4
    <3>1. n * k <= -n
      BY <1>1, <1>4
    <3> QED
      BY <1>1, <1>2, <1>4, <3>1
  <2>3. n * k >= 0
    BY <1>1, <1>4, <2>2
  <2>4. (x - y) % n <= a - b
    BY <1>2, <1>4, <2>1, <2>3
  <2> QED
    BY <2>4 DEF Millis, n, x, y
<1>6. CASE x < y
  <2>1. (x - y) % n = x - y + n
    BY <1>1, <1>2, <1>6
  <2>2. k >= 1
    <3> SUFFICES ASSUME k <= 0 PROVE FALSE
      BY <1>4
    <3>1. n * k <= 0
      BY <1>1, <1>4
    <3> QED
      BY <1>2, <1>4, <1>6, <3>1
  <2>3. n * k >= n
    BY <1>1, <1>4, <2>2
  <2>4. (x - y) % n <= a - b
    BY <1>1, <1>2, <1>4, <2>1, <2>3
  <2> QED
    BY <2>4 DEF Millis, n, x, y
<1> QED
  BY <1>2, <1>5, <1>6

LEMMA RateInit == HInit => RateInv
  BY TypeInit, MailAssumption
     DEF HInit, Init, RateInv, Anchored, WebTop, MailAssumption

\* Only the acceptance of a mail moves the anchor of its type.
LEMMA AnchorMoves ==
    ASSUME TypeOK, [Next]_vars, NEW t \in AlarmTypes, ~MailDelivered(t)
    PROVE  /\ policy'[t].everSucceeded = policy[t].everSucceeded
           /\ policy'[t].lastSuccessMs = policy[t].lastSuccessMs
<1>1. policy \in [AlarmTypes -> PolicyRecord]
  BY DEF TypeOK, PolicyRecord
<1>2. CASE WebCheck
  BY <1>1, <1>2 DEF WebCheck, TrackEdge, PolicyRecord
<1>3. ASSUME NEW u \in AlarmTypes, MailDelivered(u)
      PROVE  policy'[t] = policy[t]
  BY <1>1, <1>3 DEF MailDelivered, MarkSent
<1>4. CASE policy' = policy
  BY <1>4
<1> QED
  BY <1>2, <1>3, <1>4
  DEF Next, vars, Tick, WifiChanges, LatchConfig, PublishSnapshot, WebTask,
      WebReadClock, WebServeOther, WebServeConfig, WebServeStatusMail,
      WebCopySnapshot, WebCheckOffline, WebEnqueue, WebQueueFull, WebLoop,
      MailTask, MailReceive, MailFinishStatus, MailFailed

\* Time goes on, and the web task has read the clock in the past.
LEMMA ClockMoves ==
    ASSUME TypeOK, web.now <= clock, [Next]_vars
    PROVE  clock <= clock' /\ web'.now <= clock'
<1>1. /\ clock \in Nat /\ web.now \in Nat /\ clock <= clock + 1
      /\ web \in WebRecord
  BY MailAssumption DEF TypeOK, MailAssumption, WebRecord
<1>2. CASE Tick
  BY <1>1, <1>2 DEF Tick
<1>3. CASE clock' = clock /\ web'.now \in {web.now, clock, 0}
  BY <1>1, <1>3
<1>4. WebTop.now = 0
  BY DEF WebTop
<1>5. CASE WebReadClock \/ WebServeOther \/ WebServeConfig \/ WebServeStatusMail
  BY <1>1, <1>3, <1>5 DEF WebReadClock, WebServeOther, WebServeConfig,
                         WebServeStatusMail, WebRecord
<1>6. CASE WebCopySnapshot \/ WebCheckOffline \/ WebCheck \/ WebLoop
  BY <1>1, <1>3, <1>4, <1>6 DEF WebCopySnapshot, WebCheckOffline, WebCheck,
                               WebLoop, WebRecord
<1>7. CASE \E t \in AlarmTypes : WebEnqueue(t) \/ WebQueueFull(t)
  BY <1>1, <1>3, <1>7 DEF WebEnqueue, WebQueueFull, WebRecord
<1>8. CASE WifiChanges \/ LatchConfig \/ PublishSnapshot \/ MailTask \/ UNCHANGED vars
  BY <1>3, <1>8 DEF WifiChanges, LatchConfig, PublishSnapshot, MailTask,
                    MailReceive, MailFinishStatus, MailDelivered, MailFailed, vars
<1> QED
  BY <1>2, <1>5, <1>6, <1>7, <1>8 DEF Next, WebTask

LEMMA RateStep == RateInv /\ [HNext]_hvars => RateInv'
<1> SUFFICES ASSUME RateInv, [HNext]_hvars PROVE RateInv'
  OBVIOUS
<1>1. [Next]_vars
  BY DEF HNext, hvars
<1>2. TypeOK /\ TypeOK' /\ clock <= clock' /\ web'.now <= clock'
  BY <1>1, TypeStep, ClockMoves DEF RateInv
<1>3. ASSUME NEW t \in AlarmTypes PROVE Anchored(t)'
  <2>1. /\ clock \in Nat /\ clock' \in Nat /\ Anchored(t)
    BY <1>2 DEF TypeOK, RateInv
  <2>2. CASE HNext /\ MailDelivered(t)
    <3>1. sentAt'[t] = clock /\ clock' = clock
      BY <2>2 DEF HNext, MailDelivered
    <3>2. policy'[t].everSucceeded /\ policy'[t].lastSuccessMs = Millis(clock)
      BY <2>2, <1>2 DEF MailDelivered, MarkSent, TypeOK
    <3>3. clock # Never /\ clock \in 0 .. clock
      BY <2>1 DEF Never
    <3> QED
      BY <3>1, <3>2, <3>3 DEF Anchored
  <2>3. CASE sentAt'[t] = sentAt[t] /\ ~MailDelivered(t)
    <3>1. /\ policy'[t].everSucceeded = policy[t].everSucceeded
          /\ policy'[t].lastSuccessMs = policy[t].lastSuccessMs
      BY <1>1, <1>2, <2>3, AnchorMoves
    <3>2. sentAt[t] \in 0 .. clock => sentAt[t] \in 0 .. clock'
      BY <1>2, <2>1
    <3> QED
      BY <2>1, <2>3, <3>1, <3>2 DEF Anchored
  <2>4. CASE UNCHANGED hvars
    BY <2>1, <2>4 DEF hvars, histVars, vars, Anchored
  <2> QED
    BY <2>2, <2>3, <2>4 DEF HNext
<1> QED
  BY <1>2, <1>3 DEF RateInv

\* email_policy.h:12-13: between two accepted mails of a type lies the minimal
\* interval of real time, however often millis() has wrapped, but for a mail
\* accepted while the very iteration of the web task that raises the next one
\* was under way.
THEOREM RateLimitAlways == HSpec => RateLimitUnlessRaced
<1>1. ASSUME RateInv, [Next]_vars, NEW t \in AlarmTypes,
             Raised(t), TooSoon(t, clock)
      PROVE  sentAt[t] > web.now
  <2>1. WebCheck /\ t \in DueTypes
    <3>1. pending \in [AlarmTypes -> BOOLEAN] /\ ~pending[t] /\ pending'[t]
      BY <1>1 DEF RateInv, TypeOK, Raised
    <3>2. ASSUME NEW u \in AlarmTypes, pending' = [pending EXCEPT ![u] = FALSE]
          PROVE  FALSE
      BY <3>1, <3>2
    <3>3. ~(\E u \in AlarmTypes : MailDelivered(u) \/ MailFailed(u) \/ WebQueueFull(u))
      BY <3>2 DEF MailDelivered, MailFailed, WebQueueFull
    <3>4. pending' # pending
      BY <3>1
    <3>5. WebCheck
      BY <1>1, <3>3, <3>4
      DEF Next, vars, Tick, WifiChanges, LatchConfig, PublishSnapshot, WebTask,
          WebReadClock, WebServeOther, WebServeConfig, WebServeStatusMail,
          WebCopySnapshot, WebCheckOffline, WebEnqueue, WebLoop,
          MailTask, MailReceive, MailFinishStatus
    <3> QED
      BY <3>1, <3>5 DEF WebCheck
  <2>2. /\ sentAt[t] \in 0 .. clock /\ clock \in Nat /\ web.now \in Nat
        /\ web.now <= clock /\ MinInterval \in Nat
        /\ policy[t].everSucceeded /\ policy[t].lastSuccessMs = Millis(sentAt[t])
        /\ clock - sentAt[t] < MinInterval
    BY <1>1, MailAssumption DEF RateInv, Anchored, TooSoon, TypeOK, MailAssumption
  <2>3. (Millis(web.now) - Millis(sentAt[t])) % ClockMod >= MinInterval
    BY <2>1, <2>2 DEF DueTypes, ShouldSend
  <2> SUFFICES ASSUME sentAt[t] <= web.now PROVE FALSE
    BY <2>2
  <2>4. (Millis(web.now) - Millis(sentAt[t])) % ClockMod <= web.now - sentAt[t]
    BY <2>2, FaceIsShorter
  <2>5. (Millis(web.now) - Millis(sentAt[t])) % ClockMod \in Int
    BY <2>2, MailAssumption DEF Millis, MailAssumption
  <2> QED
    BY <2>2, <2>3, <2>4, <2>5
<1>2. RateInv /\ [HNext]_hvars
         => [\A t \in AlarmTypes :
                Raised(t) /\ TooSoon(t, clock) => sentAt[t] > web.now]_hvars
  BY <1>1 DEF HNext
<1> QED
  BY <1>2, RateInit, RateStep, PTL DEF HSpec, RateLimitUnlessRaced
=============================================================================
