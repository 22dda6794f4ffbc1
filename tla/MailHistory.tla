---------------------------- MODULE MailHistory -----------------------------
(***************************************************************************)
(* The mail pipeline with history variables, which record what happened so *)
(* that the promises of the documentation about time and about retries can *)
(* be stated.                                                              *)
(***************************************************************************)
EXTENDS MailPipeline

VARIABLES
    sentAt,   \* real time at which the last mail of a type was accepted
    dropped   \* the last mail of a type was lost to a full queue, and its
              \* alarm has been active ever since

histVars == <<sentAt, dropped>>
hvars    == <<vars, histVars>>

Never == -1

HTypeOK ==
    /\ TypeOK
    /\ sentAt \in [AlarmTypes -> 0 .. MaxClock \cup {Never}]
    /\ dropped \in [AlarmTypes -> BOOLEAN]

HInit ==
    /\ Init
    /\ sentAt = [t \in AlarmTypes |-> Never]
    /\ dropped = [t \in AlarmTypes |-> FALSE]

Raised(t) == ~pending[t] /\ pending'[t]

HNext ==
    /\ Next
    /\ sentAt' = [t \in AlarmTypes |->
                     IF MailDelivered(t) THEN clock ELSE sentAt[t]]
    /\ dropped' = [t \in AlarmTypes |->
                     /\ WebQueueFull(t) \/ (dropped[t] /\ ~Raised(t))
                     /\ t \in snapshot'.active]

HSpec == HInit /\ [][HNext]_hvars

-----------------------------------------------------------------------------
(* Properties *)

\* Real time since the last accepted mail, as of now.
TooSoon(t, now) == sentAt[t] # Never /\ now - sentAt[t] < MinInterval

\* email_policy.h:12-13, an automatic mail only when "at least kMinIntervalMs
\* has elapsed since the last automatic send", as far as the code keeps it: a mail
\* within the interval is raised only if the previous one was accepted after the
\* web task read the clock for the iteration that raises (main.cpp:1059 against
\* main.cpp:1024), however often the clock has wrapped.
RateLimitUnlessRaced ==
    [][\A t \in AlarmTypes :
          Raised(t) /\ TooSoon(t, clock) => sentAt[t] > web.now]_hvars

\* main.cpp:989 and 997, "queue full - retry next cycle": a mail lost to a
\* full queue is raised again by the next check that still finds its alarm
\* active and mail enabled.
RetriesAfterQueueFull ==
    [][\A t \in AlarmTypes :
          WebCheck /\ dropped[t] /\ t \in web.snap.active /\ web.snap.enabled
              => pending'[t]]_hvars
=============================================================================
