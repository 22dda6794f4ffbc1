------------------------------- MODULE WebPage -------------------------------
(***************************************************************************)
(* A web page (web/app.js) on the configuration store: GET /api/current    *)
(* fills the form once (handleApiCurrent, main.cpp:534-560), a submission  *)
(* posts the whole form, and the page reports what came of it.  The web    *)
(* server is one task, so it handles one request at a time; other clients  *)
(* post too (Post of ConfigStore), the device may restart and a connection *)
(* may be lost at any step.                                                *)
(*                                                                         *)
(* A form submitted before it was filled is a Post like any other.         *)
(***************************************************************************)
EXTENDS ConfigStore

Nothing == [fire_thr |-> Unset, fire_hyst |-> Unset, contrast |-> Unset]

VARIABLES
    page,    \* the page: "open" until its form is filled, "posting" while it
             \* waits for the reply to a submission
    answer,  \* GET /api/current on its way to a page that has no form yet
    served,  \* the request in handleApiConfig is the page's
    msg,     \* actionMsg
    mine     \* history: what the page was last told was applied, while no
             \* request and no restart has followed; or Nothing

pageVars == <<page, answer, served, msg, mine>>
pVars    == <<vars, pageVars>>

-----------------------------------------------------------------------------

PTypeOK ==
    /\ TypeOK
    /\ page \in {"open", "loaded", "posting"}
    /\ answer \in ConfigModel \cup {Nothing}
    /\ served \in BOOLEAN /\ (served => page = "posting" /\ web.pc = "save")
    /\ msg \in {"", "saved", "applied", "failed"}
    /\ mine \in ConfigModel \cup {Nothing}

PInit ==
    /\ Init
    /\ page = "open" /\ answer = Nothing /\ served = FALSE
    /\ msg = "" /\ mine = Nothing

\* The page is opened, or loaded again: what was on its way to it is dropped.
Reload ==
    /\ page' = "open" /\ answer' = Nothing /\ served' = FALSE /\ msg' = ""
    /\ UNCHANGED <<vars, mine>>

\* Mutant of Echo: "the snapshot's g_config-derived copy".
EchoLatched == config

\* The configuration handleApiCurrent puts over the snapshot's.
Echo == webConfig

\* handleApiCurrent.  Later polls do not touch the form.
AnswerCurrent ==
    /\ running /\ web.pc = "idle"
    /\ page = "open"
    /\ answer' = Echo
    /\ UNCHANGED <<vars, page, served, msg, mine>>

\* renderCurrent of the first answer: the form is filled.
FillForm ==
    /\ page = "open" /\ answer # Nothing
    /\ page' = "loaded" /\ answer' = Nothing
    /\ UNCHANGED <<vars, served, msg, mine>>

\* The submit handler: the form, edited or not, is on its way.
Submit ==
    /\ page = "loaded"
    /\ page' = "posting"
    /\ UNCHANGED <<vars, answer, served, msg, mine>>

\* handleApiConfig begins with the page's request.
Handle ==
    /\ page = "posting" /\ ~served
    /\ Post
    /\ served' = TRUE /\ mine' = Nothing
    /\ UNCHANGED <<page, answer, msg>>

\* ... or answers it with 400 (a hysteresis above its threshold).
Refuse ==
    /\ running /\ web.pc = "idle"
    /\ page = "posting" /\ ~served
    /\ \E next \in ConfigModel : ~Validate(next)
    /\ page' = "loaded" /\ msg' = "failed"
    /\ UNCHANGED <<vars, answer, served, mine>>

\* Mutant of MessageOf: every save is reported as one.
MessageOfAny(ok) == "saved"

\* The body of the reply, and what the page makes of it.
MessageOf(ok) == IF ok THEN "saved" ELSE "applied"

ReplyToPage ==
    /\ served
    /\ Reply
    /\ page' = "loaded" /\ served' = FALSE
    /\ msg' = MessageOf(web.ok) /\ mine' = web.next
    /\ UNCHANGED answer

ReplyToOther ==
    /\ ~served
    /\ Reply
    /\ UNCHANGED pageVars

\* fetch fails: the page cannot know what became of the request.
ConnectionLost ==
    /\ page = "posting"
    /\ page' = "loaded" /\ served' = FALSE /\ msg' = "failed"
    /\ mine' = Nothing
    /\ UNCHANGED <<vars, answer>>

\* Another client posts.
PostByOther ==
    /\ Post
    /\ mine' = Nothing
    /\ UNCHANGED <<page, answer, served, msg>>

\* The device restarts (POST /api/action/restart) or loses power: its
\* connections end.
StopsServing ==
    /\ Stop
    /\ page' = IF page = "posting" THEN "loaded" ELSE page
    /\ msg' = IF page = "posting" THEN "failed" ELSE msg
    /\ answer' = Nothing /\ served' = FALSE /\ mine' = Nothing

PNext ==
    \/ (Boot \/ Put \/ PutFails \/ Latch) /\ UNCHANGED pageVars
    \/ Reload \/ AnswerCurrent \/ FillForm \/ Submit
    \/ Handle \/ Refuse \/ ReplyToPage \/ ReplyToOther
    \/ ConnectionLost \/ PostByOther \/ StopsServing

PSpec == PInit /\ [][PNext]_pVars

-----------------------------------------------------------------------------
(* Properties *)

\* main.cpp:536-542: settings do not fail to stick.  What the page was told is
\* applied is in the form when the page is loaded again, whether or not Core 1
\* has latched it yet.
ReloadShowsSaved ==
    [][FillForm /\ mine # Nothing => answer = mine]_pVars

\* main.cpp:607-616: as long as nothing has followed, "saved" on the page means
\* that the whole form is in the flash, "applied" that the device runs with it
\* and the display shows it, however many of the puts failed.
MessageIsTrue ==
    mine # Nothing =>
        /\ msg = "saved" => nvs = mine
        /\ webConfig = mine /\ backlight = mine.contrast
=============================================================================
