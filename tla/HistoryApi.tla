----------------------------- MODULE HistoryApi ------------------------------
(***************************************************************************)
(* GET /api/history (main.cpp:561-575): the web task copies the ring under *)
(* the lock into g_histScratch and serialises the copy, record by record,  *)
(* outside it (json_api::serializeHistory), into a buffer of fixed size,   *)
(* while Core 1 goes on recording.                                         *)
(*                                                                         *)
(* Of the text only its length is kept: what each piece adds to it.        *)
(***************************************************************************)
EXTENDS History

CONSTANTS
    Cap,        \* cfg::net::kJsonHistoryBufSize
    HeadLen,    \* {"uptime_s":..,"samples":[  at its longest
    TailLen,    \* ]}
    RecordLen,  \* {"i":,"o":,"f":..}  without the temperatures
    TempLen,    \* a temperature at its longest
    NullLen     \* null

ASSUME ApiAssumption ==
    /\ Cap \in Nat \ {0}
    /\ {HeadLen, TailLen, RecordLen, TempLen, NullLen} \subseteq Nat
    /\ NullLen <= TempLen

VARIABLES
    scratch,  \* g_histScratch: at(0) .. at(count - 1)
    api,      \* handleApiHistory: program counter, document and its length
    asked     \* history: the records there were when the copy was made

apiVars == <<scratch, api, asked>>
aVars   == <<vars, apiVars>>

-----------------------------------------------------------------------------

Asleep == [pc |-> "idle", doc |-> <<>>, len |-> 0]

TextLen(t) == IF t = NoTemp THEN NullLen ELSE TempLen

\* A record of the document, with the comma that parts it from the one before.
SizeOf(r, first) ==
    (IF first THEN 0 ELSE 1) + RecordLen + TextLen(r.inner) + TextLen(r.outer)

\* The length of the document after n records of s.
Upto(s) ==
    LET upto[n \in 0 .. Len(s)] ==
            IF n = 0 THEN HeadLen ELSE upto[n - 1] + SizeOf(s[n], n = 1)
    IN  upto

\* The length of the whole document of s.
DocumentLen(s) == Upto(s)[Len(s)] + TailLen

AInit ==
    /\ Init
    /\ scratch = <<>> /\ api = Asleep /\ asked = <<>>

\* The request: the critical section, and the head of the document.
ApiCopies ==
    /\ api.pc # "loop"
    /\ scratch' = Contents
    /\ asked' = Contents
    /\ api' = [pc |-> IF HeadLen >= Cap THEN "error" ELSE "loop",
               doc |-> <<>>, len |-> HeadLen]
    /\ UNCHANGED vars

\* Mutant of Record: the live ring is serialised, not the copy.
LiveRecord(i) == At(i - 1)

\* The record the loop is at.
Record(i) == scratch[i]

\* One turn of the loop; a record that does not fit ends it with 0.
ApiWritesRecord ==
    /\ api.pc = "loop" /\ Len(api.doc) < Len(scratch)
    /\ LET r    == Record(Len(api.doc) + 1)
           size == SizeOf(r, api.doc = <<>>)
       IN  api' = IF size >= Cap - api.len
                  THEN [api EXCEPT !.pc = "error"]
                  ELSE [pc |-> "loop", doc |-> Append(api.doc, r),
                        len |-> api.len + size]
    /\ UNCHANGED <<vars, scratch, asked>>

\* The end of the document, and the reply: 200 with it, or 500.
ApiEnds ==
    /\ api.pc = "loop" /\ Len(api.doc) = Len(scratch)
    /\ api' = IF TailLen >= Cap - api.len
              THEN [api EXCEPT !.pc = "error"]
              ELSE [api EXCEPT !.pc = "sent", !.len = api.len + TailLen]
    /\ UNCHANGED <<vars, scratch, asked>>

ANext ==
    \/ Next /\ UNCHANGED apiVars
    \/ ApiCopies \/ ApiWritesRecord \/ ApiEnds

ASpec == AInit /\ [][ANext]_aVars

-----------------------------------------------------------------------------
(* Properties *)

\* What the web page draws is one history, not a mixture of two; and the
\* buffer is never overrun.
OneHistory == api.pc = "sent" => api.doc = asked
NoOverrun  == HeadLen < Cap => api.len < Cap

\* main.cpp:563-574, json_api.h:45-47: whatever Core 1 records meanwhile, a
\* reply 200 is the whole history as it was at one moment; a reply 500 means
\* that this history does not fit; and the buffer is never overrun.
ApiTellsAll ==
    /\ OneHistory
    /\ NoOverrun
    /\ api.pc = "error" => DocumentLen(asked) >= Cap
=============================================================================
