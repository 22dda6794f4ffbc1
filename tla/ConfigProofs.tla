---------------------------- MODULE ConfigProofs ----------------------------
(***************************************************************************)
(* Theorems about the persistence of the configuration and about the web   *)
(* page on it, for all sets of values and whatever may fail.               *)
(***************************************************************************)
EXTENDS WebPage, TLAPS

\* A save in progress writes what is in use, asks for nothing that is promised
\* otherwise, and as long as it has no failure to report it has written the
\* keys it has passed.
SaveInProgress ==
    web.pc = "save" =>
        /\ running
        /\ webConfig = web.next
        /\ \A k \in Keys : kept[k] # Unset => web.next[k] = kept[k]
        /\ web.ok => \A i \in 1 .. 3 :
                        i < web.at => nvs[Order[i]] = web.next[Order[i]]

AllKept == \A k \in Keys : kept[k] # Unset

\* A configuration promised as a whole is one that validates.
KeptIsValid == AllKept => kept \in ConfigModel /\ Validate(kept)

ConfigInv ==
    /\ TypeOK
    /\ ValidInUse
    /\ KeptIsStored
    /\ BacklightFollows
    /\ SaveInProgress
    /\ KeptIsValid

-----------------------------------------------------------------------------

\* What a boot loads is a valid configuration ...
LEMMA LoadedIsValid ==
    ASSUME TypeOK, NEW opened \in BOOLEAN
    PROVE  Loaded(opened) \in ConfigModel /\ Validate(Loaded(opened))
<1>1. Defaults \in ConfigModel /\ Validate(Defaults)
  BY ConfigAssumption DEF ConfigAssumption
<1>2. Stored \in ConfigModel
  BY <1>1 DEF TypeOK, NvsModel, ConfigModel, Stored, Get
<1> QED
  BY <1>1, <1>2 DEF Loaded

\* ... and, when all keys are promised, just what is promised.
LEMMA StoredIsKept ==
    ASSUME TypeOK, KeptIsStored, \A k \in Keys : kept[k] # Unset
    PROVE  Stored = kept
BY DEF TypeOK, NvsModel, KeptIsStored, Keys, Stored, Get

LEMMA UnchangedType ==
    ASSUME TypeOK, NEW next \in ConfigModel
    PROVE  /\ Unchanged(next) \in NvsModel
           /\ \A k \in Keys : Unchanged(next)[k] \in {Unset, kept[k]}
           /\ \A k \in Keys : Unchanged(next)[k] # Unset =>
                 next[k] = kept[k] /\ Unchanged(next)[k] = kept[k]
BY DEF TypeOK, NvsModel, ConfigModel, Unchanged, Keys

WebRecord == [pc : {"idle", "save"}, next : ConfigModel, at : 1 .. 4,
              ok : BOOLEAN]

\* An idle web task is well typed and saves nothing.
LEMMA IdleType == WebIdle \in WebRecord /\ WebIdle.pc = "idle"
BY ConfigAssumption DEF ConfigAssumption, WebIdle, WebRecord

-----------------------------------------------------------------------------

LEMMA ConfigInit == Init => ConfigInv
<1> SUFFICES ASSUME Init PROVE ConfigInv
  OBVIOUS
<1>1. Defaults \in ConfigModel /\ Validate(Defaults)
  BY ConfigAssumption DEF ConfigAssumption
<1>2. Defaults.contrast \in Contrasts
  BY <1>1 DEF ConfigModel
<1>3. NoKeys \in NvsModel /\ \A k \in Keys : NoKeys[k] = Unset
  BY DEF NoKeys, NvsModel, Keys
<1>4. TypeOK
  BY <1>1, <1>2, <1>3, IdleType DEF Init, TypeOK, WebRecord
<1> QED
  BY <1>1, <1>3, <1>4
     DEF Init, ConfigInv, ValidInUse, KeptIsStored, BacklightFollows,
         SaveInProgress, KeptIsValid, AllKept, Keys, WebIdle

LEMMA BootStep ==
    ASSUME ConfigInv, Boot
    PROVE  ConfigInv'
<1>1. PICK opened \in BOOLEAN :
         /\ storeOpen' = opened
         /\ config' = Loaded(opened) /\ webConfig' = Loaded(opened)
         /\ backlight' = Loaded(opened).contrast
  BY ConfigAssumption DEF ConfigAssumption, Boot, Opens
<1>2. Loaded(opened) \in ConfigModel /\ Validate(Loaded(opened))
  BY LoadedIsValid DEF ConfigInv
<1>3. Loaded(opened).contrast \in Contrasts
  BY <1>2 DEF ConfigModel
<1>4. TypeOK'
  BY <1>1, <1>2, <1>3, IdleType DEF ConfigInv, TypeOK, Boot, WebRecord
<1>5. web'.pc = "idle"
  BY IdleType DEF Boot
<1> QED
  BY <1>1, <1>2, <1>4, <1>5
     DEF Boot, ConfigInv, ValidInUse, KeptIsStored, BacklightFollows,
         SaveInProgress, KeptIsValid, AllKept

LEMMA PostStep ==
    ASSUME ConfigInv, Post
    PROVE  ConfigInv'
<1>1. PICK next \in ConfigModel :
         /\ Validate(next)
         /\ webConfig' = next
         /\ web' = [pc |-> "save", next |-> next, at |-> 1, ok |-> TRUE]
         /\ kept' = Unchanged(next)
  BY DEF Post
<1>2. /\ kept' \in NvsModel
      /\ \A k \in Keys : kept'[k] # Unset =>
            next[k] = kept[k] /\ kept'[k] = kept[k]
  BY <1>1, UnchangedType DEF ConfigInv
<1>3. TypeOK'
  BY <1>1, <1>2 DEF ConfigInv, TypeOK, Post
<1>4. KeptIsStored'
  BY <1>2 DEF ConfigInv, KeptIsStored, Post
<1>5. SaveInProgress'
  BY <1>1, <1>2 DEF SaveInProgress, Post
<1>6. KeptIsValid'
  <2> SUFFICES ASSUME AllKept' PROVE kept' \in ConfigModel /\ Validate(kept')
    BY DEF KeptIsValid
  <2>1. \A k \in Keys : kept'[k] = kept[k] /\ kept[k] # Unset
    BY <1>2 DEF AllKept
  <2>2. kept' = kept
    BY <1>2, <2>1 DEF ConfigInv, TypeOK, NvsModel, Keys
  <2> QED
    BY <2>1, <2>2 DEF ConfigInv, KeptIsValid, AllKept
<1> QED
  BY <1>1, <1>3, <1>4, <1>5, <1>6
     DEF Post, ConfigInv, ValidInUse, BacklightFollows

LEMMA PutStep ==
    ASSUME ConfigInv, Put
    PROVE  ConfigInv'
<1>1. /\ web.at \in 1 .. 3 /\ web.pc = "save"
      /\ nvs' = [nvs EXCEPT ![Order[web.at]] = web.next[Order[web.at]]]
      /\ nvs \in NvsModel /\ web.next \in ConfigModel
  BY DEF Put, ConfigInv, TypeOK
\* The put of a key changes that key alone.
<1>2. /\ nvs' \in NvsModel
      /\ nvs'[Order[web.at]] = web.next[Order[web.at]]
      /\ \A k \in Keys : nvs'[k] = web.next[k] \/ nvs'[k] = nvs[k]
      /\ \A j \in 1 .. 3 : j # web.at => nvs'[Order[j]] = nvs[Order[j]]
  <2>1. CASE web.at = 1
    BY <1>1, <2>1 DEF NvsModel, ConfigModel, Order, Keys
  <2>2. CASE web.at = 2
    BY <1>1, <2>2 DEF NvsModel, ConfigModel, Order, Keys
  <2>3. CASE web.at = 3
    BY <1>1, <2>3 DEF NvsModel, ConfigModel, Order, Keys
  <2> QED
    BY <1>1, <2>1, <2>2, <2>3
<1>3. /\ web'.pc = "save" /\ web'.next = web.next /\ web'.at = web.at + 1
      /\ web'.ok = web.ok
      /\ web' \in WebRecord
  <2> DEFINE a == web.at + 1
  <2>1. web \in WebRecord /\ a \in 1 .. 4
    BY <1>1 DEF ConfigInv, TypeOK, WebRecord
  <2>2. web' = [web EXCEPT !.at = a]
    BY DEF Put
  <2> HIDE DEF a
  <2>3. web'.pc = "save" /\ web'.next = web.next /\ web'.at = a
        /\ web'.ok = web.ok /\ web' \in WebRecord
    BY <1>1, <2>1, <2>2 DEF WebRecord
  <2> QED
    BY <2>3 DEF a
<1>4. TypeOK'
  BY <1>2, <1>3 DEF ConfigInv, TypeOK, Put, ramVars, WebRecord
<1>5. KeptIsStored'
  BY <1>1, <1>2 DEF ConfigInv, KeptIsStored, SaveInProgress, Put
<1>6. SaveInProgress'
  <2>1. ASSUME web.ok, NEW j \in 1 .. 3, j < web.at + 1
        PROVE  nvs'[Order[j]] = web.next[Order[j]]
    <3>1. CASE j = web.at
      BY <1>2, <3>1
    <3>2. CASE j # web.at
      <4>1. j < web.at
        BY <1>1, <2>1, <3>2
      <4>2. nvs[Order[j]] = web.next[Order[j]]
        BY <1>1, <2>1, <4>1 DEF ConfigInv, SaveInProgress
      <4> QED
        BY <1>2, <3>2, <4>2
    <3> QED
      BY <3>1, <3>2
  <2> QED
    BY <1>1, <1>3, <2>1 DEF ConfigInv, SaveInProgress, Put, ramVars
<1> QED
  BY <1>3, <1>4, <1>5, <1>6
     DEF ConfigInv, ValidInUse, BacklightFollows, KeptIsValid, AllKept, Put,
         ramVars

LEMMA PutFailsStep ==
    ASSUME ConfigInv, PutFails
    PROVE  ConfigInv'
<1>1. /\ web.pc = "save"
      /\ web'.pc = "save" /\ web'.next = web.next /\ web'.ok = FALSE
      /\ web' \in WebRecord
  <2> DEFINE a == web.at + 1
  <2>1. web \in WebRecord /\ a \in 1 .. 4 /\ web.pc = "save"
    BY DEF PutFails, ConfigInv, TypeOK, WebRecord
  <2>2. web' = [web EXCEPT !.at = a, !.ok = FALSE]
    BY DEF PutFails
  <2> HIDE DEF a
  <2> QED
    BY <2>1, <2>2 DEF WebRecord
<1>2. TypeOK'
  BY <1>1 DEF ConfigInv, TypeOK, PutFails, ramVars, WebRecord
<1> QED
  BY <1>1, <1>2
     DEF ConfigInv, ValidInUse, KeptIsStored, BacklightFollows,
         SaveInProgress, KeptIsValid, AllKept, PutFails, ramVars

LEMMA ReplyStep ==
    ASSUME ConfigInv, Reply
    PROVE  ConfigInv'
<1>1. /\ web.pc = "save" /\ web.at = 4 /\ webConfig = web.next
      /\ web.next \in ConfigModel /\ web.next.contrast \in Contrasts
      /\ web'.pc = "idle"
  BY IdleType DEF Reply, ConfigInv, TypeOK, SaveInProgress, ConfigModel
<1>2. ConfigModel \subseteq NvsModel
  BY DEF ConfigModel, NvsModel
<1>3. TypeOK'
  BY <1>1, <1>2, IdleType DEF ConfigInv, TypeOK, Reply, WebRecord
<1>4. web.ok => \A k \in Keys : nvs[k] = web.next[k]
  BY <1>1 DEF ConfigInv, SaveInProgress, Order, Keys
<1>5. KeptIsStored'
  BY <1>1, <1>4 DEF ConfigInv, KeptIsStored, Reply
<1>6. KeptIsValid'
  <2>1. Validate(web.next)
    BY <1>1 DEF ConfigInv, ValidInUse
  <2> QED
    BY <1>1, <2>1 DEF ConfigInv, KeptIsValid, AllKept, Reply
<1> QED
  BY <1>1, <1>3, <1>5, <1>6
     DEF ConfigInv, ValidInUse, BacklightFollows, SaveInProgress, Reply

LEMMA ConfigStep == ConfigInv /\ [Next]_vars => ConfigInv'
<1> SUFFICES ASSUME ConfigInv, [Next]_vars PROVE ConfigInv'
  OBVIOUS
<1>1. CASE Stop
  BY <1>1, IdleType
     DEF Stop, WebRecord, ramVars, ConfigInv, TypeOK, ValidInUse, KeptIsStored,
         BacklightFollows, SaveInProgress, KeptIsValid, AllKept
<1>2. CASE Latch
  BY <1>2
     DEF Latch, ConfigInv, TypeOK, ValidInUse, KeptIsStored,
         BacklightFollows, SaveInProgress, KeptIsValid, AllKept
<1>3. CASE UNCHANGED vars
  BY <1>3
     DEF vars, ramVars, ConfigInv, TypeOK, ValidInUse, KeptIsStored,
         BacklightFollows, SaveInProgress, KeptIsValid, AllKept
<1> QED
  BY <1>1, <1>2, <1>3, BootStep, PostStep, PutStep, PutFailsStep, ReplyStep
     DEF Next

\* The variables keep their types, the records of the flash among them.
THEOREM ConfigTypeOK == Spec => []TypeOK
BY ConfigInit, ConfigStep, PTL DEF Spec, ConfigInv

\* Whatever the flash holds, the configuration in use is a valid one
\* (main.cpp:473, 600).
THEOREM ValidAlways == Spec => []ValidInUse
BY ConfigInit, ConfigStep, PTL DEF Spec, ConfigInv

\* What was acknowledged as saved is and stays in the flash (main.cpp:480-484).
THEOREM KeptAlways == Spec => []KeptIsStored
BY ConfigInit, ConfigStep, PTL DEF Spec, ConfigInv

\* The backlight follows the configuration in use (main.cpp:607-612).
THEOREM BacklightAlways == Spec => []BacklightFollows
BY ConfigInit, ConfigStep, PTL DEF Spec, ConfigInv

\* A boot that can open the store restores what was acknowledged as a whole
\* (FR-27).
THEOREM BootRestores == Spec => BootRestoresSaved
<1>1. ASSUME ConfigInv, Boot, storeOpen', AllKept
      PROVE  config' = kept /\ webConfig' = kept
  <2>1. PICK opened \in BOOLEAN :
           /\ storeOpen' = opened
           /\ config' = Loaded(opened) /\ webConfig' = Loaded(opened)
    BY <1>1, ConfigAssumption DEF ConfigAssumption, Boot
  <2>2. Stored = kept /\ Validate(kept)
    BY <1>1, StoredIsKept DEF ConfigInv, KeptIsValid, AllKept
  <2> QED
    BY <1>1, <2>1, <2>2 DEF Loaded
<1>2. ConfigInv /\ [Next]_vars =>
          [Boot /\ storeOpen' /\ (\A k \in Keys : kept[k] # Unset)
              => config' = kept /\ webConfig' = kept]_vars
  BY <1>1 DEF AllKept
<1> QED
  BY <1>2, ConfigInit, ConfigStep, PTL DEF Spec, BootRestoresSaved

-----------------------------------------------------------------------------
(* The page *)

LEMMA PageStepIsStep == [PNext]_pVars => [Next]_vars
<1> SUFFICES ASSUME [PNext]_pVars PROVE [Next]_vars
  OBVIOUS
<1>1. CASE UNCHANGED pVars
  BY <1>1 DEF pVars
<1>2. CASE PNext
  BY <1>2 DEF PNext, Next, Reload, AnswerCurrent, FillForm, Submit, Handle,
              Refuse, ReplyToPage, ReplyToOther, ConnectionLost, PostByOther,
              StopsServing
<1> QED
  BY <1>1, <1>2

\* What the page was told last still holds, and an answer on its way to a page
\* without a form was made from it.
ToldIsTrue ==
    mine # Nothing =>
        /\ running /\ web.pc = "idle"
        /\ webConfig = mine /\ backlight = mine.contrast
        /\ msg = "saved" => nvs = mine

PageInv ==
    /\ ConfigInv
    /\ served => page = "posting"
    /\ answer # Nothing => page = "open"
    /\ answer # Nothing /\ mine # Nothing => answer = mine
    /\ ToldIsTrue

\* Whole is every key: a save without a failure has left the flash equal to
\* what was asked for.
LEMMA SavedWhole ==
    ASSUME ConfigInv, Reply, web.ok
    PROVE  nvs = web.next
<1>1. web.pc = "save" /\ web.at = 4 /\ web.next \in ConfigModel
  BY DEF Reply, ConfigInv, TypeOK
<1>2. \A i \in 1 .. 3 : nvs[Order[i]] = web.next[Order[i]]
  BY <1>1 DEF ConfigInv, SaveInProgress
<1>3. \A k \in Keys : nvs[k] = web.next[k]
  BY <1>2 DEF Order, Keys
<1>4. nvs \in NvsModel /\ web.next \in NvsModel
  BY <1>1 DEF ConfigInv, TypeOK, ConfigModel, NvsModel
<1> QED
  BY <1>3, <1>4 DEF NvsModel, Keys

LEMMA PageInit == PInit => PageInv
  BY ConfigInit DEF PInit, PageInv, ToldIsTrue

LEMMA PageStep == PageInv /\ [PNext]_pVars => PageInv'
<1> SUFFICES ASSUME PageInv, [PNext]_pVars PROVE PageInv'
  OBVIOUS
<1>1. ConfigInv /\ ConfigInv'
  BY ConfigStep, PageStepIsStep DEF PageInv
<1>2. CASE Boot /\ UNCHANGED pageVars
  BY <1>1, <1>2 DEF Boot, pageVars, PageInv, ToldIsTrue
<1>3. CASE (Put \/ PutFails) /\ UNCHANGED pageVars
  BY <1>1, <1>3 DEF Put, PutFails, pageVars, PageInv, ToldIsTrue
<1>4. CASE Latch /\ UNCHANGED pageVars
  BY <1>1, <1>4 DEF Latch, pageVars, PageInv, ToldIsTrue
<1>5. CASE Reload
  BY <1>1, <1>5 DEF Reload, vars, ramVars, PageInv, ToldIsTrue
<1>6. CASE AnswerCurrent
  BY <1>1, <1>6 DEF AnswerCurrent, Echo, vars, ramVars, PageInv, ToldIsTrue
<1>7. CASE FillForm
  BY <1>1, <1>7 DEF FillForm, vars, ramVars, PageInv, ToldIsTrue
<1>8. CASE Submit
  BY <1>1, <1>8 DEF Submit, vars, ramVars, PageInv, ToldIsTrue
<1>9. CASE Handle
  BY <1>1, <1>9 DEF Handle, PageInv, ToldIsTrue
<1>10. CASE Refuse
  BY <1>1, <1>10 DEF Refuse, vars, ramVars, PageInv, ToldIsTrue
<1>11. CASE ReplyToPage
  <2>1. /\ Reply /\ served /\ page' = "loaded" /\ served' = FALSE
        /\ msg' = MessageOf(web.ok) /\ mine' = web.next /\ answer' = answer
    BY <1>11 DEF ReplyToPage
  <2>2. answer' = Nothing
    BY <2>1 DEF PageInv
  <2>3. msg' = "saved" => nvs' = web.next
    BY <1>1, <2>1, SavedWhole DEF MessageOf, Reply
  <2>4. webConfig' = web.next /\ backlight' = web.next.contrast
        /\ web'.pc = "idle" /\ running' = running
    BY <1>1, <2>1 DEF Reply, ConfigInv, SaveInProgress, WebIdle
  <2>5. running
    BY <1>1, <2>1 DEF Reply, ConfigInv, SaveInProgress
  <2> QED
    BY <1>1, <2>1, <2>2, <2>3, <2>4, <2>5 DEF PageInv, ToldIsTrue
<1>12. CASE ReplyToOther
  <2>1. web.pc = "save"
    BY <1>12 DEF ReplyToOther, Reply
  <2> QED
    BY <1>1, <1>12, <2>1 DEF ReplyToOther, pageVars, PageInv, ToldIsTrue
<1>13. CASE ConnectionLost
  BY <1>1, <1>13 DEF ConnectionLost, vars, ramVars, PageInv, ToldIsTrue
<1>14. CASE PostByOther
  BY <1>1, <1>14 DEF PostByOther, PageInv, ToldIsTrue
<1>15. CASE StopsServing
  BY <1>1, <1>15 DEF StopsServing, PageInv, ToldIsTrue
<1>16. CASE UNCHANGED pVars
  BY <1>1, <1>16 DEF pVars, pageVars, vars, ramVars, PageInv, ToldIsTrue
<1> QED
  BY <1>2, <1>3, <1>4, <1>5, <1>6, <1>7, <1>8, <1>9, <1>10, <1>11, <1>12,
     <1>13, <1>14, <1>15, <1>16 DEF PNext

\* main.cpp:607-616: what the page says of a save stays true until another
\* request or a restart, however many puts have failed.
THEOREM MessageAlwaysTrue == PSpec => []MessageIsTrue
<1>1. PageInv => MessageIsTrue
  BY DEF PageInv, ToldIsTrue, MessageIsTrue
<1> QED
  BY <1>1, PageInit, PageStep, PTL DEF PSpec

\* main.cpp:542-549: the form shows what was applied, latched or not.
THEOREM ReloadsShowSaved == PSpec => ReloadShowsSaved
<1>1. PageInv /\ [PNext]_pVars =>
          [FillForm /\ mine # Nothing => answer = mine]_pVars
  BY DEF PageInv, FillForm
<1> QED
  BY <1>1, PageInit, PageStep, PTL DEF PSpec, ReloadShowsSaved
=============================================================================
