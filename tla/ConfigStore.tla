----------------------------- MODULE ConfigStore -----------------------------
(***************************************************************************)
(* The configuration and its persistence: loadConfig at boot, POST         *)
(* /api/config with saveConfig (main.cpp:459-499, 586-617), the latch of   *)
(* Core 1 (709-714), ConfigModel (core/config_model.cpp) and NvsStore      *)
(* (hal/nvs_store_target.cpp).  The power may fail, or the device restart, *)
(* between any two steps; opening the store and each put may fail.         *)
(*                                                                         *)
(* Three of the eight keys are kept: the fire threshold and its            *)
(* hysteresis, which are valid only as a pair, and the contrast, which     *)
(* stands for the six keys valid by themselves.  saveConfig writes all     *)
(* eight, whatever the request named.                                      *)
(***************************************************************************)
EXTENDS Integers

CONSTANTS
    FireThrs, FireHysts, Contrasts,  \* what a request may name, after clamping
    Defaults,                        \* ConfigModel::defaults()
    OpenMayFail,                     \* g_nvs.open() may fail
    PutMayFail                       \* a put may fail with the store open

ConfigModel == [fire_thr : FireThrs, fire_hyst : FireHysts,
                contrast : Contrasts]

\* ConfigModel::validate; the contrast is always valid.
Validate(c) == c.fire_thr > 0 /\ c.fire_hyst >= 0 /\ c.fire_hyst < c.fire_thr

ASSUME ConfigAssumption ==
    /\ FireThrs \subseteq Nat /\ FireHysts \subseteq Nat
    /\ Contrasts \subseteq Nat
    /\ Defaults \in ConfigModel /\ Validate(Defaults)
    /\ OpenMayFail \in BOOLEAN /\ PutMayFail \in BOOLEAN

VARIABLES
    running,    \* the device has power and has booted
    nvs,        \* the keys in flash (external)
    storeOpen,  \* NvsStore::open_
    config,     \* g_config, of Core 1
    webConfig,  \* g_webConfig
    backlight,  \* what g_display.setBrightness was last given
    web,        \* the web task in handleApiConfig
    kept        \* per key, the value a reply "ok" has promised to keep and no
                \* accepted request has asked to change since, or Unset

ramVars == <<storeOpen, config, webConfig, backlight>>
vars == <<running, nvs, ramVars, web, kept>>

-----------------------------------------------------------------------------

Keys  == {"fire_thr", "fire_hyst", "contrast"}
\* The order of the puts in saveConfig.
Order == <<"fire_thr", "fire_hyst", "contrast">>

Unset  == -32768
NvsModel == [fire_thr : FireThrs \cup {Unset}, fire_hyst : FireHysts \cup {Unset},
             contrast : Contrasts \cup {Unset}]
NoKeys   == [fire_thr |-> Unset, fire_hyst |-> Unset, contrast |-> Unset]

WebIdle == [pc |-> "idle", next |-> Defaults, at |-> 1, ok |-> TRUE]

TypeOK ==
    /\ running \in BOOLEAN
    /\ nvs \in NvsModel
    /\ storeOpen \in BOOLEAN
    /\ config \in ConfigModel
    /\ webConfig \in ConfigModel
    /\ backlight \in Contrasts
    /\ web \in [pc : {"idle", "save"}, next : ConfigModel, at : 1 .. 4,
                ok : BOOLEAN]
    /\ kept \in NvsModel

\* A device never configured, without power.
Init ==
    /\ running = FALSE
    /\ nvs = NoKeys
    /\ storeOpen = FALSE
    /\ config = Defaults /\ webConfig = Defaults
    /\ backlight = Defaults.contrast
    /\ web = WebIdle
    /\ kept = NoKeys

-----------------------------------------------------------------------------
(* Boot *)

\* A getter returns the stored value, or the default of an absent key.
Get(k) == IF nvs[k] = Unset THEN Defaults[k] ELSE nvs[k]

\* Mutant of Stored: the hysteresis is not read back.
StoredWithoutHyst == [fire_thr |-> Get("fire_thr"),
                      fire_hyst |-> Defaults.fire_hyst,
                      contrast |-> Get("contrast")]

Stored == [fire_thr |-> Get("fire_thr"), fire_hyst |-> Get("fire_hyst"),
           contrast |-> Get("contrast")]

\* Mutant of Loaded: the stored configuration is not validated.
LoadedUnchecked(opened) == IF opened THEN Stored ELSE Defaults

\* NvsStore::open: whether it answers ok.  The store stays open until the power
\* fails; nobody calls close().
Opens == {TRUE} \cup {~OpenMayFail}

\* loadConfig
Loaded(opened) ==
    IF opened /\ Validate(Stored) THEN Stored ELSE Defaults

Boot ==
    /\ ~running
    /\ running' = TRUE
    /\ \E opened \in Opens :
        /\ storeOpen' = opened
        /\ config' = Loaded(opened) /\ webConfig' = Loaded(opened)
        /\ backlight' = Loaded(opened).contrast
    /\ web' = WebIdle
    /\ UNCHANGED <<nvs, kept>>

\* Power failure, brownout, watchdog, restart: only the flash remains.
Stop ==
    /\ running
    /\ running' = FALSE
    /\ web' = WebIdle
    /\ UNCHANGED <<nvs, ramVars, kept>>

-----------------------------------------------------------------------------
(* POST /api/config.  A request that does not validate is answered with 400 *)
(* and changes nothing.                                                    *)

\* What a request leaves as it was promised.
Unchanged(next) ==
    LET Keep(k) == IF next[k] = kept[k] THEN kept[k] ELSE Unset
    IN  [fire_thr |-> Keep("fire_thr"), fire_hyst |-> Keep("fire_hyst"),
         contrast |-> Keep("contrast")]

Post ==
    /\ running /\ web.pc = "idle"
    /\ \E next \in ConfigModel :
        /\ Validate(next)
        /\ webConfig' = next
        /\ web' = [pc |-> "save", next |-> next, at |-> 1, ok |-> TRUE]
        /\ kept' = Unchanged(next)
    /\ UNCHANGED <<running, nvs, storeOpen, config, backlight>>

\* One put of saveConfig; a failed one does not stop the others.
Put ==
    /\ running /\ web.pc = "save" /\ web.at \in 1 .. 3
    /\ storeOpen
    /\ nvs' = [nvs EXCEPT ![Order[web.at]] = web.next[Order[web.at]]]
    /\ web' = [web EXCEPT !.at = @ + 1]
    /\ UNCHANGED <<running, ramVars, kept>>

PutFails ==
    /\ running /\ web.pc = "save" /\ web.at \in 1 .. 3
    /\ ~storeOpen \/ PutMayFail
    /\ web' = [web EXCEPT !.at = @ + 1, !.ok = FALSE]
    /\ UNCHANGED <<running, nvs, ramVars, kept>>

\* Mutant of Reply: "previously every put() result was discarded".
ReplyAlwaysOk ==
    /\ web.pc = "save" /\ web.at = 4
    /\ backlight' = web.next.contrast
    /\ kept' = web.next
    /\ web' = WebIdle
    /\ UNCHANGED <<running, nvs, storeOpen, config, webConfig>>

\* setBrightness, then the reply: "ok" or "applied-not-saved".
Reply ==
    /\ web.pc = "save" /\ web.at = 4
    /\ backlight' = web.next.contrast
    /\ kept' = IF web.ok THEN web.next ELSE kept
    /\ web' = WebIdle
    /\ UNCHANGED <<running, nvs, storeOpen, config, webConfig>>

\* Core 1 latches the configuration at the start of a measurement cycle.
Latch ==
    /\ running
    /\ config' = webConfig
    /\ UNCHANGED <<running, nvs, storeOpen, webConfig, backlight, web, kept>>

Next ==
    \/ Boot \/ Stop
    \/ Post \/ Put \/ PutFails \/ Reply
    \/ Latch

Spec == Init /\ [][Next]_vars

-----------------------------------------------------------------------------
(* Properties *)

\* No configuration is ever in use that validate() would refuse (main.cpp:473,
\* 600): whatever mixture of keys a power failure or a failed put has left in
\* the flash, the fire alarm clears at a temperature above zero and below its
\* threshold.
ValidInUse == Validate(config) /\ Validate(webConfig)

\* main.cpp:480-484, no "false-positive saved": a value acknowledged with "ok"
\* is in the flash, and stays there through restarts, failed puts and the saves
\* of other settings, until a request changes it.
KeptIsStored == \A k \in Keys : kept[k] # Unset => nvs[k] = kept[k]

\* FR-27: with a flash that opens, a boot restores the whole configuration if
\* it was acknowledged and nothing was asked for since.
BootRestoresSaved ==
    [][Boot /\ storeOpen' /\ (\A k \in Keys : kept[k] # Unset)
          => config' = kept /\ webConfig' = kept]_vars

\* main.cpp:607-612, "Live behavior always applies": between requests the
\* backlight is that of the configuration in use, however the saves went.
BacklightFollows ==
    running /\ web.pc = "idle" => backlight = webConfig.contrast
=============================================================================
