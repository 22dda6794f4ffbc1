---------------------------- MODULE MCConfigStore ----------------------------
(***************************************************************************)
(* Defaults for ConfigStore and WebPage: the larger of two thresholds, the *)
(* smaller of two hystereses, the brighter of two contrasts.               *)
(***************************************************************************)
EXTENDS WebPage

MCDefaults == [fire_thr |-> 4, fire_hyst |-> 1, contrast |-> 1]
=============================================================================
