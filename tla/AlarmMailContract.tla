-------------------------- MODULE AlarmMailContract --------------------------
(***************************************************************************)
(* What the mail pipeline promises about ONE kind of automatic alarm mail, *)
(* without tasks, queue or critical sections: SPECIFICATION.md section 7.  *)
(*                                                                         *)
(*  - a mail is started only by an armed trigger, and starting it disarms; *)
(*    only a look that finds the alarm inactive arms the trigger again, so *)
(*    a persisting alarm never sends twice;                                *)
(*  - at most one mail is outstanding;                                     *)
(*  - an outstanding mail is resolved: delivered or given up.              *)
(***************************************************************************)
VARIABLES
    armed,        \* the last look found the alarm inactive
    outstanding,  \* a mail was started and is not resolved
    delivered     \* some mail of this kind was accepted by the server

contractVars == <<armed, outstanding, delivered>>

Init ==
    /\ armed = TRUE
    /\ outstanding = FALSE
    /\ delivered = FALSE

\* A look finds the alarm inactive.
Rearm == armed' = TRUE /\ UNCHANGED <<outstanding, delivered>>

\* A look finds the alarm active, but sends nothing (disabled, too early, or a
\* mail is already outstanding).
Consume == armed' = FALSE /\ UNCHANGED <<outstanding, delivered>>

Raise ==
    /\ armed /\ ~outstanding
    /\ armed' = FALSE /\ outstanding' = TRUE
    /\ UNCHANGED delivered

Deliver ==
    /\ outstanding
    /\ outstanding' = FALSE /\ delivered' = TRUE
    /\ UNCHANGED armed

GiveUp ==
    /\ outstanding
    /\ outstanding' = FALSE
    /\ UNCHANGED <<armed, delivered>>

Next == Rearm \/ Consume \/ Raise \/ Deliver \/ GiveUp

Safety == Init /\ [][Next]_contractVars

Spec == Safety /\ WF_contractVars(Deliver \/ GiveUp)
=============================================================================
