----------------------------- MODULE MCEventLog -----------------------------
(***************************************************************************)
(* Symmetry for EventLog: neither tasks nor messages are distinguished.    *)
(***************************************************************************)
EXTENDS EventLog, TLC

Symmetry == Permutations(Tasks) \cup Permutations(Messages)
=============================================================================
