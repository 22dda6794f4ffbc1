------------------------------ MODULE MCOutputs ------------------------------
(***************************************************************************)
(* Averages for Outputs: a reading below zero whose whole degrees are 0,   *)
(* one of four digits, and each of the two missing.                        *)
(***************************************************************************)
EXTENDS Outputs

MCAverages == {<<kTempInvalid, 2159>>, <<-5, 1899>>, <<2305, kTempInvalid>>}
=============================================================================
