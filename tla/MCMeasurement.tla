--------------------------- MODULE MCMeasurement ----------------------------
(***************************************************************************)
(* Values for the constants of Measurement, in half degrees.               *)
(***************************************************************************)
EXTENDS Measurement

\* -30 degrees; TLC's configuration files know no negative numbers.
MCValidMin == -60

\* An implausible cold, a room, just below the fire threshold, and the 85 degree
\* sentinel.
MCInner == {-70, 42, 88, 170}

\* Frost, below the vent rule's trip point, and above its clear point.
MCOuter == {-7, 42}
=============================================================================
