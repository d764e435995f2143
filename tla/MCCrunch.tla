------------------------------ MODULE MCCrunch -------------------------------
(* Small instances of the C engine for TLC.                                  *)
EXTENDS Crunch
==============================================================================
