----------------------------- MODULE MCCrunchPP ------------------------------
(* Small instances of the C++ engine for TLC.                                *)
EXTENDS CrunchPP
==============================================================================
