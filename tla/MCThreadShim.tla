---------------------------- MODULE MCThreadShim -----------------------------
(* Small instances of both implementations of the thread shim.               *)
EXTENDS ThreadShim
==============================================================================
