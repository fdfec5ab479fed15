-------------------------- MODULE MCProcessManager --------------------------
(* The process manager on a small instance: two paths, the repairs as model *)
(* values.                                                                   *)
EXTENDS ProcessManager

CONSTANTS h1, h2
=============================================================================
