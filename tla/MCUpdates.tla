----------------------------- MODULE MCUpdates -----------------------------
(* Updates on a small instance: two builds, one of which may be refused by   *)
(* the preflight, two requests.                                              *)
EXTENDS Updates

CONSTANTS r1, r2
=============================================================================
