--------------------------- MODULE MCConfigStore ---------------------------
(* The store on a small instance: bodies, values and requests are model     *)
(* values, the managed blocks are named as the code names their writers.    *)
EXTENDS ConfigStore, TLC

CONSTANTS good, bad, c1, c2

\* The two requests are interchangeable.
MCClients == Permutations({c1, c2})
=============================================================================
