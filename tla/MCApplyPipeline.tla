-------------------------- MODULE MCApplyPipeline --------------------------
(* The pipeline on a small instance.                                        *)
EXTENDS ApplyPipeline

CONSTANTS u1, u2, c1, c2, p1
=============================================================================
