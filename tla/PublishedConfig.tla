---------------------------- MODULE PublishedConfig ----------------------------
(***************************************************************************)
(* What the staged-editing store promises, with neither locks, files,      *)
(* generations nor failures: there is one published document and at most   *)
(* one pending one.  The published document changes in two ways only: a    *)
(* pending document is published whole, or one managed block of it is      *)
(* rewritten.  The writer of a deferring block leaves a pending document   *)
(* alone by waiting for it to go; that of another block drops it.          *)
(***************************************************************************)
CONSTANTS Bodies, Blocks, Vals, DeferringBlocks, NoDoc

VARIABLES live, pending

Doc == [body : Bodies, block : [Blocks -> Vals]]

Init == live \in Doc /\ pending = NoDoc

StageDoc(d)  == pending' = d /\ UNCHANGED live
Drop         == pending' = NoDoc /\ UNCHANGED live
PublishDoc   == pending # NoDoc /\ live' = pending /\ pending' = NoDoc
Refresh(b, v) ==
    /\ pending = NoDoc \/ b \notin DeferringBlocks
    /\ live' = [live EXCEPT !.block[b] = v]
    /\ pending' = NoDoc

Next ==
    \/ \E d \in Doc : StageDoc(d)
    \/ Drop
    \/ PublishDoc
    \/ \E b \in Blocks, v \in Vals : Refresh(b, v)

Spec == Init /\ [][Next]_<<live, pending>>
=============================================================================
