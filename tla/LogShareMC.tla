------------------------------ MODULE LogShareMC ------------------------------
(***************************************************************************)
(* Small instances of LogShare for TLC.                                    *)
(***************************************************************************)
EXTENDS LogShare, TLC

CONSTANTS A, B  \* two scheduler records

OneStream == [s \in Seeds |-> {"out"}]
ThenSplit == (A :> {"out"}) @@ (B :> {"err"})
ThreadTokens == 1..3
=============================================================================
