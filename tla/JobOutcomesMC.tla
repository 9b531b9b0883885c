--------------------------- MODULE JobOutcomesMC -----------------------------
(***************************************************************************)
(* A small instance of JobOutcomes for TLC.                                *)
(***************************************************************************)
EXTENDS JobOutcomes

CONSTANTS a, b  \* a job that is started twice, and one that is not

Restarted == [j \in Jobs |-> IF j = a THEN 2 ELSE 1]
=============================================================================
