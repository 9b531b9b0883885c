------------------------------ MODULE PollingMC -------------------------------
(***************************************************************************)
(* A small instance of Polling for TLC.                                    *)
(***************************************************************************)
EXTENDS Polling

CONSTANTS gpu, cpu  \* a node of each kind

Roster == <<gpu, cpu>>
=============================================================================
