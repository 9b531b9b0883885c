----------------------------- MODULE NotifierMC ------------------------------
(***************************************************************************)
(* Small instances of Notifier for TLC.                                    *)
(***************************************************************************)
EXTENDS Notifier

CONSTANTS node, job, cluster  \* what alerts are about

News == {<<"down", node>>, <<"free", cluster>>}
Nags == {<<"hot", node>>, <<"pend", job>>}
Outage == {<<"down", node>>}
Free == {<<"free", cluster>>}

\* Only clocks that are read need to run.
ShortGrace == [k \in Keys |-> IF Kind(k) \in {"hot", "free"} THEN 0 ELSE 1]
OneTick == [k \in Keys |-> 1]
TwoTicks == [k \in Keys |-> 2]
=============================================================================
