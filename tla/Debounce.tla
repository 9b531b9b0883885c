------------------------------- MODULE Debounce -------------------------------
(***************************************************************************)
(* What the debounce of the notifier promises, without a queue, a consumer *)
(* or rollbacks: an alert of a key is not repeated within its gap, unless  *)
(* it failed, in which case the key is open again when the next cycle      *)
(* begins, or the memory of it died with the process.                      *)
(***************************************************************************)
EXTENDS Naturals

CONSTANTS Keys, Gap

VARIABLES
  phase,   \* "sleep", or "judge" within a cycle
  slot,    \* key -> "open", or what became of its last alert
  age,     \* key -> the age of that alert, up to Gap: the slot is open
  stored   \* key -> the age the next process will start from

vars == <<phase, slot, age, stored>>

OlderAge(a, k) == IF a < Gap[k] THEN a + 1 ELSE Gap[k]

Tick ==
  /\ phase = "sleep"
  /\ age' = [k \in Keys |-> OlderAge(age[k], k)]
  /\ stored' = [k \in Keys |-> OlderAge(stored[k], k)]
  /\ slot' = [k \in Keys |-> IF age'[k] = Gap[k] THEN "open" ELSE slot[k]]
  /\ UNCHANGED phase

\* Whatever failed, and nothing else, may be said again at once.
Begin ==
  /\ phase = "sleep" /\ phase' = "judge"
  /\ slot' = [k \in Keys |-> IF slot[k] = "failed" THEN "open" ELSE slot[k]]
  /\ age' = [k \in Keys |-> IF slot[k] = "failed" THEN Gap[k] ELSE age[k]]
  /\ UNCHANGED stored

Send(k) ==
  /\ phase = "judge"
  /\ slot[k] = "open"
  /\ \E how \in {"queued", "lost"} : slot' = [slot EXCEPT ![k] = how]
  /\ age' = [age EXCEPT ![k] = 0]
  /\ UNCHANGED <<phase, stored>>

\* Slack answers once.
Answer(k) ==
  /\ slot[k] = "queued"
  /\ \E how \in {"shown", "failed"} : slot' = [slot EXCEPT ![k] = how]
  /\ UNCHANGED <<phase, age, stored>>

End ==
  /\ phase = "judge" /\ phase' = "sleep"
  /\ stored' \in {stored, age}
  /\ UNCHANGED <<slot, age>>

Restart ==
  /\ phase' = "sleep"
  /\ age' = stored
  /\ slot' = [k \in Keys |-> IF stored[k] = Gap[k] THEN "open" ELSE "lost"]
  /\ UNCHANGED stored

Init ==
  /\ phase = "sleep"
  /\ slot = [k \in Keys |-> "open"]
  /\ age = Gap /\ stored = Gap

Next ==
  \/ Tick \/ Begin \/ End \/ Restart
  \/ \E k \in Keys : Send(k) \/ Answer(k)

Spec == Init /\ [][Next]_vars

=============================================================================
