----------------------------- MODULE SharedSpool ------------------------------
(***************************************************************************)
(* What log sharing promises the users of the spool directory, without     *)
(* threads, tokens or locks: a file shows a log its job is trusted with,   *)
(* it never goes back to an older tail of that log, and what a cycle       *)
(* stopped trusting is withdrawn before the cycle closes.                  *)
(***************************************************************************)
EXTENDS Naturals

CONSTANTS Jobs, Streams, Seeds, NoSeed

VARIABLES
  trusted,  \* job -> the record the last snapshot validated, or NoSeed
  files,    \* job -> stream -> the tail every user can read
  phase     \* "down" before a collector runs, "open" within a cycle, or "closed"

vars == <<trusted, files, phase>>

NoFile == [seed |-> NoSeed, ver |-> 0]

AllTrusted ==
  \A j \in Jobs, x \in Streams : files[j][x] = NoFile \/ files[j][x].seed = trusted[j]

Snapshot ==
  /\ phase = "closed" /\ phase' = "open"
  /\ trusted' \in [Jobs -> Seeds \cup {NoSeed}]
  /\ UNCHANGED files

Mirror(j, x) ==
  /\ phase # "down" /\ trusted[j] # NoSeed
  /\ files'[j][x].ver \in Nat
  /\ files[j][x].seed = trusted[j] => files'[j][x].ver >= files[j][x].ver
  /\ files' = [files EXCEPT ![j][x] = [seed |-> trusted[j], ver |-> files'[j][x].ver]]
  /\ UNCHANGED <<trusted, phase>>

Withdraw(j, x) ==
  /\ files' = [files EXCEPT ![j][x] = NoFile]
  /\ UNCHANGED <<trusted, phase>>

Close ==
  /\ phase = "open" /\ phase' = "closed"
  /\ AllTrusted
  /\ UNCHANGED <<trusted, files>>

Die ==
  /\ phase' = "down"
  /\ trusted' = [j \in Jobs |-> NoSeed]
  /\ UNCHANGED files

Restart ==
  /\ phase = "down" /\ phase' = "closed"
  /\ AllTrusted
  /\ UNCHANGED <<trusted, files>>

Init ==
  /\ phase = "down"
  /\ trusted = [j \in Jobs |-> NoSeed]
  /\ files = [j \in Jobs |-> [x \in Streams |-> NoFile]]

Next ==
  \/ Snapshot
  \/ \E j \in Jobs, x \in Streams : Mirror(j, x) \/ Withdraw(j, x)
  \/ Close
  \/ Die
  \/ Restart

Spec == Init /\ [][Next]_vars

=============================================================================
