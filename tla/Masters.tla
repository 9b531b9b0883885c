-------------------------------- MODULE Masters --------------------------------
(***************************************************************************)
(* The shared SSH connection to one node (common.py:97-184).  Its poll and *)
(* its repair run commands at the same time, each through a master process *)
(* that listens at a path in the collector's socket directory.  Whether it *)
(* is alive is looked up in a mark for a minute, else asked of ssh, under  *)
(* one lock per node; a dead master's path is removed and another one is   *)
(* started.                                                                *)
(*                                                                         *)
(* ssh is external: a command without a master connects on its own, a      *)
(* master may die, or hang and not answer the check, and one that exits    *)
(* removes the path it was given, whoever listens there by then.           *)
(***************************************************************************)
EXTENDS Naturals, FiniteSets

CONSTANTS
  SshCallers,      \* threads that run commands on the node
  MasterTtl,    \* how long a mark is believed (_MASTER_ALIVE_TTL)
  MaxMasters,   \* bound: masters started
  NoMaster,      \* no mark, no socket, no master
  Unheld          \* nobody holds the lock

ASSUME MastersAssumption == MasterTtl \in Nat \ {0} /\ MaxMasters \in Nat
ASSUME MarkersAssumption == NoMaster \notin Nat /\ Unheld \notin SshCallers

VARIABLES
  mark,      \* _master_alive: age of the last confirmation
  uptime,    \* age of the clock's zero, which stands for an absent mark
  lockOwner,    \* of the node's lock
  socket,    \* the master that was given the path in _SSH_CONTROL_DIR
  masters,   \* the master processes that live
  made,      \* how many were started
  caller,    \* where each thread is
  cut        \* history: masters whose path was taken from them while they lived

mastersVars == <<mark, uptime, lockOwner, socket, masters, made, caller, cut>>

MastersInit ==
  /\ mark = NoMaster
  /\ uptime \in {0, MasterTtl}
  /\ lockOwner = Unheld
  /\ socket = NoMaster /\ masters = {} /\ made = 0
  /\ caller = [c \in SshCallers |-> "idle"]
  /\ cut = {}

AgedMark(age) == IF age < MasterTtl THEN age + 1 ELSE age

Minutes ==
  /\ uptime' = AgedMark(uptime)
  /\ mark' = IF mark = NoMaster THEN NoMaster ELSE AgedMark(mark)
  /\ UNCHANGED <<lockOwner, socket, masters, made, caller, cut>>

\* An absent mark counts as one from the time the machine started.
Believed == (IF mark = NoMaster THEN uptime ELSE mark) < MasterTtl

Becomes(c, place) == caller' = [caller EXCEPT ![c] = place]

-----------------------------------------------------------------------------
(* ssh_ensure_master.                                                      *)

CallSsh(c) ==
  /\ caller[c] = "idle"
  /\ Becomes(c, IF Believed THEN "command" ELSE "wait")
  /\ UNCHANGED <<mark, uptime, lockOwner, socket, masters, made, cut>>

\* Mistaken variant of Enter: the threads do not wait for each other.
EnterTogether(c) ==
  /\ caller[c] = "wait"
  /\ Becomes(c, IF Believed THEN "command" ELSE IF socket = NoMaster THEN "connect" ELSE "check")
  /\ UNCHANGED <<mark, uptime, lockOwner, socket, masters, made, cut>>

\* Somebody else may have done it while this thread waited for the lock.
EnterAlone(c) ==
  /\ caller[c] = "wait" /\ lockOwner = Unheld
  /\ lockOwner' = IF Believed THEN Unheld ELSE c
  /\ Becomes(c, IF Believed THEN "command" ELSE IF socket = NoMaster THEN "connect" ELSE "check")
  /\ UNCHANGED <<mark, uptime, socket, masters, made, cut>>

Answers(c) ==
  /\ caller[c] = "check" /\ socket \in masters
  /\ Becomes(c, "alive")
  /\ UNCHANGED <<mark, uptime, lockOwner, socket, masters, made, cut>>

ConfirmMaster(c) ==
  /\ caller[c] = "alive"
  /\ mark' = 0
  /\ lockOwner' = Unheld
  /\ Becomes(c, "command")
  /\ UNCHANGED <<uptime, socket, masters, made, cut>>

\* The path has no listener, or its listener does not answer in time.
IsSilent(c) ==
  /\ caller[c] = "check"
  /\ Becomes(c, "dead")
  /\ UNCHANGED <<mark, uptime, lockOwner, socket, masters, made, cut>>

RemoveSocket(c) ==
  /\ caller[c] = "dead"
  /\ socket' = NoMaster
  /\ cut' = cut \cup ({socket} \cap masters)
  /\ Becomes(c, "connect")
  /\ UNCHANGED <<mark, uptime, lockOwner, masters, made>>

\* A path that is taken leaves the new master without one.
Connect(c) ==
  /\ caller[c] = "connect" /\ made < MaxMasters
  /\ made' = made + 1
  /\ masters' = masters \cup {made + 1}
  /\ socket' = IF socket = NoMaster THEN made + 1 ELSE socket
  /\ mark' = 0
  /\ lockOwner' = Unheld
  /\ Becomes(c, "command")
  /\ UNCHANGED <<uptime, cut>>

ConnectFails(c) ==
  /\ caller[c] = "connect"
  /\ lockOwner' = Unheld
  /\ Becomes(c, "command")
  /\ UNCHANGED <<mark, uptime, socket, masters, made, cut>>

-----------------------------------------------------------------------------
(* ssh_cmd, and what happens to masters.                                   *)

Command(c, ok) ==
  /\ caller[c] = "command"
  /\ mark' = IF ok THEN mark ELSE NoMaster
  /\ Becomes(c, "idle")
  /\ UNCHANGED <<uptime, lockOwner, socket, masters, made, cut>>

MasterIsKilled(m) ==
  /\ m \in masters
  /\ masters' = masters \ {m}
  /\ UNCHANGED <<mark, uptime, lockOwner, socket, made, caller, cut>>

MasterExits(m) ==
  /\ m \in masters
  /\ masters' = masters \ {m}
  /\ socket' = NoMaster
  /\ cut' = cut \cup ({socket} \cap masters')
  /\ UNCHANGED <<mark, uptime, lockOwner, made, caller>>

MastersNext ==
  \/ Minutes
  \/ \E c \in SshCallers :
       \/ CallSsh(c) \/ EnterAlone(c) \/ Answers(c) \/ ConfirmMaster(c) \/ IsSilent(c) \/ RemoveSocket(c)
       \/ Connect(c) \/ ConnectFails(c)
       \/ \E ok \in BOOLEAN : Command(c, ok)
  \/ \E m \in masters : MasterIsKilled(m) \/ MasterExits(m)

-----------------------------------------------------------------------------
\* The poll and the repair of a node never leave two masters connected to it: one
\* that lives keeps its path, unless it did not answer the check in time or an older
\* one exited late, and the next one starts behind the same lock (common.py:134,
\* "so parallel pollers don't spawn duplicate masters").
OneMaster ==
  /\ Cardinality(masters \ cut) <= 1
  /\ masters \ cut \subseteq {socket}
=============================================================================
