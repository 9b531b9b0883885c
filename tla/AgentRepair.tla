------------------------------ MODULE AgentRepair ------------------------------
(***************************************************************************)
(* The agents of one node and the repairs that restart them                *)
(* (collector.py:95, 1198-1247, 1451; agent.py:64-66, 327-425).  The      *)
(* collector queues a repair when a node has no acceptable payload; a pool *)
(* of two threads runs it over SSH whenever it gets to it: kill what runs, *)
(* wait, launch another agent.  A lock on the node lets one agent work.    *)
(*                                                                         *)
(* Readings of the cards are numbered as they are taken.                   *)
(***************************************************************************)
EXTENDS Naturals

CONSTANTS
  Processes,    \* agent processes that may be started
  Repairs,      \* repairs of this node in the pool or its queue
  RepairGap,    \* ticks between requests (AGENT_REPAIR_SEC)
  MaxReadings,  \* bound: readings
  Nobody

ASSUME RepairAssumption ==
  RepairGap \in Nat /\ MaxReadings \in Nat /\ Nobody \notin Processes

VARIABLES
  process,    \* where each agent is, whether it was told to stop, its reading
  agentLock,  \* who holds LOCK_FILE
  readings,   \* readings taken
  published,  \* the reading in <node>.json, 0 for none
  stale,      \* the file has no fresh payload of this build
  repair,     \* what each repair is doing
  sinceRepair,      \* ticks since _agent_repair_ts, up to RepairGap
  pushOff     \* the time of the last repair is infinite

agents == <<process, agentLock, readings, published>>
collector == <<repair, sinceRepair, pushOff>>
repairVars == <<agents, stale, collector>>

Stages == {"new", "waiting", "resting", "holding", "gone"}
Unborn == [at |-> "new", told |-> FALSE, reading |-> 0]
Dead == [at |-> "gone", told |-> FALSE, reading |-> 0]
Started(p) == process[p].at \in {"resting", "holding"}

-----------------------------------------------------------------------------
(* The collector.                                                          *)

Tick ==
  /\ sinceRepair' = IF sinceRepair < RepairGap THEN sinceRepair + 1 ELSE RepairGap
  /\ UNCHANGED <<agents, stale, repair, pushOff>>

\* The payload expires, or the code on disk changes and its build is not the expected one.
PayloadExpires ==
  /\ ~stale /\ stale' = TRUE
  /\ UNCHANGED <<agents, collector>>

\* _maybe_repair_agent.
Ask(r) ==
  /\ stale /\ repair[r] = "none"
  /\ sinceRepair = RepairGap /\ ~pushOff
  /\ sinceRepair' = 0
  /\ repair' = [repair EXCEPT ![r] = "queued"]
  /\ UNCHANGED <<agents, stale, pushOff>>

\* SIGTERM ends a process that waits for the lock; one that works ends its round first.
Told == [p \in Processes |->
           IF Started(p) THEN [process[p] EXCEPT !.told = TRUE]
           ELSE IF process[p].at = "waiting" THEN Dead ELSE process[p]]

\* pkill over SSH: it may not get there.
Kill(r, reached) ==
  /\ repair[r] = "queued"
  /\ repair' = [repair EXCEPT ![r] = "pausing"]
  /\ process' = IF reached THEN Told ELSE process
  /\ UNCHANGED <<agentLock, readings, published, stale, sinceRepair, pushOff>>

LaunchAgent(r, p) ==
  /\ repair[r] = "pausing" /\ process[p].at = "new"
  /\ process' = [process EXCEPT ![p].at = "waiting"]
  /\ repair' = [repair EXCEPT ![r] = "none"]
  /\ UNCHANGED <<agentLock, readings, published, stale, sinceRepair, pushOff>>

\* The node is not reached, or it does not see the installation: then never again.
LaunchFails(r, missing) ==
  /\ repair[r] = "pausing"
  /\ repair' = [repair EXCEPT ![r] = "none"]
  /\ pushOff' = (pushOff \/ missing)
  /\ UNCHANGED <<agents, stale, sinceRepair>>

-----------------------------------------------------------------------------
(* run_agent.                                                              *)

\* Mistaken variant of TakeAgentLock: an agent works without the lock.
WorkAtOnce(p) ==
  /\ process[p].at = "waiting"
  /\ process' = [process EXCEPT ![p].at = "resting"]
  /\ UNCHANGED <<agentLock, readings, published, stale, collector>>
TakeAgentLock(p) ==
  /\ process[p].at = "waiting" /\ agentLock = Nobody
  /\ agentLock' = p
  /\ process' = [process EXCEPT ![p].at = "resting"]
  /\ UNCHANGED <<readings, published, stale, collector>>

AgentEnds(p) ==
  /\ process' = [process EXCEPT ![p] = Dead]
  /\ agentLock' = IF agentLock = p THEN Nobody ELSE agentLock

\* Five seconds without the lock.
LeaveToOther(p) ==
  /\ process[p].at = "waiting" /\ agentLock # Nobody
  /\ AgentEnds(p)
  /\ UNCHANGED <<readings, published, stale, collector>>

Collect(p) ==
  /\ process[p].at = "resting" /\ ~process[p].told
  /\ readings < MaxReadings
  /\ readings' = readings + 1
  /\ process' = [process EXCEPT ![p].at = "holding", ![p].reading = readings']
  /\ UNCHANGED <<agentLock, published, stale, collector>>

\* The cards could not be read, or the file cannot be written: it keeps what it says.
WritePayload(p, written) ==
  /\ process[p].at = "holding"
  /\ published' = IF written THEN process[p].reading ELSE published
  /\ stale' = IF written THEN FALSE ELSE stale
  /\ process' = [process EXCEPT ![p].at = "resting", ![p].reading = 0]
  /\ UNCHANGED <<agentLock, readings, collector>>

AgentStops(p) ==
  /\ process[p].at = "resting" /\ process[p].told
  /\ AgentEnds(p)
  /\ UNCHANGED <<readings, published, stale, collector>>

\* Killed, or the node goes down.
Vanish(p) ==
  /\ Started(p)
  /\ AgentEnds(p)
  /\ UNCHANGED <<readings, published, stale, collector>>

-----------------------------------------------------------------------------
RepairInit ==
  /\ process = [p \in Processes |-> Unborn]
  /\ agentLock = Nobody /\ readings = 0 /\ published = 0 /\ stale = TRUE
  /\ repair = [r \in Repairs |-> "none"]
  /\ sinceRepair = RepairGap /\ pushOff = FALSE

RepairNext ==
  \/ Tick
  \/ PayloadExpires
  \/ \E r \in Repairs :
       \/ Ask(r)
       \/ \E reached \in BOOLEAN : Kill(r, reached)
       \/ \E p \in Processes : LaunchAgent(r, p)
       \/ \E missing \in BOOLEAN : LaunchFails(r, missing)
  \/ \E p \in Processes :
       \/ TakeAgentLock(p)
       \/ LeaveToOther(p)
       \/ Collect(p)
       \/ \E written \in BOOLEAN : WritePayload(p, written)
       \/ AgentStops(p)
       \/ Vanish(p)

RepairSpec == RepairInit /\ [][RepairNext]_repairVars

-----------------------------------------------------------------------------
\* What a node publishes never goes back to an earlier reading, through repairs that
\* wait in the queue and run one over the other, kills that do not arrive, and agents
\* that end their round while the next one starts (agent.py:332).
ReadingsAdvance == [][published' = published \/ published' > published]_repairVars
=============================================================================
