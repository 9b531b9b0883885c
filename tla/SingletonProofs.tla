---------------------------- MODULE SingletonProofs ----------------------------
(***************************************************************************)
(* Theorems about what there is one of at a time, for any number of        *)
(* processes, callers and jobs: one collector past the lock (Daemon), one  *)
(* SSH master per node (Masters), one working agent of a node              *)
(* (AgentRepair), one request for a job's script (Scripts).                *)
(***************************************************************************)
EXTENDS Daemon, Masters, AgentRepair, Scripts, FiniteSetTheorems, TLAPS

-----------------------------------------------------------------------------
(* Collectors.                                                             *)

Someone == Collectors \cup {NoCollector}

DaemonTypes ==
  /\ phase \in [Collectors -> Phases]
  /\ lockedBy \in Someone /\ pidFile \in Someone
  /\ command \in [Commands -> [read : BOOLEAN, pid : Someone]]

\* Who is in charge holds the lock, and nobody else does.
LockIsCharge == \A p \in Collectors : phase[p] \in InCharge <=> lockedBy = p

\* The second part of OneCollector.
FileNamesIt ==
  \A p \in Collectors : phase[p] \in {"preparing", "looping"} => pidFile = p \/ p \in meddled

DaemonInv == DaemonTypes /\ LockIsCharge /\ FileNamesIt

LEMMA InitDaemon == DaemonInit => DaemonInv
  BY DaemonAssumption, SMT
  DEF DaemonInit, DaemonInv, DaemonTypes, LockIsCharge, FileNamesIt, Someone, Commands, Ready,
      Phases, InCharge

\* An end keeps everything: the lock goes with its holder.
LEMMA EndsKeeps ==
  ASSUME DaemonInv, NEW p \in Collectors, phase[p] # "new", Ends(p),
         pidFile' = pidFile, meddled' = meddled,
         command' \in [Commands -> [read : BOOLEAN, pid : Someone]]
  PROVE  DaemonInv'
  <1>1. DaemonTypes'
    BY SMT DEF DaemonInv, DaemonTypes, Ends, Moves, Someone, Phases
  <1>2. LockIsCharge'
    BY DaemonAssumption, SMT
    DEF DaemonInv, DaemonTypes, LockIsCharge, Ends, Moves, Someone, InCharge
  <1>3. FileNamesIt'
    BY SMT DEF DaemonInv, DaemonTypes, FileNamesIt, Ends, Moves
  <1>4. QED BY <1>1, <1>2, <1>3 DEF DaemonInv

LEMMA NextDaemon == DaemonInv /\ [DaemonNext]_daemonVars => DaemonInv'
  <1> SUFFICES ASSUME DaemonInv, [DaemonNext]_daemonVars PROVE DaemonInv' OBVIOUS
  <1> USE DaemonAssumption
  <1>1. ASSUME NEW p \in Collectors, Launch(p) PROVE DaemonInv'
    BY <1>1, SMT
    DEF Launch, Moves, DaemonInv, DaemonTypes, LockIsCharge, FileNamesIt, Someone, Phases, InCharge
  <1>2. ASSUME NEW p \in Collectors, TakeLock(p) PROVE DaemonInv'
    BY <1>2, SMT
    DEF TakeLock, Moves, DaemonInv, DaemonTypes, LockIsCharge, FileNamesIt, Someone, Phases, InCharge
  <1>3. ASSUME NEW p \in Collectors, GiveUp(p) PROVE DaemonInv'
    BY <1>3, EndsKeeps, SMT DEF GiveUp, DaemonInv, DaemonTypes
  <1>4. ASSUME NEW p \in Collectors, NameItself(p) PROVE DaemonInv'
    BY <1>4, SMT
    DEF NameItself, Moves, DaemonInv, DaemonTypes, LockIsCharge, FileNamesIt, Someone, Phases, InCharge
  <1>5. ASSUME NEW p \in Collectors, Prepare(p) PROVE DaemonInv'
    BY <1>5, SMT
    DEF Prepare, Moves, DaemonInv, DaemonTypes, LockIsCharge, FileNamesIt, Someone, Phases, InCharge
  <1>6. ASSUME NEW p \in Collectors, NEW saved \in BOOLEAN, Leave(p, saved) PROVE DaemonInv'
    BY <1>6, SMT
    DEF Leave, Moves, DaemonInv, DaemonTypes, LockIsCharge, FileNamesIt, Someone, Phases, InCharge
  <1>7. ASSUME NEW p \in Collectors, Exit(p) PROVE DaemonInv'
    BY <1>7, EndsKeeps, SMT DEF Exit, Alive, DaemonInv, DaemonTypes
  <1>8. ASSUME NEW c \in Commands, ReadPid(c) PROVE DaemonInv'
    BY <1>8, SMT DEF ReadPid, DaemonInv, DaemonTypes, LockIsCharge, FileNamesIt, Someone
  <1>9. ASSUME NEW c \in Commands, Signal(c) PROVE DaemonInv'
    <2> DEFINE p == command[c].pid
    <2>1. p \in Collectors /\ phase[p] # "new"
      BY <1>9, SMT DEF Signal, Alive, DaemonInv, DaemonTypes, Someone
    <2>2. command' \in [Commands -> [read : BOOLEAN, pid : Someone]]
      BY <1>9, SMT DEF Signal, Done, Ready, DaemonInv, DaemonTypes, Someone
    <2>3. pidFile' = pidFile /\ meddled' = meddled
      BY <1>9 DEF Signal
    <2>4. Ends(p) \/ UNCHANGED <<phase, lockedBy>>
      BY <1>9 DEF Signal
    <2>5. CASE Ends(p)
      BY <2>1, <2>2, <2>3, <2>5, EndsKeeps
    <2>6. CASE UNCHANGED <<phase, lockedBy>>
      BY <2>2, <2>3, <2>6, SMT DEF DaemonInv, DaemonTypes, LockIsCharge, FileNamesIt
    <2>7. QED BY <2>4, <2>5, <2>6
  <1>10. ASSUME NEW c \in Commands, RemovePid(c) PROVE DaemonInv'
    <2>1. DaemonTypes' /\ LockIsCharge'
      BY <1>10, SMT DEF RemovePid, Done, Ready, DaemonInv, DaemonTypes, LockIsCharge, Someone
    <2>2. FileNamesIt'
      BY <1>10, SMT DEF RemovePid, DaemonInv, FileNamesIt
    <2>3. QED BY <2>1, <2>2 DEF DaemonInv
  <1>11. ASSUME NEW c \in Commands, NotRunning(c) PROVE DaemonInv'
    BY <1>11, SMT DEF NotRunning, Done, Ready, DaemonInv, DaemonTypes, LockIsCharge, FileNamesIt, Someone
  <1>12. CASE UNCHANGED daemonVars
    BY <1>12, SMT DEF daemonVars, DaemonInv, DaemonTypes, LockIsCharge, FileNamesIt
  <1>13. QED
    BY <1>1, <1>2, <1>3, <1>4, <1>5, <1>6, <1>7, <1>8, <1>9, <1>10, <1>11, <1>12 DEF DaemonNext

\* Lock, process file and places of the collectors agree in every reachable state.
THEOREM DaemonInvariance == DaemonSpec => []DaemonInv
  BY InitDaemon, NextDaemon, PTL DEF DaemonSpec

\* Two collectors never write data.json at once, and one that prepares or loops is named
\* by its file unless a command took the file away (collector.py:2133, 2141), whatever
\* number of collectors is started, told to stop or killed.
THEOREM OneAtATime == DaemonSpec => []OneCollector
  <1>1. DaemonInv => OneCollector
    BY SMT DEF DaemonInv, DaemonTypes, LockIsCharge, FileNamesIt, OneCollector
  <1>2. QED BY <1>1, DaemonInvariance, PTL

-----------------------------------------------------------------------------
(* SSH masters.                                                            *)

MastersSpec == MastersInit /\ [][MastersNext]_mastersVars

Places == {"idle", "command", "wait", "check", "alive", "dead", "connect"}

MastersTypes ==
  /\ made \in Nat
  /\ masters \in SUBSET Nat
  /\ socket \in Nat \cup {NoMaster}
  /\ caller \in [SshCallers -> Places]

\* Who is between the lock's two ends holds it.
Locked == \A c \in SshCallers :
  caller[c] \in {"check", "alive", "dead", "connect"} => lockOwner = c

\* A new master finds its path free.
PathIsFree == \A c \in SshCallers : caller[c] = "connect" => socket = NoMaster

Reachable == masters \ cut \subseteq {socket}

MastersInv == MastersTypes /\ Locked /\ PathIsFree /\ Reachable

LEMMA InitMasters == MastersInit => MastersInv
  BY MarkersAssumption, SMT
  DEF MastersInit, MastersInv, MastersTypes, Locked, PathIsFree, Reachable, Places

LEMMA NextMasters == MastersInv /\ [MastersNext]_mastersVars => MastersInv'
  <1> SUFFICES ASSUME MastersInv, [MastersNext]_mastersVars PROVE MastersInv' OBVIOUS
  <1> USE MarkersAssumption
  <1>1. CASE Minutes
    BY <1>1, SMT DEF Minutes, MastersInv, MastersTypes, Locked, PathIsFree, Reachable
  <1>2. ASSUME NEW c \in SshCallers, CallSsh(c) PROVE MastersInv'
    BY <1>2, SMT DEF CallSsh, Becomes, MastersInv, MastersTypes, Locked, PathIsFree, Reachable, Places
  <1>3. ASSUME NEW c \in SshCallers, EnterAlone(c) PROVE MastersInv'
    BY <1>3, SMT
    DEF EnterAlone, Becomes, MastersInv, MastersTypes, Locked, PathIsFree, Reachable, Places
  <1>4. ASSUME NEW c \in SshCallers, Answers(c) PROVE MastersInv'
    BY <1>4, SMT DEF Answers, Becomes, MastersInv, MastersTypes, Locked, PathIsFree, Reachable, Places
  <1>5. ASSUME NEW c \in SshCallers, ConfirmMaster(c) PROVE MastersInv'
    BY <1>5, SMT
    DEF ConfirmMaster, Becomes, MastersInv, MastersTypes, Locked, PathIsFree, Reachable, Places
  <1>6. ASSUME NEW c \in SshCallers, IsSilent(c) PROVE MastersInv'
    BY <1>6, SMT DEF IsSilent, Becomes, MastersInv, MastersTypes, Locked, PathIsFree, Reachable, Places
  <1>7. ASSUME NEW c \in SshCallers, RemoveSocket(c) PROVE MastersInv'
    BY <1>7, SMT
    DEF RemoveSocket, Becomes, MastersInv, MastersTypes, Locked, PathIsFree, Reachable, Places
  <1>8. ASSUME NEW c \in SshCallers, Connect(c) PROVE MastersInv'
    BY <1>8, SMT DEF Connect, Becomes, MastersInv, MastersTypes, Locked, PathIsFree, Reachable, Places
  <1>9. ASSUME NEW c \in SshCallers, ConnectFails(c) PROVE MastersInv'
    BY <1>9, SMT
    DEF ConnectFails, Becomes, MastersInv, MastersTypes, Locked, PathIsFree, Reachable, Places
  <1>10. ASSUME NEW c \in SshCallers, NEW ok \in BOOLEAN, Command(c, ok) PROVE MastersInv'
    BY <1>10, SMT DEF Command, Becomes, MastersInv, MastersTypes, Locked, PathIsFree, Reachable, Places
  <1>11. ASSUME NEW m \in masters, MasterIsKilled(m) PROVE MastersInv'
    BY <1>11, SMT DEF MasterIsKilled, MastersInv, MastersTypes, Locked, PathIsFree, Reachable
  <1>12. ASSUME NEW m \in masters, MasterExits(m) PROVE MastersInv'
    BY <1>12, SMT DEF MasterExits, MastersInv, MastersTypes, Locked, PathIsFree, Reachable
  <1>13. CASE UNCHANGED mastersVars
    BY <1>13, SMT DEF mastersVars, MastersInv, MastersTypes, Locked, PathIsFree, Reachable
  <1>14. QED
    BY <1>1, <1>2, <1>3, <1>4, <1>5, <1>6, <1>7, <1>8, <1>9, <1>10, <1>11, <1>12, <1>13 DEF MastersNext

\* The lock, the path and the living masters agree in every reachable state.
THEOREM MastersInvariance == MastersSpec => []MastersInv
  BY InitMasters, NextMasters, PTL DEF MastersSpec

\* However many threads run commands on a node, and whatever masters die or stop
\* answering, at most one lives that was not cut off from its path (common.py:134).
THEOREM NeverTwoMasters == MastersSpec => []OneMaster
  <1>1. MastersInv => OneMaster
    <2> SUFFICES ASSUME MastersInv PROVE OneMaster OBVIOUS
    <2>1. masters \ cut \subseteq {socket} BY DEF MastersInv, Reachable
    <2>2. masters \ cut = {} \/ masters \ cut = {socket} BY <2>1
    <2>3. Cardinality({}) = 0 BY FS_EmptySet
    <2>4. Cardinality({socket}) = 1 BY FS_Singleton
    <2>5. Cardinality(masters \ cut) = 0 \/ Cardinality(masters \ cut) = 1
      BY <2>2, <2>3, <2>4, Zenon
    <2>6. Cardinality(masters \ cut) <= 1 BY <2>5, SMT
    <2>7. QED BY <2>1, <2>6 DEF OneMaster
  <1>2. QED BY <1>1, MastersInvariance, PTL

-----------------------------------------------------------------------------
(* The agents and the repairs of a node.                                   *)

AgentStates == [at : Stages, told : BOOLEAN, reading : Nat]
AgentTypes ==
  /\ process \in [Processes -> AgentStates]
  /\ agentLock \in Processes \cup {Nobody}
  /\ readings \in Nat /\ published \in Nat

\* The agents that work are the one that holds the lock.
LockIsWork == \A p \in Processes : Started(p) <=> agentLock = p

\* Who holds a reading has the latest, and it is not published yet.
LatestIsHeld ==
  /\ published <= readings
  /\ \A p \in Processes :
       process[p].at = "holding" => process[p].reading = readings /\ published < readings

RepairInv == AgentTypes /\ LockIsWork /\ LatestIsHeld

LEMMA InitRepair == RepairInit => RepairInv
  BY RepairAssumption, SMT
  DEF RepairInit, RepairInv, AgentTypes, AgentStates, LockIsWork, LatestIsHeld, Unborn, Started, Stages

\* The changes that the actions make to the record of an agent.
LEMMA RecordChanges ==
  ASSUME NEW a \in AgentStates, NEW s \in Stages, NEW n \in Nat
  PROVE  /\ [a EXCEPT !.told = TRUE] \in AgentStates
         /\ [a EXCEPT !.at = s] \in AgentStates
         /\ [a EXCEPT !.at = s, !.reading = n] \in AgentStates
         /\ Dead \in AgentStates
  BY Zenon DEF AgentStates, Dead, Stages

\* The end of an agent that does not hold a reading's future.
LEMMA AgentEndKeeps ==
  ASSUME RepairInv, NEW p \in Processes, AgentEnds(p), UNCHANGED <<readings, published>>
  PROVE  RepairInv'
  <1> USE RepairAssumption
  <1>1. AgentTypes' BY SMT DEF RepairInv, AgentTypes, AgentStates, AgentEnds, Dead, Stages
  <1>2. LockIsWork'
    BY SMT DEF RepairInv, AgentTypes, AgentStates, LockIsWork, AgentEnds, Dead, Started
  <1>3. LatestIsHeld'
    BY SMT DEF RepairInv, AgentTypes, AgentStates, LatestIsHeld, AgentEnds, Dead
  <1>4. QED BY <1>1, <1>2, <1>3 DEF RepairInv

\* SIGTERM changes neither who works nor what is held.
LEMMA ToldKeeps ==
  ASSUME RepairInv, process' = Told, UNCHANGED <<agentLock, readings, published>>
  PROVE  RepairInv'
  <1> USE RepairAssumption
  <1>1. Told \in [Processes -> AgentStates]
    <2>1. ASSUME NEW p \in Processes
          PROVE  \/ Told[p] = [process[p] EXCEPT !.told = TRUE]
                 \/ Told[p] = Dead
                 \/ Told[p] = process[p]
      BY Zenon DEF Told
    <2>2. Told = [p \in Processes |-> Told[p]]
      BY Zenon DEF Told
    <2>3. ASSUME NEW p \in Processes PROVE Told[p] \in AgentStates
      <3>1. process[p] \in AgentStates BY Zenon DEF RepairInv, AgentTypes
      <3>2. "gone" \in Stages /\ 0 \in Nat BY SMT DEF Stages
      <3>3. QED BY <2>1, <3>1, <3>2, RecordChanges, Zenon
    <2>4. QED BY <2>2, <2>3, Zenon
  <1>2. \A p \in Processes :
          /\ Told[p].at = process[p].at \/ (process[p].at = "waiting" /\ Told[p].at = "gone")
          /\ Told[p].at = "holding" => Told[p].reading = process[p].reading
    BY SMT DEF RepairInv, AgentTypes, AgentStates, Told, Dead, Started, Stages
  <1>3. AgentTypes' BY <1>1 DEF RepairInv, AgentTypes
  <1>4. LockIsWork' BY <1>2, SMT DEF RepairInv, AgentTypes, AgentStates, LockIsWork, Started
  <1>5. LatestIsHeld' BY <1>2, SMT DEF RepairInv, AgentTypes, AgentStates, LatestIsHeld
  <1>6. QED BY <1>3, <1>4, <1>5 DEF RepairInv

LEMMA NextRepair == RepairInv /\ [RepairNext]_repairVars => RepairInv'
  <1> SUFFICES ASSUME RepairInv, [RepairNext]_repairVars PROVE RepairInv' OBVIOUS
  <1> USE RepairAssumption
  <1>1. ASSUME UNCHANGED agents PROVE RepairInv'
    BY <1>1, SMT DEF agents, RepairInv, AgentTypes, AgentStates, LockIsWork, LatestIsHeld, Started
  <1>2. ASSUME NEW r \in Repairs, NEW reached \in BOOLEAN, Kill(r, reached) PROVE RepairInv'
    <2>1. CASE reached BY <1>2, <2>1, ToldKeeps DEF Kill
    <2>2. CASE ~reached BY <1>2, <2>2, <1>1 DEF Kill, agents
    <2>3. QED BY <2>1, <2>2
  <1>3. ASSUME NEW r \in Repairs, NEW p \in Processes, LaunchAgent(r, p) PROVE RepairInv'
    BY <1>3, SMT
    DEF LaunchAgent, RepairInv, AgentTypes, AgentStates, LockIsWork, LatestIsHeld, Started, Stages
  <1>4. ASSUME NEW p \in Processes, TakeAgentLock(p) PROVE RepairInv'
    BY <1>4, SMT
    DEF TakeAgentLock, RepairInv, AgentTypes, AgentStates, LockIsWork, LatestIsHeld, Started, Stages
  <1>5. ASSUME NEW p \in Processes, LeaveToOther(p) \/ AgentStops(p) \/ Vanish(p) PROVE RepairInv'
    BY <1>5, AgentEndKeeps DEF LeaveToOther, AgentStops, Vanish
  <1>6. ASSUME NEW p \in Processes, Collect(p) PROVE RepairInv'
    <2>1. process[p] \in AgentStates /\ readings' \in Nat
      BY <1>6, SMT DEF Collect, RepairInv, AgentTypes
    <2>2. [process[p] EXCEPT !.at = "holding", !.reading = readings'] \in AgentStates
      BY <2>1, RecordChanges, Zenon DEF Stages
    <2>3. AgentTypes' BY <1>6, <2>1, <2>2, SMT DEF Collect, RepairInv, AgentTypes
    <2>4. LockIsWork' BY <1>6, SMT DEF Collect, RepairInv, AgentTypes, AgentStates, LockIsWork, Started
    <2>5. \A q \in Processes : process'[q].at = "holding" => q = p
      BY <1>6, SMT DEF Collect, RepairInv, AgentTypes, AgentStates, LockIsWork, Started
    <2>6. LatestIsHeld'
      BY <1>6, <2>5, SMT DEF Collect, RepairInv, AgentTypes, AgentStates, LatestIsHeld
    <2>7. QED BY <2>3, <2>4, <2>6 DEF RepairInv
  <1>7. ASSUME NEW p \in Processes, NEW written \in BOOLEAN, WritePayload(p, written)
        PROVE RepairInv'
    <2>1. process[p] \in AgentStates /\ 0 \in Nat BY SMT DEF RepairInv, AgentTypes
    <2>2. [process[p] EXCEPT !.at = "resting", !.reading = 0] \in AgentStates
      BY <2>1, RecordChanges, Zenon DEF Stages
    <2>3. published' \in Nat
      BY <1>7, <2>1, SMT DEF WritePayload, RepairInv, AgentTypes, AgentStates
    <2>4. AgentTypes' BY <1>7, <2>2, <2>3, SMT DEF WritePayload, RepairInv, AgentTypes
    <2>5. LockIsWork' BY <1>7, SMT DEF WritePayload, RepairInv, AgentTypes, AgentStates, LockIsWork, Started
    <2>6. \A q \in Processes : process'[q].at # "holding"
      BY <1>7, SMT DEF WritePayload, RepairInv, AgentTypes, AgentStates, LockIsWork, Started
    <2>7. LatestIsHeld'
      BY <1>7, <2>6, SMT DEF WritePayload, RepairInv, AgentTypes, AgentStates, LatestIsHeld
    <2>8. QED BY <2>4, <2>5, <2>7 DEF RepairInv
  <1>8. ASSUME NEW r \in Repairs, Ask(r) \/ (\E missing \in BOOLEAN : LaunchFails(r, missing))
        PROVE RepairInv'
    BY <1>8, <1>1 DEF Ask, LaunchFails
  <1>9. CASE Tick \/ PayloadExpires \/ UNCHANGED repairVars
    BY <1>9, <1>1 DEF Tick, PayloadExpires, repairVars
  <1>10. QED BY <1>2, <1>3, <1>4, <1>5, <1>6, <1>7, <1>8, <1>9 DEF RepairNext

\* The lock, the work and the readings of a node's agents agree in every reachable state.
THEOREM RepairInvariance == RepairSpec => []RepairInv
  BY InitRepair, NextRepair, PTL DEF RepairSpec

\* However many repairs run one over the other and however many agents they start,
\* tell to stop or fail to reach, <node>.json never goes back to an earlier reading
\* (agent.py:332).
THEOREM NeverBackwards == RepairSpec => ReadingsAdvance
  <1>1. RepairInv /\ [RepairNext]_repairVars
          => [published' = published \/ published' > published]_repairVars
    <2> SUFFICES ASSUME RepairInv, RepairNext
                 PROVE  published' = published \/ published' > published
      OBVIOUS
    <2>1. ASSUME NEW p \in Processes, NEW written \in BOOLEAN, WritePayload(p, written)
          PROVE  published' = published \/ published' > published
      BY <2>1, SMT DEF WritePayload, RepairInv, AgentTypes, AgentStates, LatestIsHeld
    <2>2. QED
      BY <2>1 DEF RepairNext, Tick, PayloadExpires, Ask, Kill, LaunchAgent, LaunchFails,
                  TakeAgentLock, LeaveToOther, Collect, AgentStops, Vanish, agents
  <1>2. QED BY <1>1, RepairInvariance, PTL DEF RepairSpec, ReadingsAdvance

-----------------------------------------------------------------------------
(* Batch scripts.                                                          *)

\* What waits for the thread, and what it holds.
Waiting == {backlog[i] : i \in DOMAIN backlog}
InHand == IF fetched = <<>> THEN {} ELSE {fetched[1]}

ScriptTypes ==
  /\ submitted \subseteq ScriptJobs /\ IsFiniteSet(submitted)
  /\ DOMAIN scriptCache = ScriptJobs
  /\ backlog \in Seq(ScriptJobs)
  /\ fetched = <<>> \/ \E j \in ScriptJobs, answer \in {Script, NoScript, Untried} : fetched = <<j, answer>>

ScriptInv == ScriptTypes /\ AskedOnce

\* What an order of jobs is: each of them once.
LEMMA OrderIsList ==
  ASSUME NEW set, IsFiniteSet(set), NEW new \in Orders(set)
  PROVE  /\ new \in Seq(set)
         /\ \A i, k \in DOMAIN new : i # k => new[i] # new[k]
  <1>1. Cardinality(set) \in Nat BY FS_CardinalityType
  <1>2. QED BY <1>1 DEF Orders

LEMMA InitScripts == ScriptsInit => ScriptInv
  BY FS_EmptySet DEF ScriptsInit, ScriptInv, ScriptTypes, AskedOnce

\* The jobs that are asked for now are not waited for yet.
LEMMA FetchKeeps == ASSUME ScriptInv, NEW new \in Orders(Missing), FetchScripts(new) PROVE ScriptInv'
  <1> USE DEF ScriptInv
  <1>1. Missing \subseteq submitted /\ submitted \subseteq ScriptJobs /\ IsFiniteSet(Missing)
    BY FS_Subset DEF Missing, ScriptTypes
  <1>2. new \in Seq(Missing) /\ \A i, k \in DOMAIN new : i # k => new[i] # new[k]
    BY <1>1, OrderIsList
  <1>3. backlog \in Seq(ScriptJobs) /\ new \in Seq(ScriptJobs) BY <1>1, <1>2 DEF ScriptTypes
  <1>4. \A i \in DOMAIN new : new[i] \in submitted /\ scriptCache[new[i]] = Untried /\ new[i] \notin inflightScripts
    BY <1>2 DEF Missing
  <1>5. /\ DOMAIN backlog = 1..Len(backlog) /\ DOMAIN new = 1..Len(new)
        /\ Len(backlog) \in Nat /\ Len(new) \in Nat
        /\ backlog' = backlog \o new
        /\ DOMAIN backlog' = 1..(Len(backlog) + Len(new))
        /\ \A i \in DOMAIN backlog' :
             backlog'[i] = IF i <= Len(backlog) THEN backlog[i] ELSE new[i - Len(backlog)]
    BY <1>3 DEF FetchScripts
  <1>6. \A i \in DOMAIN backlog' :
          \/ i \in DOMAIN backlog /\ backlog'[i] = backlog[i]
          \/ i - Len(backlog) \in DOMAIN new /\ backlog'[i] = new[i - Len(backlog)]
    BY <1>5
  <1>7. /\ \A i \in DOMAIN backlog : i \in DOMAIN backlog' /\ backlog'[i] = backlog[i]
        /\ \A i \in DOMAIN new : i + Len(backlog) \in DOMAIN backlog' /\ backlog'[i + Len(backlog)] = new[i]
    BY <1>5
  <1>8. ScriptTypes' BY <1>3 DEF ScriptTypes, FetchScripts
  <1>9. \A i \in DOMAIN backlog : backlog[i] \in inflightScripts /\ backlog[i] \in ScriptJobs
    BY <1>3 DEF AskedOnce
  <1>10. {backlog'[i] : i \in DOMAIN backlog'} = {backlog[i] : i \in DOMAIN backlog} \cup {new[i] : i \in DOMAIN new}
    BY <1>6, <1>7
  <1>11. inflightScripts' = {backlog'[i] : i \in DOMAIN backlog'} \cup (IF fetched' = <<>> THEN {} ELSE {fetched'[1]})
    BY <1>10 DEF AskedOnce, FetchScripts
  <1>12. ASSUME NEW i \in DOMAIN backlog', NEW k \in DOMAIN backlog', i # k PROVE backlog'[i] # backlog'[k]
    <2>0. \A m \in DOMAIN backlog' : IF m \in DOMAIN backlog THEN backlog'[m] \in inflightScripts
                                    ELSE backlog'[m] \notin inflightScripts
      BY <1>4, <1>6, <1>7, <1>9
    <2>1. CASE i \in DOMAIN backlog /\ k \in DOMAIN backlog BY <1>7, <1>12, <2>1 DEF AskedOnce
    <2>2. CASE i \in DOMAIN backlog /\ k \notin DOMAIN backlog BY <2>0, <2>2
    <2>3. CASE i \notin DOMAIN backlog /\ k \in DOMAIN backlog BY <2>0, <2>3
    <2>4. CASE i \notin DOMAIN backlog /\ k \notin DOMAIN backlog
      <3>1. i - Len(backlog) # k - Len(backlog) BY <1>5, <1>12
      <3>2. QED BY <1>2, <1>6, <2>4, <3>1
    <2>5. QED BY <2>1, <2>2, <2>3, <2>4
  <1>13. ASSUME NEW i \in DOMAIN backlog'
         PROVE  scriptCache'[backlog'[i]] = Untried /\ (fetched' # <<>> => fetched'[1] # backlog'[i])
    <2>1. scriptCache' = [j \in ScriptJobs |-> IF j \in submitted THEN scriptCache[j] ELSE Untried]
          /\ fetched' = fetched
      BY DEF FetchScripts
    <2>2. CASE i \in DOMAIN backlog BY <1>7, <1>9, <2>1, <2>2 DEF AskedOnce
    <2>3. CASE i \notin DOMAIN backlog
      <3>1. backlog'[i] \in submitted /\ scriptCache[backlog'[i]] = Untried /\ backlog'[i] \notin inflightScripts
        BY <1>4, <1>6, <2>3
      <3>2. QED BY <1>1, <2>1, <3>1 DEF AskedOnce
    <2>4. QED BY <2>2, <2>3
  <1>14. QED BY <1>8, <1>11, <1>12, <1>13 DEF AskedOnce

\* What the thread takes up waits no more.
LEMMA RunKeeps ==
  ASSUME ScriptInv, NEW answer \in {Script, NoScript, Untried}, RunScontrol(answer) PROVE ScriptInv'
  <1> USE DEF ScriptInv
  <1>1. backlog \in Seq(ScriptJobs) /\ backlog # <<>> BY DEF ScriptTypes, RunScontrol
  <1>2. /\ Head(backlog) = backlog[1] /\ backlog[1] \in ScriptJobs
        /\ Tail(backlog) \in Seq(ScriptJobs)
        /\ 1 \in DOMAIN backlog
        /\ \A i \in DOMAIN Tail(backlog) : i + 1 \in DOMAIN backlog /\ i + 1 # 1 /\ Tail(backlog)[i] = backlog[i + 1]
        /\ \A i \in DOMAIN backlog : i # 1 => i - 1 \in DOMAIN Tail(backlog) /\ Tail(backlog)[i - 1] = backlog[i]
        /\ \A i, k \in DOMAIN Tail(backlog) : i # k => i + 1 # k + 1
    BY <1>1
  <1>3. /\ fetched = <<>> /\ fetched' = <<backlog[1], answer>> /\ fetched' # <<>> /\ fetched'[1] = backlog[1]
        /\ backlog' = Tail(backlog) /\ UNCHANGED <<submitted, scriptCache, inflightScripts>>
    BY <1>2 DEF RunScontrol
  <1>4. ScriptTypes' BY <1>2, <1>3 DEF ScriptTypes
  <1>5. {backlog'[i] : i \in DOMAIN backlog'} \cup {backlog[1]} = {backlog[i] : i \in DOMAIN backlog}
    <2> DEFINE all == {backlog[i] : i \in DOMAIN backlog}
               rest == {Tail(backlog)[i] : i \in DOMAIN Tail(backlog)}
    <2>1. rest \cup {backlog[1]} \subseteq all BY <1>2
    <2>2. \A i \in DOMAIN backlog : backlog[i] \in rest \cup {backlog[1]} BY <1>2
    <2>3. all \subseteq rest \cup {backlog[1]} BY <2>2
    <2>4. QED BY <1>3, <2>1, <2>3
  <1>6. inflightScripts' = {backlog'[i] : i \in DOMAIN backlog'} \cup {fetched'[1]}
    BY <1>3, <1>5 DEF AskedOnce
  <1>7. \A i, k \in DOMAIN backlog' : i # k => backlog'[i] # backlog'[k]
    BY <1>2, <1>3 DEF AskedOnce
  <1>8. \A i \in DOMAIN backlog' : scriptCache'[backlog'[i]] = Untried /\ fetched'[1] # backlog'[i]
    BY <1>2, <1>3 DEF AskedOnce
  <1>9. QED BY <1>3, <1>4, <1>6, <1>7, <1>8 DEF AskedOnce

LEMMA StoreKeeps == ASSUME ScriptInv, StoreScript PROVE ScriptInv'
  <1> USE DEF ScriptInv
  <1>1. PICK j \in ScriptJobs, answer \in {Script, NoScript, Untried} : fetched = <<j, answer>>
    BY DEF StoreScript, ScriptTypes
  <1>2. /\ fetched' = <<j, Untried>> /\ fetched' # <<>> /\ fetched'[1] = j /\ fetched # <<>> /\ fetched[1] = j
        /\ scriptCache' = [scriptCache EXCEPT ![j] = answer]
        /\ UNCHANGED <<submitted, inflightScripts, backlog>>
    BY <1>1 DEF StoreScript
  <1>3. ScriptTypes' BY <1>2 DEF ScriptTypes
  <1>4. \A i \in DOMAIN backlog : backlog[i] \in ScriptJobs /\ backlog[i] # j BY <1>2 DEF ScriptTypes, AskedOnce
  <1>5. QED BY <1>2, <1>3, <1>4 DEF AskedOnce, ScriptTypes

LEMMA EndKeeps == ASSUME ScriptInv, EndFetch PROVE ScriptInv'
  <1> USE DEF ScriptInv
  <1>1. /\ fetched # <<>> /\ fetched' = <<>> /\ inflightScripts' = inflightScripts \ {fetched[1]}
        /\ UNCHANGED <<submitted, scriptCache, backlog>>
    BY DEF EndFetch, Stored
  <1>2. \A i \in DOMAIN backlog : backlog[i] # fetched[1] BY <1>1 DEF AskedOnce
  <1>3. QED BY <1>1, <1>2 DEF AskedOnce, ScriptTypes

LEMMA JobsKeep == ASSUME ScriptInv, NEW j \in ScriptJobs, SubmitJob(j) \/ JobIsDone(j) PROVE ScriptInv'
  <1>1. submitted' = submitted \cup {j} \/ submitted' = submitted \ {j} BY DEF SubmitJob, JobIsDone
  <1>2. IsFiniteSet(submitted') BY <1>1, FS_AddElement, FS_RemoveElement DEF ScriptInv, ScriptTypes
  <1>3. QED BY <1>1, <1>2 DEF SubmitJob, JobIsDone, ScriptInv, ScriptTypes, AskedOnce

LEMMA NextScripts == ScriptInv /\ [ScriptsNext]_scriptVars => ScriptInv'
  <1>1. ScriptInv /\ UNCHANGED scriptVars => ScriptInv'
    BY DEF scriptVars, ScriptInv, ScriptTypes, AskedOnce
  <1>2. QED BY <1>1, FetchKeeps, RunKeeps, StoreKeeps, EndKeeps, JobsKeep DEF ScriptsNext

\* No script is asked for twice at a time, whatever cycles fall between the steps of the
\* thread and whether jobs leave and return, and no job stays marked that nobody asks for
\* (collector.py:382, 395).
THEOREM ScriptsAskedOnce == ScriptsSpec => []AskedOnce
  <1>1. ScriptInv => AskedOnce BY DEF ScriptInv
  <1>2. QED BY <1>1, InitScripts, NextScripts, PTL DEF ScriptsSpec
================================================================================
