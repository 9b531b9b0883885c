-------------------------------- MODULE StateMC --------------------------------
(***************************************************************************)
(* Small instances of the components that keep state over many cycles and  *)
(* restarts.  They share no variable, so that checking one at a time is    *)
(* enough: "part" is the one that moves, the others stay as they start.    *)
(***************************************************************************)
EXTENDS Waste, Ledger, DailyThread, Daemon, Agent, Refresh, Durable, AgentRepair, LogView,
        Masters, Scripts

CONSTANTS a, b, d1, d2, d3, s1, s2, x, y, g1, g2, g3, r1, r2, l1, l2

VARIABLE part

Parts == {"waste", "ledger", "thread", "daemon", "agent", "refresh", "durable", "repair", "logs",
          "masters", "scripts"}

\* The owner of a job, another user, and one who may read half of it.
OwnMirrorMixed == {Streams \X {"own"}, Streams \X {"mirror"}, {<<"out", "own">>, <<"err", "mirror">>}}

Others(moving) ==
  /\ UNCHANGED part
  /\ moving # "waste" => UNCHANGED wasteVars
  /\ moving # "ledger" => UNCHANGED ledgerVars
  /\ moving # "thread" => UNCHANGED threadVars
  /\ moving # "daemon" => UNCHANGED daemonVars
  /\ moving # "agent" => UNCHANGED agentVars
  /\ moving # "refresh" => UNCHANGED refreshVars
  /\ moving # "durable" => UNCHANGED durableVars
  /\ moving # "repair" => UNCHANGED repairVars
  /\ moving # "logs" => UNCHANGED logViewVars
  /\ moving # "masters" => UNCHANGED mastersVars
  /\ moving # "scripts" => UNCHANGED scriptVars

StateInit ==
  /\ part \in Parts
  /\ WasteInit /\ LedgerInit /\ ThreadInit /\ DaemonInit /\ AgentInit /\ RefreshInit
  /\ DurableInit /\ RepairInit /\ LogViewInit /\ MastersInit /\ ScriptsInit
  /\ part # "masters" => uptime = 0
  /\ part # "agent" => numbers = [c \in Boards |-> c - 1]

StateNext ==
  \/ part = "waste" /\ WasteNext /\ Others(part)
  \/ part = "ledger" /\ LedgerNext /\ Others(part)
  \/ part = "thread" /\ ThreadNext /\ Others(part)
  \/ part = "daemon" /\ DaemonNext /\ Others(part)
  \/ part = "agent" /\ AgentNext /\ Others(part)
  \/ part = "refresh" /\ RefreshNext /\ Others(part)
  \/ part = "durable" /\ DurableNext /\ Others(part)
  \/ part = "repair" /\ RepairNext /\ Others(part)
  \/ part = "logs" /\ LogViewNext /\ Others(part)
  \/ part = "masters" /\ MastersNext /\ Others(part)
  \/ part = "scripts" /\ ScriptsNext /\ Others(part)

stateVars == <<wasteVars, ledgerVars, threadVars, daemonVars, agentVars, refreshVars,
               durableVars, repairVars, logViewVars, mastersVars, scriptVars>>
StateSpec == StateInit /\ [][StateNext]_<<part, stateVars>>
=============================================================================
