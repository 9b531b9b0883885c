--------------------------------- MODULE Daemon --------------------------------
(***************************************************************************)
(* The life of collectors (collector.py:2047-2054, 2110-2285): a lock that *)
(* one of them holds, a file with its process id, signals, and the         *)
(* commands that stop a collector or ask for it.                           *)
(*                                                                         *)
(* A process is started once, and its id is not used again.  The kernel    *)
(* releases the lock when the process ends, however it does.               *)
(***************************************************************************)
CONSTANTS
  Collectors,    \* processes
  NoCollector    \* nobody, no file

ASSUME DaemonAssumption == NoCollector \notin Collectors

VARIABLES
  phase,      \* where each process is
  ending,     \* processes that were told to stop: ~_running
  lockedBy,   \* who holds LOCK_FILE
  pidFile,    \* what PID_FILE holds
  command,    \* what each command is doing, and the id it read
  meddled     \* history: processes whose file a command removed

daemonVars == <<phase, ending, lockedBy, pidFile, command, meddled>>

Commands == {"stop", "status"}
Phases == {"new", "locking", "naming", "preparing", "looping", "leaving", "gone"}
InCharge == {"naming", "preparing", "looping", "leaving"}
Ready == [read |-> FALSE, pid |-> NoCollector]
Moves(p, to) == phase' = [phase EXCEPT ![p] = to]
Alive(p) == phase[p] \notin {"new", "gone"}
\* The process ends.
Ends(p) == Moves(p, "gone") /\ lockedBy' = IF lockedBy = p THEN NoCollector ELSE lockedBy

-----------------------------------------------------------------------------
(* run_collector.                                                          *)

\* Mistaken variant of Launch: a process names itself before it has the lock.
LaunchNamed(p) ==
  /\ phase[p] = "new"
  /\ Moves(p, "locking") /\ pidFile' = p
  /\ UNCHANGED <<ending, lockedBy, command, meddled>>
Launch(p) ==
  /\ phase[p] = "new"
  /\ Moves(p, "locking")
  /\ UNCHANGED <<ending, lockedBy, pidFile, command, meddled>>

TakeLock(p) ==
  /\ phase[p] = "locking" /\ lockedBy = NoCollector
  /\ lockedBy' = p /\ Moves(p, "naming")
  /\ UNCHANGED <<ending, pidFile, command, meddled>>

\* Ten seconds without the lock.
GiveUp(p) ==
  /\ phase[p] = "locking" /\ lockedBy # NoCollector
  /\ Ends(p)
  /\ UNCHANGED <<ending, pidFile, command, meddled>>

NameItself(p) ==
  /\ phase[p] = "naming"
  /\ pidFile' = p
  /\ Moves(p, "preparing")
  /\ UNCHANGED <<ending, lockedBy, command, meddled>>

\* Directories, files, the notifier, then the handlers of signals.
Prepare(p) ==
  /\ phase[p] = "preparing"
  /\ Moves(p, "looping")
  /\ UNCHANGED <<ending, lockedBy, pidFile, command, meddled>>

\* After the loop the usage is saved and the file removed; an error in the first leaves
\* the second out.
Leave(p, saved) ==
  /\ phase[p] = "looping" /\ p \in ending
  /\ Moves(p, "leaving")
  /\ pidFile' = IF saved THEN NoCollector ELSE pidFile
  /\ UNCHANGED <<ending, lockedBy, command, meddled>>

\* A process is at its end, cannot prepare a directory, or is killed.
Exit(p) ==
  /\ Alive(p)
  /\ Ends(p)
  /\ UNCHANGED <<ending, pidFile, command, meddled>>

-----------------------------------------------------------------------------
(* stop_daemon and check_status: read the file, look for the process, and  *)
(* remove the file if there is none.                                       *)

ReadPid(c) ==
  /\ ~command[c].read
  /\ command' = [command EXCEPT ![c] = [read |-> TRUE, pid |-> pidFile]]
  /\ UNCHANGED <<phase, ending, lockedBy, pidFile, meddled>>

Done(c) == command' = [command EXCEPT ![c] = Ready]

\* SIGTERM: a process without its handlers dies of it.
Signal(c) ==
  LET p == command[c].pid IN
  /\ command[c].read /\ p # NoCollector /\ Alive(p)
  /\ Done(c)
  /\ IF c = "stop" /\ phase[p] \in {"looping", "leaving"}
     THEN ending' = ending \cup {p} /\ UNCHANGED <<phase, lockedBy>>
     ELSE IF c = "stop" THEN Ends(p) /\ UNCHANGED ending
     ELSE UNCHANGED <<phase, ending, lockedBy>>
  /\ UNCHANGED <<pidFile, meddled>>

\* The file is removed whoever has written it since it was read.
RemovePid(c) ==
  /\ command[c].read
  /\ IF command[c].pid = NoCollector THEN c = "stop" ELSE ~Alive(command[c].pid)
  /\ Done(c)
  /\ pidFile' = NoCollector
  /\ meddled' = meddled \cup ({pidFile} \ {NoCollector})
  /\ UNCHANGED <<phase, ending, lockedBy>>

NotRunning(c) ==
  /\ command[c].read /\ command[c].pid = NoCollector /\ c = "status"
  /\ Done(c)
  /\ UNCHANGED <<phase, ending, lockedBy, pidFile, meddled>>

-----------------------------------------------------------------------------
DaemonInit ==
  /\ phase = [p \in Collectors |-> "new"]
  /\ ending = {} /\ lockedBy = NoCollector /\ pidFile = NoCollector
  /\ command = [c \in Commands |-> Ready]
  /\ meddled = {}

DaemonNext ==
  \/ \E p \in Collectors :
       \/ Launch(p)
       \/ TakeLock(p)
       \/ GiveUp(p)
       \/ NameItself(p)
       \/ Prepare(p)
       \/ \E saved \in BOOLEAN : Leave(p, saved)
       \/ Exit(p)
  \/ \E c \in Commands : ReadPid(c) \/ Signal(c) \/ RemovePid(c) \/ NotRunning(c)

DaemonSpec == DaemonInit /\ [][DaemonNext]_daemonVars

-----------------------------------------------------------------------------
\* One collector at a time writes data.json, and while it runs its file names it, over
\* restarts that overlap, deaths, and errors while it stops; only a command that read
\* the file of an earlier one can have taken it away (collector.py:2133, 2141, 2200).
OneCollector ==
  /\ \A p, q \in Collectors : {phase[p], phase[q]} \subseteq InCharge => p = q
  /\ \A p \in Collectors : phase[p] \in {"preparing", "looping"} => pidFile = p \/ p \in meddled
=============================================================================
