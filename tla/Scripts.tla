-------------------------------- MODULE Scripts --------------------------------
(***************************************************************************)
(* Sharing of batch scripts (collector.py:355-400).  A cycle forgets the   *)
(* scripts of jobs that left, asks one background thread for those it does *)
(* not have, and publishes what is there.  The thread stores an answer and *)
(* takes the job's mark away in two critical sections, as they come, so a  *)
(* cycle may run between them, and the job may have left by then.          *)
(***************************************************************************)
EXTENDS Sequences, FiniteSets, Naturals

CONSTANTS
  ScriptJobs,   \* jobs
  Untried       \* nothing is scriptCache

VARIABLES
  submitted,    \* jobs of the scheduler's list
  scriptCache,       \* _script_cache: the script, "" if it could not be read, or Untried
  inflightScripts,        \* _script_inflight
  backlog,      \* of _script_executor
  fetched,      \* what its thread holds: job and answer, or <<>>
  shownScripts         \* scripts in the last snapshot

scriptVars == <<submitted, scriptCache, inflightScripts, backlog, fetched, shownScripts>>

Script == "#!"
NoScript == ""

ScriptsInit ==
  /\ submitted = {}
  /\ scriptCache = [j \in ScriptJobs |-> Untried]
  /\ inflightScripts = {} /\ backlog = <<>> /\ fetched = <<>>
  /\ shownScripts = [j \in ScriptJobs |-> Untried]

SubmitJob(j) ==
  /\ submitted' = submitted \cup {j}
  /\ j \notin submitted
  /\ UNCHANGED <<scriptCache, inflightScripts, backlog, fetched, shownScripts>>

JobIsDone(j) ==
  /\ j \in submitted
  /\ submitted' = submitted \ {j}
  /\ UNCHANGED <<scriptCache, inflightScripts, backlog, fetched, shownScripts>>

\* Mistaken variant of Missing: what the thread is working on is asked again.
MissingScripts == {j \in submitted : scriptCache[j] = Untried}

\* _fetch_scripts, in the order of the list.  The executor gets the jobs behind the
\* lock; nobody else gives it any.
Missing == {j \in submitted : scriptCache[j] = Untried /\ j \notin inflightScripts}
FetchScripts(new) ==
  /\ scriptCache' = [j \in ScriptJobs |-> IF j \in submitted THEN scriptCache[j] ELSE Untried]
  /\ inflightScripts' = inflightScripts \cup {new[i] : i \in DOMAIN new}
  /\ shownScripts' = scriptCache'
  /\ backlog' = backlog \o new
  /\ UNCHANGED <<submitted, fetched>>

\* _fetch_one_script.  What goes wrong with the command leaves an empty script, which
\* is final while the job stays.
RunScontrol(answer) ==
  /\ fetched = <<>> /\ backlog # <<>>
  /\ fetched' = <<Head(backlog), answer>>
  /\ backlog' = Tail(backlog)
  /\ UNCHANGED <<submitted, scriptCache, inflightScripts, shownScripts>>

Stored == fetched # <<>> /\ fetched[2] = Untried

StoreScript ==
  /\ fetched # <<>> /\ ~Stored
  /\ scriptCache' = [scriptCache EXCEPT ![fetched[1]] = fetched[2]]
  /\ fetched' = [fetched EXCEPT ![2] = Untried]
  /\ UNCHANGED <<submitted, inflightScripts, backlog, shownScripts>>

EndFetch ==
  /\ Stored
  /\ inflightScripts' = inflightScripts \ {fetched[1]}
  /\ fetched' = <<>>
  /\ UNCHANGED <<submitted, scriptCache, backlog, shownScripts>>

\* The scheduler may list jobs in any order.
Orders(set) == {o \in [1..Cardinality(set) -> set] : \A x, y \in DOMAIN o : o[x] = o[y] => x = y}

ScriptsNext ==
  \/ \E j \in ScriptJobs : SubmitJob(j) \/ JobIsDone(j)
  \/ \E new \in Orders(Missing) : FetchScripts(new)
  \/ \E answer \in {Script, NoScript, Untried} : RunScontrol(answer)
  \/ StoreScript
  \/ EndFetch

ScriptsSpec == ScriptsInit /\ [][ScriptsNext]_scriptVars

-----------------------------------------------------------------------------
\* scontrol is asked for a script once, however the cycles fall between the steps of
\* the thread and whether the job leaves and returns meanwhile, and a job is marked
\* exactly as long as it is being asked for: it neither waits twice nor for ever
\* (collector.py:382, 395).
AskedOnce ==
  /\ inflightScripts = {backlog[i] : i \in DOMAIN backlog} \cup (IF fetched = <<>> THEN {} ELSE {fetched[1]})
  /\ \A i, k \in DOMAIN backlog : i # k => backlog[i] # backlog[k]
  /\ \A i \in DOMAIN backlog :
       scriptCache[backlog[i]] = Untried /\ (fetched # <<>> => fetched[1] # backlog[i])
=============================================================================
