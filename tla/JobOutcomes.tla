----------------------------- MODULE JobOutcomes ------------------------------
(***************************************************************************)
(* Alerts about jobs that left the running queue (notify.py:406-442 and    *)
(* 561-589).  Every sound snapshot is compared with the remembered jobs;   *)
(* the ones that are gone go in batches through a bounded queue to the     *)
(* outcome worker, which asks slurmdbd what became of them and posts.  A   *)
(* batch that finds the queue full is deferred: its jobs stay remembered.  *)
(*                                                                         *)
(* A job may come back under its id (a requeue), so the end of a job is a  *)
(* pair of the job and its run.  The code keeps no run number: the numbers *)
(* here only tell the properties which run a name, an elapsed time or a    *)
(* log source in the memory belongs to.                                    *)
(***************************************************************************)
EXTENDS Naturals, Sequences, FiniteSets

CONSTANTS
  Jobs,        \* the jobs of the users in job_done_users or job_fail_users
  Done,        \* those whose user is in job_done_users
  Failing,     \* those whose user is in job_fail_users
  BatchSize,   \* jobs per batch (32)
  QueueSize,   \* batches in the queue (8)
  MaxRuns      \* bound: how often each job is started

ASSUME JobsAssumption == Done \cup Failing = Jobs
ASSUME SizesAssumption == {BatchSize, QueueSize} \subseteq Nat \ {0}
ASSUME RunsAssumption == MaxRuns \in [Jobs -> Nat]

Ends == Jobs \X (Nat \ {0})
Entries == [job : Jobs, run : Nat \ {0}, source : Nat]   \* run 0: not there

VARIABLES
  running, run,      \* the scheduler: jobs running now, the latest run of each
  phase,             \* process(): "idle", "offer" or "save"
  current,           \* the runs in the snapshot
  fresh,             \* job_log_sources of the snapshot
  gone, deferred,    \* remembered jobs not in it: not offered yet, put back
  tracked, sources,  \* _jobs and _job_logs: the run each entry is about
  queue, work,       \* _outcome_queue and the worker's batch
  saved,             \* "jobs" in notify_state.json
  seen, judged, posts, lost, doubtful   \* history, sets of Ends

scheduler == <<running, run>>
locals == <<phase, current, fresh, gone, deferred>>
memory == <<tracked, sources>>
worker == <<queue, work>>
history == <<seen, judged, posts, lost, doubtful>>
vars == <<scheduler, locals, memory, worker, saved, history>>

Nothing == [j \in Jobs |-> 0]
Present(f) == {j \in Jobs : f[j] # 0}
EndsOf(f) == {<<j, f[j]>> : j \in Present(f)}
EndOf(e) == <<e.job, e.run>>

-----------------------------------------------------------------------------
(* The scheduler.                                                          *)

Start(j) ==
  /\ j \notin running
  /\ run[j] < MaxRuns[j]
  /\ running' = running \cup {j}
  /\ run' = [run EXCEPT ![j] = @ + 1]
  /\ UNCHANGED <<locals, memory, worker, saved, history>>

Leave(j) ==
  /\ j \in running
  /\ running' = running \ {j}
  /\ UNCHANGED <<run, locals, memory, worker, saved, history>>

-----------------------------------------------------------------------------
(* One cycle.                                                              *)

\* The snapshot is sound: the jobs that are not in it any more are gone.  A log
\* source is known for the jobs in known.
Diff(known) ==
  /\ phase = "idle"
  /\ phase' = "offer"
  /\ current' = [j \in Jobs |-> IF j \in running THEN run[j] ELSE 0]
  /\ fresh' = [j \in Jobs |-> IF j \in running \cap known THEN run[j] ELSE 0]
  /\ gone' = Present(tracked) \ running
  /\ deferred' = {}
  /\ seen' = seen \cup EndsOf(current')
  /\ UNCHANGED <<scheduler, memory, worker, saved, judged, posts, lost, doubtful>>

\* Mistaken variant of SkipDiff: the empty list of a failed query is compared.
DiffAnyway ==
  /\ phase = "idle"
  /\ phase' = "offer"
  /\ gone' = Present(tracked)
  /\ current' = Nothing /\ fresh' = Nothing /\ deferred' = {}
  /\ UNCHANGED <<scheduler, memory, worker, saved, history>>

\* A snapshot with errors says nothing about jobs and drops the log sources.
SkipDiff ==
  /\ phase = "idle"
  /\ phase' = "save"
  /\ sources' = Nothing
  /\ UNCHANGED <<scheduler, current, fresh, gone, deferred, tracked, worker, saved, history>>

Batch(b) == {[job |-> j, run |-> tracked[j], source |-> sources[j]] : j \in b}

\* Mistaken variant of Offer: a full queue loses the batch.
OfferOnce(b) ==
  /\ phase = "offer"
  /\ b = gone /\ b # {}
  /\ gone' = {}
  /\ queue' = IF Len(queue) < QueueSize THEN Append(queue, Batch(b)) ELSE queue
  /\ UNCHANGED <<scheduler, phase, current, fresh, deferred, memory, work, saved, history>>

\* The next at most BatchSize jobs, in the order of the memory.
Offer(b) ==
  /\ phase = "offer"
  /\ b # {}
  /\ Cardinality(b) = BatchSize \/ (b = gone /\ Cardinality(b) < BatchSize)
  /\ gone' = gone \ b
  /\ IF Len(queue) < QueueSize
     THEN queue' = Append(queue, Batch(b)) /\ deferred' = deferred
     ELSE queue' = queue /\ deferred' = deferred \cup b
  /\ UNCHANGED <<scheduler, phase, current, fresh, memory, work, saved, history>>

\* Mistaken variants of Kept: deferred jobs are forgotten, or all jobs are kept.
KeptNone(old, new) == new
KeptAll(old, new) == [j \in Jobs |-> IF new[j] = 0 THEN old[j] ELSE new[j]]

\* The memory is rebuilt from the snapshot; deferred jobs keep their entries.
Kept(old, new) == [j \in Jobs |-> IF j \in deferred THEN old[j] ELSE new[j]]

Remember ==
  /\ phase = "offer"
  /\ gone = {}
  /\ phase' = "save"
  /\ tracked' = Kept(tracked, current)
  /\ sources' = Kept(sources, fresh)
  /\ deferred' = {} /\ current' = Nothing /\ fresh' = Nothing
  /\ UNCHANGED <<scheduler, gone, worker, saved, history>>

Save ==
  /\ phase = "save"
  /\ phase' = "idle"
  /\ saved' = tracked
  /\ UNCHANGED <<scheduler, current, fresh, gone, deferred, memory, worker, history>>

SaveFails ==
  /\ phase = "save"
  /\ phase' = "idle"
  /\ UNCHANGED <<scheduler, current, fresh, gone, deferred, memory, worker, saved, history>>

-----------------------------------------------------------------------------
(* The outcome worker: _drain_outcomes().                                  *)

Take ==
  /\ work = {}
  /\ queue # <<>>
  /\ work' = Head(queue)
  /\ queue' = Tail(queue)
  /\ UNCHANGED <<scheduler, locals, memory, saved, history>>

\* Whether slurmdbd says that a job failed: a query that fails, comes too early or
\* names other rows only says nothing.
FinalStates(j) == IF j \in Failing THEN BOOLEAN ELSE {FALSE}

\* Only jobs of the job_fail users are asked about.
Tell(e, failed) ==
  /\ e \in work
  /\ failed \in FinalStates(e.job)
  /\ work' = work \ {e}
  /\ judged' = judged \cup {EndOf(e)}
  /\ posts' = IF failed \/ e.job \in Done THEN posts \cup {EndOf(e)} ELSE posts
  /\ UNCHANGED <<scheduler, locals, memory, queue, saved, seen, lost, doubtful>>

\* An exception ends the batch, not the worker.
BatchFails ==
  /\ work # {}
  /\ work' = {}
  /\ lost' = lost \cup {EndOf(e) : e \in work}
  /\ UNCHANGED <<scheduler, locals, memory, queue, saved, seen, judged, posts, doubtful>>

-----------------------------------------------------------------------------
(* The process dies, or is stopped, and another one starts.                *)

InQueue == UNION {queue[i] : i \in DOMAIN queue}

Restart ==
  /\ phase' = "idle"
  /\ current' = Nothing /\ fresh' = Nothing /\ gone' = {} /\ deferred' = {}
  /\ tracked' = saved
  /\ sources' = Nothing
  /\ queue' = <<>> /\ work' = {}
  /\ lost' = lost \cup (seen \ (judged \cup EndsOf(saved)))
  /\ doubtful' = EndsOf(saved)
  /\ UNCHANGED <<scheduler, saved, seen, judged, posts>>

Init ==
  /\ running = {} /\ run = Nothing
  /\ phase = "idle" /\ current = Nothing /\ fresh = Nothing /\ gone = {} /\ deferred = {}
  /\ tracked = Nothing /\ sources = Nothing
  /\ queue = <<>> /\ work = {}
  /\ saved = Nothing
  /\ seen = {} /\ judged = {} /\ posts = {} /\ lost = {} /\ doubtful = {}

Process ==
  \/ \E known \in SUBSET Jobs : Diff(known)
  \/ SkipDiff
  \/ \E b \in SUBSET gone : Offer(b)
  \/ Remember
  \/ Save
  \/ SaveFails

Worker ==
  \/ Take
  \/ \E e \in work, failed \in BOOLEAN : Tell(e, failed)

Scheduler == \E j \in Jobs : Start(j) \/ Leave(j)

Next == Scheduler \/ Process \/ Worker \/ BatchFails \/ Restart

\* The main loop runs cycles for ever and the worker thread is never stopped.
Spec == Init /\ [][Next]_vars /\ WF_vars(Process) /\ WF_vars(Worker)

-----------------------------------------------------------------------------
(* Properties.                                                             *)

TypeOK ==
  /\ running \subseteq Jobs
  /\ phase \in {"idle", "offer", "save"}
  /\ {run, current, fresh, tracked, sources, saved} \subseteq [Jobs -> Nat]
  /\ gone \subseteq Jobs /\ deferred \subseteq Jobs
  /\ queue \in Seq(SUBSET Entries) /\ Len(queue) <= QueueSize
  /\ work \subseteq Entries
  /\ {seen, judged, posts, lost, doubtful} \subseteq SUBSET Ends

Held == {EndOf(e) : e \in InQueue \cup work}

\* No end of a job is dropped on the way: a run the notifier has seen is still
\* remembered, or with the worker, or was judged, unless the process or the
\* batch died with it or the job came back first (notify.py:419-439: a full
\* queue defers a batch).
NoEndIsDropped ==
  \A s \in seen :
    \/ s[2] \in {tracked[s[1]], current[s[1]]}
    \/ \E t \in seen : t[1] = s[1] /\ t[2] > s[2]
    \/ s \in Held \cup judged \cup lost

\* Nobody is told twice of one end: what the worker still has to judge was not
\* judged before, and is not remembered as running, except what an interrupted
\* cycle had not saved (notify.py:35, 437-439).
NoEndIsRepeated ==
  \A s \in Held \ doubtful :
    /\ s \notin judged
    /\ phase # "offer" => tracked[s[1]] # s[2]

\* A job is declared gone only when that run of it has ended, whatever failed
\* answers of the scheduler came between (notify.py:406-409).
OnlyEndsAreReported ==
  \A s \in Held \cup judged : run[s[1]] > s[2] \/ s[1] \notin running

\* The log tail sent to the owner comes from the path of that very run: no log
\* source outlives the run it was read for (notify.py:438, 591).
TailOfTheRun == \A e \in InQueue \cup work : e.source \in {0, e.run}

\* No process or batch dies from some time on, and sound snapshots keep coming.
Undisturbed == <>[][~Restart /\ ~BatchFails]_vars
SoundSnapshots == []<><<\E known \in SUBSET Jobs : Diff(known)>>_vars

\* The end of a job of a job_done user is announced, however often its batch is
\* deferred, unless the job comes back (docs/ALERTS.md:89).
DoneIsAnnounced ==
  Undisturbed /\ SoundSnapshots =>
    \A s \in UNION {{j} \X (1..MaxRuns[j]) : j \in Done} :
      s \in seen /\ s[1] \notin running ~> s \in posts \cup lost \/ run[s[1]] > s[2]
=============================================================================
