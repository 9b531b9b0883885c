-------------------------------- MODULE Sampler -------------------------------
(***************************************************************************)
(* The scheduler's answers between the thread that asks and the cycle that *)
(* shows them (collector.py:109-149; common.py:1401-1549, 1787-1846): one  *)
(* generation of queries at a time, one backend for the details of jobs,   *)
(* and an age after which nobody is named any more.                        *)
(*                                                                         *)
(* Queries fail at any time, by time-out or with an error.  The memory     *)
(* query and the node list count only as parts that may fail.              *)
(***************************************************************************)
EXTENDS Naturals

CONSTANTS
  SJobs, SArrays, SOwner, SGpus,  \* the scheduler's, as in Records
  SchedulerMaxAge,                \* SCHEDULER_MAX_AGE
  NotYet, Failed, Unsupported     \* no answer yet, an error, a refusal of --json

ASSUME SamplerAgeAssumption == SchedulerMaxAge \in Nat

VARIABLES
  queue, modern,     \* the scheduler: its records, whether it knows --json
  backend,           \* _job_query_backend
  future,            \* the generation: "none", "running" or "done"
  asked,             \* its age, from started_at
  before, json, text, \* its answers so far
  result,            \* what it returned
  snapshot, seen,    \* SchedulerSampler.snapshot, and the age of its observed_at
  wrong, resting,    \* error, and whether next_poll is still to come
  lost               \* history: how long ago each job had each GPU

Slurm == INSTANCE Records WITH
  QJobs <- SJobs, Arrays <- SArrays, Unclear <- {}, Owner <- SOwner, Gpus <- SGpus,
  cluster <- queue

scheduler == <<queue, modern>>
answers == <<before, json, text>>
generation == <<future, asked, answers, result>>
shownState == <<snapshot, seen, wrong, resting>>
samplerVars == <<scheduler, backend, generation, shownState, lost>>

Aged(age) == IF age <= SchedulerMaxAge THEN age + 1 ELSE age
Good(alloc) == [error |-> FALSE, alloc |-> alloc]
Bad == [error |-> TRUE, alloc |-> {}]

-----------------------------------------------------------------------------
(* The scheduler and time.                                                 *)

\* How long ago each job had each GPU, if those in "held" are had now.
Lost(held, age(_)) ==
  [p \in SGpus \X SJobs |-> IF p \in held THEN 0 ELSE age(lost[p])]
Same(age) == age

QueueMoves ==
  /\ Slurm!QueueNext
  /\ lost' = Lost(Slurm!JsonAlloc(queue) \cup Slurm!JsonAlloc(queue'), Same)
  /\ UNCHANGED <<modern, backend, generation, shownState>>

Upgrade ==
  /\ modern' = ~modern
  /\ UNCHANGED <<queue, backend, generation, shownState, lost>>

SamplerTick ==
  /\ asked' = Aged(asked) /\ seen' = Aged(seen)
  /\ lost' = Lost(Slurm!JsonAlloc(queue), Aged)
  /\ resting' = FALSE
  /\ UNCHANGED <<scheduler, backend, future, answers, result, snapshot, wrong>>

-----------------------------------------------------------------------------
(* A generation: collect_basic with _collect_scheduler_jobs.               *)

Asking == future = "running" /\ result = NotYet

\* The queue and the structured records are read at the same time.
QueueAnswers(ok) ==
  /\ Asking /\ before = NotYet
  /\ before' = IF ok THEN Slurm!Anchors(queue) ELSE Failed
  /\ UNCHANGED <<scheduler, backend, future, asked, json, text, result, shownState, lost>>

JsonAnswers(ok) ==
  /\ Asking /\ backend # "legacy-text" /\ json = NotYet
  /\ json' = IF ~ok THEN Failed
             ELSE IF modern THEN Good(Slurm!JsonAlloc(queue)) ELSE Unsupported
  /\ UNCHANGED <<scheduler, backend, future, asked, before, text, result, shownState, lost>>

Refused == json = Unsupported

\* Without the queue nothing counts; a failure other than a refusal stays one.
Judge ==
  /\ Asking /\ before # NotYet /\ json # NotYet
  /\ \/ /\ before = Failed \/ json = Failed
        /\ result' = Bad /\ UNCHANGED backend
     \/ /\ before # Failed /\ json # Failed /\ ~Refused
        /\ result' = json /\ backend' = "structured-json"
     \/ /\ before # Failed /\ Refused
        /\ backend' = "legacy-text" /\ UNCHANGED result
  /\ UNCHANGED <<scheduler, future, asked, answers, shownState, lost>>

\* The text is asked for after one queue snapshot and judged after another.
TextAnswers(ok) ==
  /\ Asking /\ backend = "legacy-text" /\ before \notin {NotYet, Failed} /\ text = NotYet
  /\ json = NotYet \/ Refused
  /\ IF ok THEN text' = Slurm!Text(queue) /\ UNCHANGED result
     ELSE result' = Bad /\ UNCHANGED text
  /\ UNCHANGED <<scheduler, backend, future, asked, before, json, shownState, lost>>

LegacyFails ==
  /\ Asking /\ backend = "legacy-text" /\ before = Failed
  /\ result' = Bad
  /\ UNCHANGED <<scheduler, backend, future, asked, answers, shownState, lost>>

AfterAnswers(ok) ==
  /\ Asking /\ text # NotYet
  /\ result' = IF ok THEN Good(Slurm!LegacyAlloc(text, before, Slurm!Anchors(queue))) ELSE Bad
  /\ UNCHANGED <<scheduler, backend, future, asked, answers, shownState, lost>>

\* The node list or the memory query may have failed as well.
Return(ok) ==
  /\ future = "running" /\ result # NotYet
  /\ future' = "done"
  /\ result' = [result EXCEPT !.error = @ \/ ~ok]
  /\ UNCHANGED <<scheduler, backend, asked, answers, shownState, lost>>

-----------------------------------------------------------------------------
(* SchedulerSampler.read.                                                  *)

\* Mistaken variant of ObservedAt: the answer is as old as its last query.
ObservedAtEnd == 0
ObservedAt == asked

\* The first result is kept whatever it is, a later one only if it is good.
Adopt ==
  /\ future = "done"
  /\ wrong' = result.error
  /\ IF ~result.error \/ snapshot = NotYet
     THEN snapshot' = result /\ seen' = ObservedAt
     ELSE UNCHANGED <<snapshot, seen>>
  /\ future' = "none" /\ resting' = TRUE
  /\ asked' = 0 /\ before' = NotYet /\ json' = NotYet /\ text' = NotYet /\ result' = NotYet
  /\ UNCHANGED <<scheduler, backend, lost>>

Poll ==
  /\ future = "none" /\ ~resting
  /\ future' = "running" /\ asked' = 0
  /\ UNCHANGED <<scheduler, backend, answers, result, shownState, lost>>

Alloc == IF snapshot = NotYet \/ wrong \/ seen > SchedulerMaxAge THEN {} ELSE snapshot.alloc

-----------------------------------------------------------------------------
SamplerInit ==
  /\ queue = [j \in SJobs |-> Slurm!Gone] /\ modern \in BOOLEAN
  /\ backend = "auto"
  /\ future = "none" /\ asked = 0
  /\ before = NotYet /\ json = NotYet /\ text = NotYet /\ result = NotYet
  /\ snapshot = NotYet /\ seen = 0 /\ wrong = FALSE /\ resting = FALSE
  /\ lost = [p \in SGpus \X SJobs |-> SchedulerMaxAge + 1]

SamplerNext ==
  \/ QueueMoves
  \/ Upgrade
  \/ SamplerTick
  \/ \E ok \in BOOLEAN : QueueAnswers(ok)
  \/ \E ok \in BOOLEAN : JsonAnswers(ok)
  \/ Judge
  \/ \E ok \in BOOLEAN : TextAnswers(ok)
  \/ LegacyFails
  \/ \E ok \in BOOLEAN : AfterAnswers(ok)
  \/ \E ok \in BOOLEAN : Return(ok)
  \/ Adopt
  \/ Poll

SamplerSpec == SamplerInit /\ [][SamplerNext]_samplerVars

-----------------------------------------------------------------------------
\* A GPU is shown as a job's only if the job had it within SCHEDULER_MAX_AGE, however
\* long the queries took and whichever failed (collector.py:137).
AllocIsRecent == \A p \in Alloc : lost[p] <= SchedulerMaxAge

\* What the text of an old scheduler gives a job lies on nodes that the job held before
\* the text was asked for and holds now, in the same state, whatever ended, was requeued
\* or moved in between (common.py:1215-1219, 1471-1484).
AllocIsAnchored ==
  [][AfterAnswers(TRUE) =>
       \A p \in result'.alloc :
         LET job == queue[p[2]]
             id == Slurm!Printed(p[2]) IN
         /\ job.state \in Slurm!Holding /\ Slurm!NodeOf(p[1]) \in job.nodes
         /\ id \in DOMAIN before /\ before[id] = Slurm!Anchor(job, p[2])]_samplerVars

\* Both: what is shown of a card was so lately, and the text of an old scheduler is only
\* believed between two listings that agree with it (collector.py:137; common.py:1181).
AllocIsSound == []AllocIsRecent /\ AllocIsAnchored
=============================================================================
