-------------------------------- MODULE Records -------------------------------
(***************************************************************************)
(* What a scheduler's answers say about GPUs (common.py:507-566,           *)
(* 825-1071, 1084-1311): the rows of squeue, the structured records of     *)
(* "scontrol --json", and the text records of an old scontrol, which are   *)
(* believed only between two equal queue snapshots.                        *)
(*                                                                         *)
(* The scheduler itself is the state machine; the parsers are operators    *)
(* on what it prints.  A user with a numeric id is one value, a path or a  *)
(* display field is left out, and a job whose text record cannot be read   *)
(* in one way only is a member of Unclear.                                 *)
(***************************************************************************)
EXTENDS Naturals, FiniteSets

CONSTANTS
  QJobs,     \* job numbers
  Arrays,    \* those that are array tasks and have a second, printed id
  Unclear,   \* those whose text record is ambiguous (blanks in a path, odd owner)
  Owner,     \* the user of each job
  Gpus       \* pairs of a node and a GRES index

ASSUME QueueAssumption == Arrays \subseteq QJobs /\ Unclear \subseteq QJobs

VARIABLE cluster   \* the scheduler's record of each job

NodeOf(gpu) == gpu[1]
GpuNodes == {NodeOf(g) : g \in Gpus}
Holding == {"RUNNING", "COMPLETING"}
Queued == Holding \cup {"PENDING"}

Gone == [state |-> "GONE", nodes |-> {}, gpus |-> {}]
In(c, states) == {j \in QJobs : c[j].state \in states}
Taken == UNION {cluster[j].gpus : j \in In(cluster, Holding)}
Becomes(j, record) == cluster' = [cluster EXCEPT ![j] = record]

JobSubmit(j) == cluster[j].state = "GONE" /\ Becomes(j, [Gone EXCEPT !.state = "PENDING"])
\* A job may hold nodes without their GPUs.
JobStart(j, nodes, gpus) ==
  /\ cluster[j].state = "PENDING" /\ nodes # {}
  /\ gpus \cap Taken = {} /\ {NodeOf(g) : g \in gpus} \subseteq nodes
  /\ Becomes(j, [state |-> "RUNNING", nodes |-> nodes, gpus |-> gpus])
JobCompletes(j) ==
  /\ cluster[j].state = "RUNNING"
  /\ Becomes(j, [cluster[j] EXCEPT !.state = "COMPLETING"])
\* For a while scontrol still prints a job that left the queue.
JobEnds(j) ==
  /\ cluster[j].state = "COMPLETING"
  /\ Becomes(j, [cluster[j] EXCEPT !.state = "COMPLETED"])
JobRequeue(j) ==
  /\ cluster[j].state \in {"COMPLETING", "COMPLETED"}
  /\ Becomes(j, [Gone EXCEPT !.state = "PENDING"])
JobForgotten(j) == cluster[j].state = "COMPLETED" /\ Becomes(j, Gone)

-----------------------------------------------------------------------------
(* squeue: _parse_queue_output.                                            *)

Printed(j) == IF j \in Arrays THEN <<j, "task">> ELSE <<j>>
\* _job_record_ids, _json_job_ids: the number, and the printed id of a task.
Ids(j) == {<<j>>, Printed(j)}

\* Who has a queued job, its state and where it runs; a pending one is nowhere.
Anchor(record, j) == [owner |-> Owner[j], state |-> record.state, nodes |-> record.nodes]
Anchors(c) ==
  [id \in {Printed(j) : j \in In(c, Queued)} |->
     LET j == CHOOSE k \in In(c, Queued) : Printed(k) = id IN Anchor(c[j], j)]

-----------------------------------------------------------------------------
(* parse_job_json.                                                         *)

JsonAlloc(c) == UNION {c[j].gpus \X {j} : j \in In(c, Holding)}
JsonIds(c) == UNION {Ids(j) : j \in QJobs \ In(c, {"GONE"})}

-----------------------------------------------------------------------------
(* _parse_legacy_jobs.                                                     *)

\* A printed record.  "place" tells equal ones apart; "covered" are the nodes of
\* its resource segments.
Line(c, j) ==
  [place |-> j, raw |-> j, ids |-> Ids(j), anchor |-> Anchor(c[j], j),
   covered |-> c[j].nodes, gpus |-> c[j].gpus, clear |-> j \notin Unclear]
Text(c) == {Line(c, j) : j \in QJobs \ In(c, {"GONE"})}

Claimants(text, id) == {l \in text : id \in l.ids}
Stable(before, after) == {id \in DOMAIN before \cap DOMAIN after : before[id] = after[id]}

\* Mistaken variant of Accepted: the record alone says who has the job.
AcceptedUnanchored(text, before, after) == {l \in text : l.clear}
\* One record for each of its ids, and the same owner, state and placement in it
\* and in both queue snapshots.
Accepted(text, before, after) ==
  {l \in text :
     /\ \A id \in l.ids : Claimants(text, id) = {l}
     /\ \E id \in l.ids : id \in Stable(before, after)
     /\ \A id \in l.ids \cap Stable(before, after) : before[id] = l.anchor
     /\ l.clear}

\* Mistaken variant of Claims: only running jobs have GPUs.
ClaimsRunning(l) == IF l.anchor.state = "RUNNING" THEN l.gpus ELSE {}
\* The segments must cover the placement, or there are none.
Claims(l) ==
  IF l.anchor.state \in Holding /\ l.covered = l.anchor.nodes THEN l.gpus ELSE {}

\* A GPU that two records claim belongs to nobody.
LegacyAlloc(text, before, after) ==
  LET claims == {c \in Gpus \X Accepted(text, before, after) : c[1] \in Claims(c[2])}
      lone == {c \in claims : \A d \in claims : d[1] = c[1] => d = c}
  IN {<<c[1], c[2].raw>> : c \in lone}
LegacyIds(text, before, after) == UNION {l.ids : l \in Accepted(text, before, after)}

-----------------------------------------------------------------------------
QueueInit == cluster = [j \in QJobs |-> Gone]

QueueNext ==
  \E j \in QJobs :
     \/ JobSubmit(j)
     \/ \E nodes \in SUBSET GpuNodes, gpus \in SUBSET Gpus : JobStart(j, nodes, gpus)
     \/ JobCompletes(j)
     \/ JobEnds(j)
     \/ JobRequeue(j)
     \/ JobForgotten(j)

QueueSpec == QueueInit /\ [][QueueNext]_cluster

-----------------------------------------------------------------------------
\* An old scheduler and a new one are reported alike: between two equal queue
\* snapshots the text gives the GPUs and the identities of queued jobs that the
\* structured records give, but for jobs whose text is ambiguous (common.py:1181).
BackendsAgree ==
  LET a == Anchors(cluster)
      clear == QJobs \ Unclear IN
  /\ LegacyAlloc(Text(cluster), a, a) = {p \in JsonAlloc(cluster) : p[2] \in clear}
  /\ LegacyIds(Text(cluster), a, a)
       = JsonIds(cluster) \cap UNION {Ids(j) : j \in clear \cap In(cluster, Queued)}
=============================================================================
