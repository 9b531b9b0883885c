------------------------------- MODULE Polling --------------------------------
(***************************************************************************)
(* What the collector knows of each node (collector.py:90-106, 1004-1350,  *)
(* 1389-1536).  A cycle walks the scheduler's roster from a rotating       *)
(* start: a node whose agent left a fresh payload is read from its file, a *)
(* node that is due gets an SSH poll in a bounded pool.  Polls answer at   *)
(* any time, in the middle of a cycle or after the node left the roster;   *)
(* nodes that miss two rosters are forgotten.  Then every row is published.*)
(*                                                                         *)
(* Time is a count of ticks, and a time stamp is its age, up to the age    *)
(* where the code stops telling ages apart.  The payload cache of the code *)
(* is keyed by the file's mtime and so invisible here: what a file says is *)
(* settled when it is written.                                             *)
(***************************************************************************)
EXTENDS Integers, Sequences, FiniteSets

CONSTANTS
  Order,        \* the nodes as sinfo lists them
  GpuNodes,     \* those with GPUs: their rows are drawn even without data
  AgentNodes,   \* those where an agent may run
  Steady,       \* those that never leave the roster
  Drained,      \* those that Slurm calls down or drained
  MaxPending,   \* polls in flight (MAX_PENDING_POLLS)
  FreshAge,     \* age at which an agent payload expires (45 s)
  Hot, Cold, Down,  \* poll intervals (5, 20 and 60 s)
  PollTime      \* what a poll may take (NODE_TIMEOUT)

Nodes == {Order[i] : i \in DOMAIN Order}

ASSUME OrderAssumption ==
  /\ Order \in Seq(Nodes)
  /\ \A i, j \in DOMAIN Order : Order[i] = Order[j] => i = j
ASSUME KindsAssumption == GpuNodes \cup AgentNodes \cup Steady \cup Drained \subseteq Nodes
ASSUME PendingAssumption == MaxPending \in Nat \ {0}
ASSUME TimesAssumption ==
  /\ {FreshAge, Hot, Cold, Down, PollTime} \subseteq Nat \ {0}
  /\ Hot <= Cold /\ Cold <= Down

VARIABLES
  file,      \* AGENT_DIR/<node>.json: the age of an acceptable payload
  result,    \* _node_results
  poll,      \* _node_poll_state
  inflight,  \* _inflight
  threads,   \* how many polls of a node are really running
  absent,    \* _node_absent_cycles
  cursor,    \* _poll_cursor
  roster,    \* nodes of the latest cycle
  start, visit   \* the walk: where it began, how far it got (0: between cycles)

nodeState == <<result, poll, inflight, threads>>
walk == <<roster, start, visit>>
vars == <<file, nodeState, absent, cursor, walk>>

Nothing == [kind |-> "none", stale |-> FALSE, age |-> 0]
Failed == [kind |-> "error", stale |-> FALSE, age |-> 0]
Good(age) == [kind |-> "good", stale |-> FALSE, age |-> age]

\* An absent entry of _node_poll_state counts as one that was never polled.
Unpolled == [age |-> Down, interval |-> Hot, failures |-> 0]

Lower(a, b) == IF a <= b THEN a ELSE b
Higher(a, b) == IF a <= b THEN b ELSE a

\* Ages above this are all the same to the code.
Old == Higher(FreshAge, PollTime + Down) + 1

\* _update_poll_state.  A node that is down keeps its count of failures.
BackOff(failures) == Lower(Down, Hot * 2 ^ failures)
Polled(n, ok, cold) ==
  LET f == poll[n].failures IN
  IF n \in Drained THEN [age |-> 0, interval |-> Down, failures |-> f]
  ELSE IF ~ok THEN [age |-> 0, interval |-> BackOff(f + 1),
                    failures |-> IF BackOff(f) = Down THEN f ELSE f + 1]
  ELSE [age |-> 0, interval |-> IF cold THEN Cold ELSE Hot, failures |-> 0]

Acceptable(n) == file[n] <= FreshAge
Due(n) == poll[n].age >= poll[n].interval
Busy(n) == n \in inflight \/ Cardinality(inflight) >= MaxPending

Listed == SelectSeq(Order, LAMBDA n : n \in roster)
Visited == Listed[((start + visit - 1) % Len(Listed)) + 1]
Walking == visit # 0 /\ visit <= Len(Listed)

-----------------------------------------------------------------------------
(* Surroundings: time, agents.                                             *)

Aged(age, limit) == Lower(age + 1, limit)

Tick ==
  /\ visit = 0
  /\ file' = [n \in Nodes |-> Aged(file[n], FreshAge + 1)]
  /\ poll' = [n \in Nodes |-> [poll[n] EXCEPT !.age = Aged(@, Down)]]
  /\ result' = [n \in Nodes |-> IF result[n].kind = "good"
                                THEN [result[n] EXCEPT !.age = Aged(@, Old)] ELSE result[n]]
  /\ UNCHANGED <<inflight, threads, absent, cursor, walk>>

\* What may be found under a node's name: its author, whether it is a payload of that
\* node at all, for which kind of node, in which format and from which code.
Contents ==
  [author : {"root", "collector", "nobody", "owner of AGENT_DIR", "anybody"},
   sound : BOOLEAN, kind : {"gpu", "cpu"}, version : {"ours", "old"}, build : {"ours", "old"}]

\* trusted_payload_uids, where the site did not name others.
TrustedAuthors == {"root", "collector", "nobody", "owner of AGENT_DIR"}

Kind(n) == IF n \in GpuNodes THEN "gpu" ELSE "cpu"
Valid(n, payload) == payload.sound /\ payload.kind = Kind(n)
UpToDate(payload) == payload.version = "ours" /\ payload.build = "ours"
Accepted(n, payload) ==
  payload.author \in TrustedAuthors /\ Valid(n, payload) /\ UpToDate(payload)

\* An agent (or somebody else) writes the file; one that is not accepted serves as
\* little as one that expired.
WriteFile(n, payload) ==
  /\ file' = [file EXCEPT ![n] = IF Accepted(n, payload) THEN 0 ELSE FreshAge + 1]
  /\ UNCHANGED <<nodeState, absent, cursor, walk>>

-----------------------------------------------------------------------------
(* A cycle.                                                                *)

\* Mistaken variant of Tracked: a result alone is not looked at.
TrackedPolls == {n \in Nodes : n \in inflight \/ absent[n] > 0}
Tracked == {n \in Nodes : result[n].kind # "none" \/ n \in inflight \/ absent[n] > 0}

Misses(r) == [n \in Nodes |-> IF n \in Tracked \ r THEN absent[n] + 1
                              ELSE IF n \in r THEN 0 ELSE absent[n]]

\* Mistaken variant of Prune: the marks of retired nodes go too.
PruneAll(r) ==
  LET retired == {n \in Nodes : Misses(r)[n] >= 2} IN
  /\ result' = [n \in Nodes |-> IF n \in retired THEN Nothing ELSE result[n]]
  /\ poll' = [n \in Nodes |-> IF n \in retired THEN Unpolled ELSE poll[n]]
  /\ absent' = [n \in Nodes |-> IF n \in retired THEN 0 ELSE Misses(r)[n]]
  /\ inflight' = inflight \ retired
  /\ UNCHANGED threads

\* _prune_node_caches, for a roster that is not empty.  A poll that is out
\* stays in flight.
Prune(r) ==
  LET retired == {n \in Nodes : Misses(r)[n] >= 2} IN
  /\ result' = [n \in Nodes |-> IF n \in retired THEN Nothing ELSE result[n]]
  /\ poll' = [n \in Nodes |-> IF n \in retired THEN Unpolled ELSE poll[n]]
  /\ absent' = [n \in Nodes |-> IF n \in retired THEN 0 ELSE Misses(r)[n]]
  /\ UNCHANGED <<inflight, threads>>

\* An empty roster may be a failed sinfo: nothing is pruned, and the rotation
\* begins anew.
BeginCycle(r) ==
  /\ visit = 0
  /\ roster' = r
  /\ IF r = {} THEN UNCHANGED <<nodeState, absent>> ELSE Prune(r)
  /\ start' = IF r = {} THEN 0 ELSE cursor % Cardinality(r)
  /\ cursor' = start'
  /\ visit' = 1
  /\ UNCHANGED file

\* The agent's payload replaces whatever was known, and keeps the poller quiet.
ReadPayload(n, cold) ==
  /\ Walking /\ n = Visited
  /\ Acceptable(n)
  /\ result' = [result EXCEPT ![n] = Good(file[n])]
  /\ poll' = [poll EXCEPT ![n] = Polled(n, TRUE, cold)]
  /\ visit' = visit + 1
  /\ UNCHANGED <<file, inflight, threads, absent, cursor, start, roster>>

\* Mistaken variant of Submit: every walk begins at the first node.
SubmitInOrder(n) ==
  /\ Walking /\ n = Visited
  /\ ~Acceptable(n) /\ Due(n) /\ ~Busy(n)
  /\ inflight' = inflight \cup {n}
  /\ threads' = [threads EXCEPT ![n] = @ + 1]
  /\ visit' = visit + 1
  /\ UNCHANGED <<file, result, poll, absent, cursor, start, roster>>

\* _poll_node_bg.  The next walk begins behind the last node that got a poll.
Submit(n) ==
  /\ Walking /\ n = Visited
  /\ ~Acceptable(n) /\ Due(n) /\ ~Busy(n)
  /\ inflight' = inflight \cup {n}
  /\ threads' = [threads EXCEPT ![n] = @ + 1]
  /\ cursor' = start + visit
  /\ visit' = visit + 1
  /\ UNCHANGED <<file, result, poll, absent, start, roster>>

\* The executor refuses the poll: the mark is taken back and the cycle ends
\* without a snapshot.
Refuse(n) ==
  /\ Walking /\ n = Visited
  /\ ~Acceptable(n) /\ Due(n) /\ ~Busy(n)
  /\ visit' = 0 /\ start' = 0
  /\ UNCHANGED <<file, nodeState, absent, cursor, roster>>

Skip(n) ==
  /\ Walking /\ n = Visited
  /\ ~Acceptable(n)
  /\ ~Due(n) \/ Busy(n)
  /\ visit' = visit + 1
  /\ UNCHANGED <<file, nodeState, absent, cursor, start, roster>>

\* Mistaken variant of Expired: the two limits are added up.
ExpiredLate(n) ==
  /\ result[n].kind = "good"
  /\ result[n].age > FreshAge + PollTime + poll[n].interval
Expired(n) ==
  /\ result[n].kind = "good"
  /\ result[n].age > Higher(FreshAge, PollTime + poll[n].interval)

\* The row of a node: a GPU node without data shows the known layout, marked stale.
Row(n) ==
  [stale |-> \/ Expired(n)
             \/ result[n].stale
             \/ n \in GpuNodes /\ result[n].kind # "good",
   error |-> result[n].kind = "error",
   measured |-> result[n].kind = "good",
   age |-> result[n].age]

Publish ==
  /\ visit > Len(Listed)
  /\ visit' = 0 /\ start' = 0
  /\ UNCHANGED <<file, nodeState, absent, cursor, roster>>

-----------------------------------------------------------------------------
(* A poll answers.                                                         *)

\* Mistaken variant of Failure: the error takes the place of the data.
FailureReplaces(n) == Failed
Failure(n) == IF result[n].kind = "good" THEN [result[n] EXCEPT !.stale = TRUE] ELSE Failed

Answer(n, ok, cold) ==
  /\ threads[n] > 0
  /\ result' = [result EXCEPT ![n] = IF ok THEN Good(0) ELSE Failure(n)]
  /\ poll' = [poll EXCEPT ![n] = Polled(n, ok, cold)]
  /\ threads' = [threads EXCEPT ![n] = @ - 1]
  /\ inflight' = inflight \ {n}
  /\ UNCHANGED <<file, absent, cursor, walk>>

-----------------------------------------------------------------------------
Init ==
  /\ file = [n \in Nodes |-> FreshAge + 1]
  /\ result = [n \in Nodes |-> Nothing]
  /\ poll = [n \in Nodes |-> Unpolled]
  /\ inflight = {}
  /\ threads = [n \in Nodes |-> 0]
  /\ absent = [n \in Nodes |-> 0]
  /\ cursor = 0 /\ start = 0 /\ visit = 0
  /\ roster = {}

Visit == \E n \in Nodes :
  \/ \E cold \in BOOLEAN : ReadPayload(n, cold)
  \/ Submit(n)
  \/ Skip(n)

Rosters == {{}} \cup {r \in SUBSET Nodes : Steady \subseteq r}
Begin == \E r \in Rosters : BeginCycle(r)
Reply(n) == \E ok, cold \in BOOLEAN : Answer(n, ok, cold)

Next ==
  \/ Tick
  \/ \E n \in AgentNodes, payload \in Contents : WriteFile(n, payload)
  \/ Begin
  \/ Visit
  \/ \E n \in Nodes : Refuse(n)
  \/ Publish
  \/ \E n \in Nodes : Reply(n)

\* The collector cycles for ever and sleeps in between; its polls have time-outs,
\* and the executor does not refuse one node for ever.
Fairness ==
  /\ SF_vars(Tick)
  /\ WF_vars(Begin)
  /\ WF_vars(Visit)
  /\ WF_vars(Publish)
  /\ \A n \in Nodes : WF_vars(Reply(n)) /\ SF_vars(Submit(n))

Spec == Init /\ [][Next]_vars
FairSpec == Spec /\ Fairness

-----------------------------------------------------------------------------
\* A node has one poll at a time and the pool stays within its bound, also when
\* the node is forgotten and comes back while its poll is out (collector.py:1256,
\* _poll_node_bg against _prune_node_caches).
OnePollPerNode ==
  /\ \A n \in Nodes : threads[n] = IF n \in inflight THEN 1 ELSE 0
  /\ Cardinality(inflight) <= MaxPending

\* A row that shows measurements and is not marked stale shows recent ones,
\* however long the polls and the agent have been silent (collector.py:1463).
RowsAreRecent ==
  [][Publish => \A n \in roster :
       Row(n).measured /\ ~Row(n).stale => Row(n).age <= Higher(FreshAge, PollTime + Down)]_vars

\* Last good data are marked stale, never replaced by an error; only a node that
\* missed two rosters in a row loses them (collector.py:1270, 1319).
GoodDataAreKept ==
  [][\A n \in Nodes : result[n].kind = "good" /\ result'[n].kind # "good" =>
       /\ result'[n].kind = "none"
       /\ n \notin roster \cup roster']_vars

\* While the roster stays the same and no poll answers within a walk, a node
\* without an agent is polled again and again: the nodes before it cannot keep the
\* pool to themselves (collector.py:1424).  With a roster that changes they can,
\* because the rotation is an index into it, and so can two nodes whose polls end
\* while the walk is between them and a third.
EveryNodeIsPolled ==
  \A n \in Nodes :
    (/\ <>[](roster = Nodes /\ ~Acceptable(n))
     /\ <>[][visit # 0 => \A m \in Nodes : threads'[m] >= threads[m]]_vars)
    => []<>(n \in inflight)

\* A node that left for good is forgotten, even if its last poll answers after
\* it was forgotten once (collector.py:1319).
GoneIsForgotten ==
  \A n \in Nodes :
    <>[](n \notin roster) /\ []<>(roster # {}) => <>[](result[n].kind = "none")
=============================================================================
