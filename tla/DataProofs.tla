------------------------------ MODULE DataProofs ------------------------------
(***************************************************************************)
(* Theorems about what is made of others' reports: both dialects of the    *)
(* scheduler say the same (Records), nothing old is shown (Sampler), no    *)
(* rate is more than what was used (Meters), a job's time is filed under   *)
(* its days (UsageDays), and a card is given to whose it is (Allocation),  *)
(* for any jobs, cards, ages, processes, counters and amounts.             *)
(***************************************************************************)
EXTENDS Records, Sampler, Meters, UsageDays, Allocation, FiniteSetTheorems,
        SequenceTheorems, WellFoundedInduction, TLAPS

-----------------------------------------------------------------------------
(* The two dialects of the scheduler.                                      *)

ClusterTypes ==
  cluster \in [QJobs -> [state : Queued \cup {"GONE", "COMPLETED"},
                         nodes : SUBSET GpuNodes, gpus : SUBSET Gpus]]

\* Two jobs never hold the same GPU.
HoldingsAreApart ==
  \A j, k \in In(cluster, Holding) : j # k => cluster[j].gpus \cap cluster[k].gpus = {}

QueueInv == ClusterTypes /\ HoldingsAreApart

\* The records of the jobs whose text is to be believed.
ClearQueued == In(cluster, Queued) \ Unclear
Believed == {Line(cluster, j) : j \in ClearQueued}

\* An id is of one job.
LEMMA IdsAreApart == ASSUME NEW j, NEW k, NEW id \in Ids(j), id \in Ids(k) PROVE j = k
  <1>1. id[1] = j BY DEF Ids, Printed
  <1>2. id[1] = k BY DEF Ids, Printed
  <1>3. QED BY <1>1, <1>2

LEMMA PrintedIsId == \A j : Printed(j) \in Ids(j)
  BY DEF Ids

\* The snapshot of the queue has every queued job under its printed id, and no other.
LEMMA SnapshotOfQueue ==
  /\ DOMAIN Anchors(cluster) = {Printed(j) : j \in In(cluster, Queued)}
  /\ \A j \in In(cluster, Queued) : Anchors(cluster)[Printed(j)] = Anchor(cluster[j], j)
  <1>1. DOMAIN Anchors(cluster) = {Printed(j) : j \in In(cluster, Queued)} BY DEF Anchors
  <1>2. ASSUME NEW j \in In(cluster, Queued)
        PROVE  Anchors(cluster)[Printed(j)] = Anchor(cluster[j], j)
    <2> DEFINE named == CHOOSE k \in In(cluster, Queued) : Printed(k) = Printed(j)
    <2>1. named \in In(cluster, Queued) /\ Printed(named) = Printed(j) OBVIOUS
    <2>2. named = j BY <2>1, PrintedIsId, IdsAreApart
    <2>3. Anchors(cluster)[Printed(j)] = Anchor(cluster[named], named) BY DEF Anchors
    <2>4. QED BY <2>2, <2>3
  <1>3. QED BY <1>1, <1>2

LEMMA LineOf ==
  ASSUME NEW j
  PROVE  LET l == Line(cluster, j) IN
         /\ l.raw = j /\ l.ids = Ids(j) /\ l.anchor = Anchor(cluster[j], j)
         /\ l.clear = (j \notin Unclear)
         /\ Claims(l) = IF cluster[j].state \in Holding THEN cluster[j].gpus ELSE {}
  BY DEF Line, Claims, Anchor

\* Between equal snapshots exactly the clear records of queued jobs are believed.
LEMMA AcceptedAreClear ==
  Accepted(Text(cluster), Anchors(cluster), Anchors(cluster)) = Believed
  <1> DEFINE a == Anchors(cluster)
  <1>1. Stable(a, a) = DOMAIN a BY DEF Stable
  <1>2. In(cluster, Queued) \subseteq QJobs \ In(cluster, {"GONE"}) BY DEF In, Queued, Holding
  <1>3. ASSUME NEW j \in QJobs \ In(cluster, {"GONE"})
        PROVE  \A id \in Ids(j) : Claimants(Text(cluster), id) = {Line(cluster, j)}
    <2> SUFFICES ASSUME NEW id \in Ids(j) PROVE Claimants(Text(cluster), id) = {Line(cluster, j)}
      OBVIOUS
    <2>1. Line(cluster, j) \in Claimants(Text(cluster), id)
      BY LineOf DEF Claimants, Text
    <2>2. ASSUME NEW l \in Claimants(Text(cluster), id) PROVE l = Line(cluster, j)
      <3>1. PICK k \in QJobs : l = Line(cluster, k) BY DEF Claimants, Text
      <3>2. id \in Ids(k) BY <3>1, LineOf DEF Claimants
      <3>3. QED BY <3>1, <3>2, IdsAreApart
    <2>3. QED BY <2>1, <2>2
  <1>4. ASSUME NEW j, NEW id \in Ids(j) \cap DOMAIN a
        PROVE  j \in In(cluster, Queued) /\ a[id] = Anchor(cluster[j], j)
    <2>1. PICK k \in In(cluster, Queued) : id = Printed(k) BY SnapshotOfQueue
    <2>2. k = j BY <2>1, PrintedIsId, IdsAreApart
    <2>3. QED BY <2>1, <2>2, SnapshotOfQueue
  <1>5. ASSUME NEW l \in Accepted(Text(cluster), a, a) PROVE l \in Believed
    <2>1. PICK j \in QJobs : l = Line(cluster, j) BY DEF Accepted, Text
    <2>2. PICK id \in l.ids : id \in DOMAIN a BY <1>1 DEF Accepted
    <2>3. l.clear BY DEF Accepted
    <2>4. j \in In(cluster, Queued) BY <1>4, <2>1, <2>2, LineOf
    <2>5. j \notin Unclear BY <2>1, <2>3, LineOf
    <2>6. QED BY <2>1, <2>4, <2>5 DEF Believed, ClearQueued
  <1>6. ASSUME NEW j \in ClearQueued PROVE Line(cluster, j) \in Accepted(Text(cluster), a, a)
    <2> DEFINE l == Line(cluster, j)
    <2>1. j \in In(cluster, Queued) /\ j \notin Unclear BY DEF ClearQueued
    <2>2. l \in Text(cluster) /\ \A id \in l.ids : Claimants(Text(cluster), id) = {l}
      BY <1>2, <1>3, <2>1, LineOf DEF Text
    <2>3. Printed(j) \in l.ids /\ Printed(j) \in DOMAIN a BY <2>1, PrintedIsId, LineOf, SnapshotOfQueue
    <2>4. \A id \in l.ids \cap DOMAIN a : a[id] = l.anchor BY <1>4, LineOf
    <2>5. l.clear BY <2>1, LineOf
    <2> HIDE DEF l, a
    <2>6. QED BY <1>1, <2>2, <2>3, <2>4, <2>5 DEF Accepted, l
  <1>7. QED BY <1>5, <1>6 DEF Believed

\* Nobody claims what another holds, so every claim of a believed record stands.
LEMMA ClaimsStand ==
  ASSUME QueueInv
  PROVE  LegacyAlloc(Text(cluster), Anchors(cluster), Anchors(cluster))
           = {p \in JsonAlloc(cluster) : p[2] \in QJobs \ Unclear}
  <1> DEFINE believed == {c \in Gpus \X Believed : c[1] \in Claims(c[2])}
             lone == {c \in believed : \A d \in believed : d[1] = c[1] => d = c}
  <1>1. LegacyAlloc(Text(cluster), Anchors(cluster), Anchors(cluster)) = {<<c[1], c[2].raw>> : c \in lone}
    BY AcceptedAreClear DEF LegacyAlloc
  <1>2. ASSUME NEW c \in believed
        PROVE  /\ c[2].raw \in In(cluster, Holding) \ Unclear
               /\ c[2] = Line(cluster, c[2].raw)
               /\ c[1] \in cluster[c[2].raw].gpus
    <2>1. PICK j \in ClearQueued : c[2] = Line(cluster, j) BY DEF Believed
    <2>2. c[2].raw = j BY <2>1, LineOf
    <2>3. cluster[j].state \in Holding /\ c[1] \in cluster[j].gpus BY <2>1, LineOf
    <2>4. QED BY <2>1, <2>2, <2>3 DEF ClearQueued, In
  <1>3. ASSUME NEW c \in believed, NEW d \in believed, d[1] = c[1] PROVE d = c
    <2>1. c[2].raw = d[2].raw BY <1>2, <1>3 DEF QueueInv, HoldingsAreApart
    <2>2. c[2] = d[2] BY <1>2, <2>1
    <2>3. c = <<c[1], c[2]>> /\ d = <<d[1], d[2]>> OBVIOUS
    <2>4. QED BY <1>3, <2>2, <2>3
  <1>4. lone = believed BY <1>3
  <1>5. {<<c[1], c[2].raw>> : c \in believed} = {p \in JsonAlloc(cluster) : p[2] \in QJobs \ Unclear}
    <2>1. ASSUME NEW c \in believed
          PROVE  <<c[1], c[2].raw>> \in {p \in JsonAlloc(cluster) : p[2] \in QJobs \ Unclear}
      <3> DEFINE j == c[2].raw
      <3>1. j \in In(cluster, Holding) /\ j \notin Unclear /\ c[1] \in cluster[j].gpus BY <1>2
      <3>2. j \in QJobs BY <3>1 DEF In
      <3>3. <<c[1], j>> \in JsonAlloc(cluster) BY <3>1 DEF JsonAlloc
      <3>4. QED BY <3>1, <3>2, <3>3
    <2>2. ASSUME NEW p \in JsonAlloc(cluster), p[2] \in QJobs \ Unclear
          PROVE  \E c \in believed : p = <<c[1], c[2].raw>>
      <3>1. PICK j \in In(cluster, Holding) : p \in cluster[j].gpus \X {j} BY DEF JsonAlloc
      <3>2. p[1] \in cluster[j].gpus /\ p[2] = j /\ p = <<p[1], p[2]>> BY <3>1
      <3>3. j \in ClearQueued BY <2>2, <3>2 DEF ClearQueued, In, Queued
      <3>4. p[1] \in Gpus BY <3>2 DEF QueueInv, ClusterTypes, In
      <3>5. p[1] \in Claims(Line(cluster, j)) BY <3>1, <3>2, LineOf DEF In
      <3>6. Line(cluster, j) \in Believed BY <3>3 DEF Believed
      <3>7. <<p[1], Line(cluster, j)>> \in believed BY <3>4, <3>5, <3>6
      <3>8. Line(cluster, j).raw = j BY LineOf
      <3> DEFINE l == Line(cluster, j)
      <3>9. l.raw = j /\ <<p[1], l>> \in believed BY <3>7, <3>8
      <3> HIDE DEF l, believed
      <3>10. QED BY <3>2, <3>9
    <2>3. QED BY <2>1, <2>2
  <1>6. QED BY <1>1, <1>4, <1>5

LEMMA IdentitiesAgree ==
  LegacyIds(Text(cluster), Anchors(cluster), Anchors(cluster))
    = JsonIds(cluster) \cap UNION {Ids(j) : j \in (QJobs \ Unclear) \cap In(cluster, Queued)}
  <1>1. LegacyIds(Text(cluster), Anchors(cluster), Anchors(cluster)) = UNION {l.ids : l \in Believed}
    BY AcceptedAreClear DEF LegacyIds
  <1>2. \A j : Line(cluster, j).ids = Ids(j) BY LineOf
  <1>3. UNION {l.ids : l \in Believed} = UNION {Ids(j) : j \in ClearQueued}
    BY <1>2 DEF Believed
  <1>4. ClearQueued = (QJobs \ Unclear) \cap In(cluster, Queued) BY DEF ClearQueued, In
  <1>5. ClearQueued \subseteq QJobs \ In(cluster, {"GONE"}) BY DEF ClearQueued, In, Queued, Holding
  <1>6. UNION {Ids(j) : j \in ClearQueued} \subseteq JsonIds(cluster) BY <1>5 DEF JsonIds
  <1>7. QED BY <1>1, <1>3, <1>4, <1>6

\* One job's record changes, and it takes nothing that others hold.
LEMMA RecordChanges ==
  ASSUME QueueInv, NEW j \in QJobs,
         NEW q \in [state : Queued \cup {"GONE", "COMPLETED"},
                    nodes : SUBSET GpuNodes, gpus : SUBSET Gpus],
         q.state \in Holding =>
           \A k \in In(cluster, Holding) \ {j} : q.gpus \cap cluster[k].gpus = {},
         Becomes(j, q)
  PROVE  QueueInv'
  <1>1. ClusterTypes' BY DEF QueueInv, ClusterTypes, Becomes
  <1>2. cluster'[j] = q /\ \A k \in QJobs \ {j} : cluster'[k] = cluster[k]
    BY DEF QueueInv, ClusterTypes, Becomes
  <1>3. \A k \in In(cluster', Holding) : k # j => k \in In(cluster, Holding) /\ cluster'[k] = cluster[k]
    BY <1>2 DEF In
  <1>4. j \in In(cluster', Holding) => q.state \in Holding BY <1>2 DEF In
  <1>5. HoldingsAreApart' BY <1>2, <1>3, <1>4 DEF QueueInv, HoldingsAreApart
  <1>6. QED BY <1>1, <1>5 DEF QueueInv

LEMMA NextQueue == QueueInv /\ [QueueNext]_cluster => QueueInv'
  <1> SUFFICES ASSUME QueueInv, [QueueNext]_cluster PROVE QueueInv' OBVIOUS
  <1>1. CASE UNCHANGED cluster BY <1>1 DEF QueueInv, ClusterTypes, HoldingsAreApart, In
  <1>2. CASE QueueNext
    <2>1. PICK j \in QJobs :
            \/ JobSubmit(j)
            \/ \E nodes \in SUBSET GpuNodes, cards \in SUBSET Gpus : JobStart(j, nodes, cards)
            \/ JobCompletes(j) \/ JobEnds(j) \/ JobRequeue(j) \/ JobForgotten(j)
      BY <1>2 DEF QueueNext
    <2> DEFINE QTypes == [state : Queued \cup {"GONE", "COMPLETED"},
                          nodes : SUBSET GpuNodes, gpus : SUBSET Gpus]
               Free(q) == q.state \in Holding =>
                            \A k \in In(cluster, Holding) \ {j} : q.gpus \cap cluster[k].gpus = {}
    <2>2. cluster[j] \in QTypes BY DEF QueueInv, ClusterTypes
    <2>3. Gone \in QTypes /\ Gone.state \notin Holding BY DEF Gone, Holding
    <2>4. LET q == [Gone EXCEPT !.state = "PENDING"] IN q \in QTypes /\ q.state \notin Holding
      BY DEF Gone, Queued, Holding
    <2>5. CASE JobSubmit(j) \/ JobRequeue(j)
      BY <2>4, <2>5, RecordChanges DEF JobSubmit, JobRequeue
    <2>6. CASE \E nodes \in SUBSET GpuNodes, cards \in SUBSET Gpus : JobStart(j, nodes, cards)
      <3>1. PICK nodes \in SUBSET GpuNodes, cards \in SUBSET Gpus : JobStart(j, nodes, cards) BY <2>6
      <3> DEFINE q == [state |-> "RUNNING", nodes |-> nodes, gpus |-> cards]
      <3>2. q \in QTypes BY DEF Queued, Holding
      <3>3. Free(q) BY <3>1 DEF JobStart, Taken
      <3>4. Becomes(j, q) BY <3>1 DEF JobStart
      <3> HIDE DEF q
      <3>5. QED BY <3>2, <3>3, <3>4, RecordChanges
    <2>7. CASE JobCompletes(j)
      <3> DEFINE q == [cluster[j] EXCEPT !.state = "COMPLETING"]
      <3>1. q \in QTypes /\ q.gpus = cluster[j].gpus BY <2>2 DEF Queued, Holding
      <3>2. Becomes(j, q) /\ j \in In(cluster, Holding) BY <2>7 DEF JobCompletes, In, Holding
      <3>3. Free(q) BY <3>1, <3>2 DEF QueueInv, HoldingsAreApart
      <3> HIDE DEF q
      <3>4. QED BY <3>1, <3>2, <3>3, RecordChanges
    <2>8. CASE JobEnds(j)
      <3> DEFINE q == [cluster[j] EXCEPT !.state = "COMPLETED"]
      <3>1. q \in QTypes /\ q.state \notin Holding BY <2>2 DEF Holding
      <3>2. Becomes(j, q) BY <2>8 DEF JobEnds
      <3> HIDE DEF q
      <3>3. QED BY <3>1, <3>2, RecordChanges
    <2>9. CASE JobForgotten(j) BY <2>3, <2>9, RecordChanges DEF JobForgotten
    <2>10. QED BY <2>1, <2>5, <2>6, <2>7, <2>8, <2>9
  <1>3. QED BY <1>1, <1>2

\* An old scheduler and a new one are reported alike: between two equal queue snapshots the
\* text gives the GPUs and the identities of queued jobs that the structured records give,
\* but for jobs whose text is ambiguous (common.py:1181).
THEOREM DialectsAgree == QueueSpec => []BackendsAgree
  <1>1. QueueInit => QueueInv
    <2>1. Gone.state = "GONE" /\ Gone.nodes = {} /\ Gone.gpus = {} BY DEF Gone
    <2>2. QueueInit => ClusterTypes BY DEF QueueInit, ClusterTypes, Gone
    <2>3. QueueInit => In(cluster, Holding) = {} BY <2>1 DEF QueueInit, In, Holding
    <2>4. QED BY <2>2, <2>3 DEF QueueInv, HoldingsAreApart
  <1>2. QueueInv => BackendsAgree BY ClaimsStand, IdentitiesAgree DEF BackendsAgree
  <1>3. QED BY <1>1, <1>2, NextQueue, PTL DEF QueueSpec

-----------------------------------------------------------------------------
(* The scheduler's answers.                                                *)

Pairs == SGpus \X SJobs
QueueRecords == [state : {"GONE", "PENDING", "RUNNING", "COMPLETING", "COMPLETED"},
                 nodes : SUBSET Slurm!GpuNodes, gpus : SUBSET SGpus]
Results == [error : BOOLEAN, alloc : SUBSET Pairs]
Held == Slurm!JsonAlloc(queue)

\* No pair was lost longer ago than an age.
YoungIn(times, pairs, age) == \A p \in pairs : p \in Pairs /\ times[p] <= age
\* Nor is one that a line claims.
LinesYoungIn(times, lines, age) ==
  \A l \in lines : \A g \in Slurm!Claims(l) : YoungIn(times, {<<g, l.raw>>}, age)

SamplerTypes ==
  /\ queue \in [SJobs -> QueueRecords]
  /\ asked \in Nat /\ seen \in Nat
  /\ lost \in [Pairs -> Nat]
  /\ json \notin {NotYet, Failed, Unsupported} => json \in Results
  /\ result # NotYet => result \in Results
  /\ snapshot # NotYet => snapshot \in Results

HeldIsNow == \A p \in Held : p \in Pairs /\ lost[p] = 0

\* Every answer names pairs that were held since it was asked for.
AnswersAreYoung ==
  /\ json \notin {NotYet, Failed, Unsupported} => YoungIn(lost, json.alloc, asked)
  /\ text # NotYet => LinesYoungIn(lost, text, asked)
  /\ result # NotYet => YoungIn(lost, result.alloc, asked)
  /\ snapshot # NotYet => YoungIn(lost, snapshot.alloc, seen)

NothingIsAsked ==
  future = "none" => json = NotYet /\ text = NotYet /\ result = NotYet

SamplerInv == SamplerTypes /\ HeldIsNow /\ AnswersAreYoung /\ NothingIsAsked

LEMMA HeldArePairs ==
  ASSUME NEW c \in [SJobs -> QueueRecords]
  PROVE  Slurm!JsonAlloc(c) \subseteq Pairs
  BY DEF Slurm!JsonAlloc, Slurm!In, QueueRecords, Pairs

\* What a text claims is held when it is printed, and what it gives it claims.
LEMMA TextIsHeld ==
  ASSUME NEW c \in [SJobs -> QueueRecords]
  PROVE  \A l \in Slurm!Text(c) : \A g \in Slurm!Claims(l) : <<g, l.raw>> \in Slurm!JsonAlloc(c)
  <1> SUFFICES ASSUME NEW l \in Slurm!Text(c), NEW g \in Slurm!Claims(l)
               PROVE  <<g, l.raw>> \in Slurm!JsonAlloc(c)
    OBVIOUS
  <1>1. PICK j \in SJobs : l = Slurm!Line(c, j) BY DEF Slurm!Text
  <1>2. l.raw = j /\ l.anchor.state = c[j].state /\ l.gpus = c[j].gpus
    BY <1>1 DEF Slurm!Line, Slurm!Anchor
  <1>3. l.anchor.state \in Slurm!Holding /\ g \in l.gpus BY DEF Slurm!Claims
  <1>4. j \in Slurm!In(c, Slurm!Holding) BY <1>2, <1>3 DEF Slurm!In
  <1>5. <<g, j>> \in c[j].gpus \X {j} BY <1>2, <1>3
  <1>6. QED BY <1>2, <1>4, <1>5 DEF Slurm!JsonAlloc

LEMMA LegacyIsClaimed ==
  ASSUME NEW t, NEW b, NEW a, NEW p \in Slurm!LegacyAlloc(t, b, a)
  PROVE  \E l \in t : \E g \in Slurm!Claims(l) : p = <<g, l.raw>>
  BY DEF Slurm!LegacyAlloc, Slurm!Accepted

LEMMA InitSampler == SamplerInit => SamplerInv
  <1> SUFFICES ASSUME SamplerInit PROVE SamplerInv OBVIOUS
  <1> USE SamplerAgeAssumption DEF SamplerInit
  <1>1. Slurm!Gone \in QueueRecords /\ Slurm!Gone.state = "GONE" BY DEF Slurm!Gone, QueueRecords
  <1>2. SamplerTypes
    <2>1. queue \in [SJobs -> QueueRecords] BY <1>1
    <2>2. SchedulerMaxAge + 1 \in Nat OBVIOUS
    <2>3. lost \in [Pairs -> Nat] BY <2>2 DEF Pairs
    <2>4. QED BY <2>1, <2>3 DEF SamplerTypes
  <1>3. HeldIsNow BY <1>1 DEF HeldIsNow, Held, Slurm!JsonAlloc, Slurm!In, Slurm!Holding
  <1>4. AnswersAreYoung /\ NothingIsAsked BY DEF AnswersAreYoung, NothingIsAsked
  <1>5. QED BY <1>2, <1>3, <1>4 DEF SamplerInv

\* The scheduler's records keep their type.
LEMMA QueueKeepsType ==
  ASSUME queue \in [SJobs -> QueueRecords], Slurm!QueueNext
  PROVE  queue' \in [SJobs -> QueueRecords]
  <1>1. ASSUME NEW j \in SJobs, NEW q \in QueueRecords, Slurm!Becomes(j, q)
        PROVE  queue' \in [SJobs -> QueueRecords]
    BY <1>1 DEF Slurm!Becomes
  <1>2. /\ Slurm!Gone \in QueueRecords /\ [Slurm!Gone EXCEPT !.state = "PENDING"] \in QueueRecords
    BY DEF Slurm!Gone, QueueRecords
  <1>3. \A j \in SJobs : /\ [queue[j] EXCEPT !.state = "COMPLETING"] \in QueueRecords
                         /\ [queue[j] EXCEPT !.state = "COMPLETED"] \in QueueRecords
    BY DEF QueueRecords
  <1>4. \A nodes \in SUBSET Slurm!GpuNodes, cards \in SUBSET SGpus :
          [state |-> "RUNNING", nodes |-> nodes, gpus |-> cards] \in QueueRecords
    BY DEF QueueRecords
  <1>5. PICK j \in SJobs :
          \/ Slurm!JobSubmit(j)
          \/ \E nodes \in SUBSET Slurm!GpuNodes, cards \in SUBSET SGpus : Slurm!JobStart(j, nodes, cards)
          \/ Slurm!JobCompletes(j) \/ Slurm!JobEnds(j) \/ Slurm!JobRequeue(j) \/ Slurm!JobForgotten(j)
    BY DEF Slurm!QueueNext
  <1>6. \E q \in QueueRecords : Slurm!Becomes(j, q)
    <2>1. CASE Slurm!JobSubmit(j) \/ Slurm!JobRequeue(j) BY <1>2, <2>1 DEF Slurm!JobSubmit, Slurm!JobRequeue
    <2>2. CASE \E nodes \in SUBSET Slurm!GpuNodes, cards \in SUBSET SGpus : Slurm!JobStart(j, nodes, cards)
      BY <1>4, <2>2 DEF Slurm!JobStart
    <2>3. CASE Slurm!JobCompletes(j) BY <1>3, <2>3 DEF Slurm!JobCompletes
    <2>4. CASE Slurm!JobEnds(j) BY <1>3, <2>4 DEF Slurm!JobEnds
    <2>5. CASE Slurm!JobForgotten(j) BY <1>2, <2>5 DEF Slurm!JobForgotten
    <2>6. QED BY <1>5, <2>1, <2>2, <2>3, <2>4, <2>5
  <1>7. QED BY <1>1, <1>6

\* Pairs that grow no older than the age they are measured by stay young.
LEMMA YoungStay ==
  ASSUME NEW times \in [Pairs -> Nat], NEW later \in [Pairs -> Nat], NEW age \in Nat, NEW next \in Nat,
         \A p \in Pairs : times[p] <= age => later[p] <= next
  PROVE  /\ \A pairs : YoungIn(times, pairs, age) => YoungIn(later, pairs, next)
         /\ \A lines : LinesYoungIn(times, lines, age) => LinesYoungIn(later, lines, next)
  <1>1. \A pairs : YoungIn(times, pairs, age) => YoungIn(later, pairs, next) BY DEF YoungIn
  <1>2. QED BY <1>1 DEF LinesYoungIn

LEMMA QueueMovesKeep == ASSUME SamplerInv, QueueMoves PROVE SamplerInv'
  <1> USE DEF SamplerInv
  <1>1. /\ UNCHANGED <<future, asked, json, text, result, snapshot, seen>>
        /\ Slurm!QueueNext /\ lost' = Lost(Held \cup Held', Same)
    BY DEF QueueMoves, generation, answers, shownState, Held
  <1>2. queue' \in [SJobs -> QueueRecords] BY <1>1, QueueKeepsType DEF SamplerTypes
  <1>3. lost' = [p \in Pairs |-> IF p \in Held \cup Held' THEN 0 ELSE lost[p]]
    BY <1>1 DEF Lost, Same, Pairs
  <1>4. lost \in [Pairs -> Nat] /\ asked \in Nat /\ seen \in Nat BY DEF SamplerTypes
  <1>5. lost' \in [Pairs -> Nat] BY <1>3, <1>4
  <1>6. SamplerTypes' BY <1>1, <1>2, <1>5 DEF SamplerTypes
  <1>7. HeldIsNow'
    <2>1. Held' \subseteq Pairs BY <1>2, HeldArePairs DEF Held
    <2>2. QED BY <1>3, <2>1 DEF HeldIsNow
  <1>8. \A p \in Pairs : lost'[p] <= lost[p] BY <1>3, <1>4
  <1>9. \A age \in Nat : \A p \in Pairs : lost[p] <= age => lost'[p] <= age BY <1>4, <1>5, <1>8
  <1>10. /\ \A pairs : YoungIn(lost, pairs, asked) => YoungIn(lost', pairs, asked)
         /\ \A lines : LinesYoungIn(lost, lines, asked) => LinesYoungIn(lost', lines, asked)
         /\ \A pairs : YoungIn(lost, pairs, seen) => YoungIn(lost', pairs, seen)
    BY <1>4, <1>5, <1>9, YoungStay
  <1>11. AnswersAreYoung' BY <1>1, <1>10 DEF AnswersAreYoung
  <1>12. NothingIsAsked' BY <1>1 DEF NothingIsAsked
  <1>13. QED BY <1>6, <1>7, <1>11, <1>12

\* Time passes for pairs and answers alike, but not for what is held.
LEMMA SamplerTickKeeps == ASSUME SamplerInv, SamplerTick PROVE SamplerInv'
  <1> USE DEF SamplerInv
  <1>1. /\ UNCHANGED <<queue, future, json, text, result, snapshot>>
        /\ asked' = Aged(asked) /\ seen' = Aged(seen) /\ lost' = Lost(Held, Aged)
    BY DEF SamplerTick, scheduler, answers, Held
  <1>2. lost' = [p \in Pairs |-> IF p \in Held THEN 0 ELSE Aged(lost[p])] BY <1>1 DEF Lost, Pairs
  <1>3. lost \in [Pairs -> Nat] /\ asked \in Nat /\ seen \in Nat BY DEF SamplerTypes
  <1>4. \A a \in Nat : Aged(a) \in Nat BY SamplerAgeAssumption DEF Aged
  <1>5. \A a, b \in Nat : a <= b => Aged(a) <= Aged(b) BY SamplerAgeAssumption DEF Aged
  <1>6. lost' \in [Pairs -> Nat] /\ asked' \in Nat /\ seen' \in Nat BY <1>1, <1>2, <1>3, <1>4
  <1>7. SamplerTypes' BY <1>1, <1>6 DEF SamplerTypes
  <1>8. HeldIsNow' BY <1>1, <1>2 DEF HeldIsNow, Held
  <1>9. \A age \in Nat : \A p \in Pairs : lost[p] <= age => lost'[p] <= Aged(age)
    <2> SUFFICES ASSUME NEW age \in Nat, NEW p \in Pairs, lost[p] <= age PROVE lost'[p] <= Aged(age)
      OBVIOUS
    <2>1. lost[p] \in Nat BY <1>3
    <2>2. Aged(lost[p]) <= Aged(age) /\ Aged(age) \in Nat BY <1>4, <1>5, <2>1
    <2>3. lost'[p] = 0 \/ lost'[p] = Aged(lost[p]) BY <1>2
    <2>4. QED BY <2>2, <2>3
  <1>10. /\ \A pairs : YoungIn(lost, pairs, asked) => YoungIn(lost', pairs, asked')
         /\ \A lines : LinesYoungIn(lost, lines, asked) => LinesYoungIn(lost', lines, asked')
         /\ \A pairs : YoungIn(lost, pairs, seen) => YoungIn(lost', pairs, seen')
    BY <1>1, <1>3, <1>6, <1>9, YoungStay
  <1>11. AnswersAreYoung' BY <1>1, <1>10 DEF AnswersAreYoung
  <1>12. NothingIsAsked' BY <1>1 DEF NothingIsAsked
  <1>13. QED BY <1>7, <1>8, <1>11, <1>12

\* Time stands still, and one of the lists is replaced.
LEMMA AnswersKeep ==
  ASSUME SamplerInv, UNCHANGED <<queue, asked, lost>>,
         SamplerTypes', AnswersAreYoung', NothingIsAsked'
  PROVE  SamplerInv'
  BY DEF SamplerInv, HeldIsNow, Held

LEMMA JsonKeeps == ASSUME SamplerInv, NEW ok \in BOOLEAN, JsonAnswers(ok) PROVE SamplerInv'
  <1> USE DEF SamplerInv
  <1>1. /\ future = "running" /\ UNCHANGED <<queue, future, asked, text, result, snapshot, seen, lost>>
        /\ json' \in {Failed, Unsupported, Good(Held)}
    BY DEF JsonAnswers, Asking, scheduler, shownState, Held
  <1>2. Held \subseteq Pairs BY HeldArePairs DEF SamplerTypes, Held
  <1>3. Good(Held) \in Results /\ Good(Held).alloc = Held BY <1>2 DEF Good, Results
  <1>4. asked \in Nat BY DEF SamplerTypes
  <1>5. YoungIn(lost, Held, asked) BY <1>4 DEF YoungIn, HeldIsNow
  <1>6. SamplerTypes' BY <1>1, <1>3 DEF SamplerTypes
  <1>7. AnswersAreYoung' BY <1>1, <1>3, <1>5 DEF AnswersAreYoung
  <1>8. NothingIsAsked' BY <1>1 DEF NothingIsAsked
  <1>9. QED BY <1>1, <1>6, <1>7, <1>8, AnswersKeep

LEMMA TextKeeps == ASSUME SamplerInv, NEW ok \in BOOLEAN, TextAnswers(ok) PROVE SamplerInv'
  <1> USE DEF SamplerInv
  <1>1. /\ future = "running" /\ UNCHANGED <<queue, future, asked, json, snapshot, seen, lost>>
        /\ \/ text' = Slurm!Text(queue) /\ result' = result
           \/ text' = text /\ result' = Bad
    BY DEF TextAnswers, Asking, scheduler, shownState
  <1>2. Bad \in Results /\ YoungIn(lost, Bad.alloc, asked) BY DEF Bad, Results, YoungIn
  <1>3. LinesYoungIn(lost, Slurm!Text(queue), asked)
    <2>1. asked \in Nat /\ queue \in [SJobs -> QueueRecords] BY DEF SamplerTypes
    <2>2. \A l \in Slurm!Text(queue) : \A g \in Slurm!Claims(l) : <<g, l.raw>> \in Held
      BY <2>1, TextIsHeld DEF Held
    <2>3. \A p \in Held : p \in Pairs /\ lost[p] <= asked BY <2>1 DEF HeldIsNow
    <2>4. QED BY <2>2, <2>3 DEF LinesYoungIn, YoungIn
  <1>4. SamplerTypes' BY <1>1, <1>2 DEF SamplerTypes
  <1>5. AnswersAreYoung' BY <1>1, <1>2, <1>3 DEF AnswersAreYoung
  <1>6. NothingIsAsked' BY <1>1 DEF NothingIsAsked
  <1>7. QED BY <1>1, <1>4, <1>5, <1>6, AnswersKeep

\* What is returned are the structured records, what the text claims, or nothing.
LEMMA ResultKeeps ==
  ASSUME SamplerInv, NEW ok \in BOOLEAN, Judge \/ LegacyFails \/ AfterAnswers(ok) \/ Return(ok)
  PROVE  SamplerInv'
  <1> USE DEF SamplerInv
  <1>1. /\ future = "running" /\ future' # "none"
        /\ UNCHANGED <<queue, asked, json, text, snapshot, seen, lost>>
    BY DEF Judge, LegacyFails, AfterAnswers, Return, Asking, scheduler, answers, shownState
  <1>2. \/ result' = Bad
        \/ result' = result
        \/ result' = json /\ json \notin {NotYet, Failed, Unsupported}
        \/ text # NotYet /\ \E b, a : result' = Good(Slurm!LegacyAlloc(text, b, a))
        \/ result # NotYet /\ result' = [result EXCEPT !.error = @ \/ ~ok]
    <2>1. CASE Judge BY <2>1 DEF Judge, Refused
    <2>2. CASE LegacyFails \/ AfterAnswers(ok) BY <2>2 DEF LegacyFails, AfterAnswers
    <2>3. CASE Return(ok) BY <2>3 DEF Return
    <2>4. QED BY <2>1, <2>2, <2>3
  <1>3. result' # NotYet => result' \in Results /\ YoungIn(lost, result'.alloc, asked)
    <2>1. CASE result' = Bad BY <2>1 DEF Bad, Results, YoungIn
    <2>2. CASE result' = result BY <2>2 DEF SamplerTypes, AnswersAreYoung
    <2>3. CASE result' = json /\ json \notin {NotYet, Failed, Unsupported}
      BY <2>3 DEF SamplerTypes, AnswersAreYoung
    <2>4. CASE text # NotYet /\ \E b, a : result' = Good(Slurm!LegacyAlloc(text, b, a))
      <3>1. PICK b, a : result' = Good(Slurm!LegacyAlloc(text, b, a)) BY <2>4
      <3>2. YoungIn(lost, Slurm!LegacyAlloc(text, b, a), asked)
        <4> SUFFICES ASSUME NEW p \in Slurm!LegacyAlloc(text, b, a) PROVE p \in Pairs /\ lost[p] <= asked
          BY DEF YoungIn
        <4>1. PICK l \in text : \E g \in Slurm!Claims(l) : p = <<g, l.raw>> BY LegacyIsClaimed
        <4>2. QED BY <2>4, <4>1 DEF AnswersAreYoung, LinesYoungIn, YoungIn
      <3>3. Slurm!LegacyAlloc(text, b, a) \subseteq Pairs BY <3>2 DEF YoungIn
      <3> DEFINE pairs == Slurm!LegacyAlloc(text, b, a)
      <3>4. result' = Good(pairs) /\ pairs \subseteq Pairs /\ YoungIn(lost, pairs, asked) BY <3>1, <3>2, <3>3
      <3> HIDE DEF pairs
      <3>5. QED BY <3>4 DEF Good, Results
    <2>5. CASE result # NotYet /\ result' = [result EXCEPT !.error = @ \/ ~ok]
      <3>1. result \in Results /\ YoungIn(lost, result.alloc, asked)
        BY <2>5 DEF SamplerTypes, AnswersAreYoung
      <3>2. PICK e \in BOOLEAN : e = (result.error \/ ~ok) OBVIOUS
      <3>3. result' = [result EXCEPT !.error = e] BY <2>5, <3>2
      <3>4. QED BY <3>1, <3>3 DEF Results
    <2>6. QED BY <1>2, <2>1, <2>2, <2>3, <2>4, <2>5
  <1>4. SamplerTypes' BY <1>1, <1>3 DEF SamplerTypes
  <1>5. AnswersAreYoung' BY <1>1, <1>3 DEF AnswersAreYoung
  <1>6. NothingIsAsked' BY <1>1 DEF NothingIsAsked
  <1>7. QED BY <1>1, <1>4, <1>5, <1>6, AnswersKeep

\* What is adopted is as old as its first query; the next starts with none.
LEMMA AdoptKeeps == ASSUME SamplerInv, Adopt PROVE SamplerInv'
  <1> USE DEF SamplerInv
  <1>1. /\ UNCHANGED <<queue, lost>>
        /\ asked' = 0 /\ json' = NotYet /\ text' = NotYet /\ result' = NotYet
        /\ \/ snapshot' = result /\ seen' = asked
           \/ UNCHANGED <<snapshot, seen>>
    BY DEF Adopt, scheduler, ObservedAt
  <1>2. SamplerTypes' BY <1>1 DEF SamplerTypes
  <1>3. HeldIsNow' BY <1>1 DEF HeldIsNow, Held
  <1>4. AnswersAreYoung' BY <1>1 DEF AnswersAreYoung
  <1>5. NothingIsAsked' BY <1>1 DEF NothingIsAsked
  <1>6. QED BY <1>2, <1>3, <1>4, <1>5

LEMMA PollKeeps == ASSUME SamplerInv, Poll PROVE SamplerInv'
  <1> USE DEF SamplerInv
  <1>1. /\ future = "none" /\ future' = "running" /\ asked' = 0
        /\ UNCHANGED <<queue, lost, json, text, result, snapshot, seen>>
    BY DEF Poll, scheduler, answers, shownState
  <1>2. json = NotYet /\ text = NotYet /\ result = NotYet BY <1>1 DEF NothingIsAsked
  <1>3. SamplerTypes' BY <1>1 DEF SamplerTypes
  <1>4. HeldIsNow' BY <1>1 DEF HeldIsNow, Held
  <1>5. AnswersAreYoung' BY <1>1, <1>2 DEF AnswersAreYoung
  <1>6. NothingIsAsked' BY <1>1 DEF NothingIsAsked
  <1>7. QED BY <1>3, <1>4, <1>5, <1>6

LEMMA NextSampler == SamplerInv /\ [SamplerNext]_samplerVars => SamplerInv'
  <1> SUFFICES ASSUME SamplerInv, [SamplerNext]_samplerVars PROVE SamplerInv' OBVIOUS
  <1>1. ASSUME UNCHANGED <<queue, future, asked, json, text, result, snapshot, seen, lost>>
        PROVE  SamplerInv'
    BY <1>1 DEF SamplerInv, SamplerTypes, HeldIsNow, Held, AnswersAreYoung, NothingIsAsked
  <1>2. CASE Upgrade \/ (\E ok \in BOOLEAN : QueueAnswers(ok)) \/ UNCHANGED samplerVars
    BY <1>1, <1>2
    DEF Upgrade, QueueAnswers, samplerVars, scheduler, generation, answers, shownState
  <1>3. QED
    BY <1>2, QueueMovesKeep, SamplerTickKeeps, JsonKeeps, TextKeeps, ResultKeeps, AdoptKeeps, PollKeeps
    DEF SamplerNext

\* A GPU is shown as a job's only if the job had it within SCHEDULER_MAX_AGE, however long
\* the queries took, whichever failed and whoever spoke which dialect (collector.py:137).
THEOREM ShownIsRecent == SamplerSpec => []AllocIsRecent
  <1>1. SamplerInv => AllocIsRecent
    <2> SUFFICES ASSUME SamplerInv, NEW p \in Alloc PROVE lost[p] <= SchedulerMaxAge BY DEF AllocIsRecent
    <2>1. snapshot # NotYet /\ ~(seen > SchedulerMaxAge) /\ p \in snapshot.alloc BY DEF Alloc
    <2>2. p \in Pairs /\ lost[p] <= seen BY <2>1 DEF SamplerInv, AnswersAreYoung, YoungIn
    <2>3. lost[p] \in Nat /\ seen \in Nat BY <2>2 DEF SamplerInv, SamplerTypes
    <2>4. QED BY <2>1, <2>2, <2>3, SamplerAgeAssumption
  <1>2. QED BY <1>1, InitSampler, NextSampler, PTL DEF SamplerSpec

\* Jobs have GPUs on their nodes, and the lines of a text are of jobs, which claim none but such.
Placed == [SJobs -> {r \in QueueRecords : \A g \in r.gpus : Slurm!NodeOf(g) \in r.nodes}]
SoundLine(l) ==
  /\ l.raw \in SJobs /\ l.ids = Slurm!Ids(l.raw)
  /\ \A g \in Slurm!Claims(l) : l.anchor.state \in Slurm!Holding /\ Slurm!NodeOf(g) \in l.anchor.nodes

AnchorInv ==
  /\ queue \in Placed
  /\ text # NotYet => \A l \in text : SoundLine(l)

LEMMA TextIsSound == ASSUME NEW c \in Placed PROVE \A l \in Slurm!Text(c) : SoundLine(l)
  <1> SUFFICES ASSUME NEW l \in Slurm!Text(c) PROVE SoundLine(l) OBVIOUS
  <1>1. PICK j \in SJobs : l = Slurm!Line(c, j) BY DEF Slurm!Text
  <1>2. /\ l.raw = j /\ l.ids = Slurm!Ids(j) /\ l.gpus = c[j].gpus /\ l.anchor.nodes = c[j].nodes
    BY <1>1 DEF Slurm!Line, Slurm!Anchor
  <1>3. \A g \in c[j].gpus : Slurm!NodeOf(g) \in c[j].nodes BY DEF Placed
  <1>4. \A g \in Slurm!Claims(l) : l.anchor.state \in Slurm!Holding /\ g \in l.gpus BY DEF Slurm!Claims
  <1>5. QED BY <1>2, <1>3, <1>4 DEF SoundLine

LEMMA QueueStaysPlaced ==
  ASSUME queue \in Placed, Slurm!QueueNext
  PROVE  queue' \in Placed
  <1> DEFINE Fitting == {r \in QueueRecords : \A g \in r.gpus : Slurm!NodeOf(g) \in r.nodes}
  <1>0. queue \in [SJobs -> Fitting] /\ Placed = [SJobs -> Fitting] BY DEF Placed
  <1>1. ASSUME NEW j \in SJobs, NEW q \in Fitting, Slurm!Becomes(j, q)
        PROVE  queue' \in Placed
    <2>1. queue' = [queue EXCEPT ![j] = q] BY <1>1 DEF Slurm!Becomes
    <2> HIDE DEF Fitting
    <2>2. QED BY <1>0, <2>1
  <1>2. /\ Slurm!Gone \in Fitting /\ [Slurm!Gone EXCEPT !.state = "PENDING"] \in Fitting
    BY DEF Slurm!Gone, QueueRecords
  <1>3. \A j \in SJobs : /\ [queue[j] EXCEPT !.state = "COMPLETING"] \in Fitting
                         /\ [queue[j] EXCEPT !.state = "COMPLETED"] \in Fitting
    BY <1>0 DEF QueueRecords
  <1>4. ASSUME NEW nodes \in SUBSET Slurm!GpuNodes, NEW cards \in SUBSET SGpus,
               {Slurm!NodeOf(g) : g \in cards} \subseteq nodes
        PROVE  [state |-> "RUNNING", nodes |-> nodes, gpus |-> cards] \in Fitting
    <2>1. \A g \in cards : Slurm!NodeOf(g) \in nodes BY <1>4
    <2>2. QED BY <2>1 DEF QueueRecords
  <1> HIDE DEF Fitting
  <1>5. PICK j \in SJobs :
          \/ Slurm!JobSubmit(j)
          \/ \E nodes \in SUBSET Slurm!GpuNodes, cards \in SUBSET SGpus : Slurm!JobStart(j, nodes, cards)
          \/ Slurm!JobCompletes(j) \/ Slurm!JobEnds(j) \/ Slurm!JobRequeue(j) \/ Slurm!JobForgotten(j)
    BY DEF Slurm!QueueNext
  <1>6. \E q \in Fitting : Slurm!Becomes(j, q)
    <2>1. CASE Slurm!JobSubmit(j) \/ Slurm!JobRequeue(j) BY <1>2, <2>1 DEF Slurm!JobSubmit, Slurm!JobRequeue
    <2>2. CASE \E nodes \in SUBSET Slurm!GpuNodes, cards \in SUBSET SGpus : Slurm!JobStart(j, nodes, cards)
      BY <1>4, <2>2 DEF Slurm!JobStart
    <2>3. CASE Slurm!JobCompletes(j) BY <1>3, <2>3 DEF Slurm!JobCompletes
    <2>4. CASE Slurm!JobEnds(j) BY <1>3, <2>4 DEF Slurm!JobEnds
    <2>5. CASE Slurm!JobForgotten(j) BY <1>2, <2>5 DEF Slurm!JobForgotten
    <2>6. QED BY <1>5, <2>1, <2>2, <2>3, <2>4, <2>5
  <1>7. QED BY <1>1, <1>6

LEMMA InitAnchor == SamplerInit => AnchorInv
  <1> SUFFICES ASSUME SamplerInit PROVE AnchorInv OBVIOUS
  <1>1. Slurm!Gone \in QueueRecords /\ Slurm!Gone.gpus = {} BY DEF Slurm!Gone, QueueRecords
  <1>2. QED BY <1>1 DEF SamplerInit, AnchorInv, Placed

LEMMA NextAnchor == AnchorInv /\ [SamplerNext]_samplerVars => AnchorInv'
  <1> SUFFICES ASSUME AnchorInv, [SamplerNext]_samplerVars PROVE AnchorInv' OBVIOUS
  <1>1. CASE QueueMoves
    <2>1. Slurm!QueueNext /\ text' = text BY <1>1 DEF QueueMoves, generation, answers
    <2>2. queue' \in Placed BY <2>1, QueueStaysPlaced DEF AnchorInv
    <2>3. QED BY <2>1, <2>2 DEF AnchorInv, SoundLine
  <1>2. ASSUME NEW ok \in BOOLEAN, TextAnswers(ok) PROVE AnchorInv'
    <2>1. queue' = queue /\ (text' = text \/ text' = Slurm!Text(queue))
      BY <1>2 DEF TextAnswers, scheduler
    <2>2. \A l \in Slurm!Text(queue) : SoundLine(l) BY TextIsSound DEF AnchorInv
    <2>3. QED BY <2>1, <2>2 DEF AnchorInv, SoundLine
  <1>3. ASSUME queue' = queue, text' = text \/ text' = NotYet PROVE AnchorInv'
    BY <1>3 DEF AnchorInv, SoundLine
  <1>4. ASSUME NEW ok \in BOOLEAN,
               QueueAnswers(ok) \/ JsonAnswers(ok) \/ AfterAnswers(ok) \/ Return(ok)
        PROVE  AnchorInv'
    BY <1>3, <1>4 DEF QueueAnswers, JsonAnswers, AfterAnswers, Return, scheduler, answers
  <1>5. CASE Upgrade \/ SamplerTick \/ Judge \/ LegacyFails \/ Adopt \/ Poll
    BY <1>3, <1>5
    DEF Upgrade, SamplerTick, Judge, LegacyFails, Adopt, Poll, scheduler, generation, answers
  <1>6. CASE UNCHANGED samplerVars BY <1>3, <1>6 DEF samplerVars, scheduler, generation, answers
  <1>7. QED BY <1>1, <1>2, <1>4, <1>5, <1>6 DEF SamplerNext

\* The queue lists a job under an id of its own.
LEMMA ListingIsTheJobs ==
  ASSUME NEW j \in SJobs, NEW id \in Slurm!Ids(j), id \in DOMAIN Slurm!Anchors(queue)
  PROVE  id = Slurm!Printed(j) /\ Slurm!Anchors(queue)[id] = Slurm!Anchor(queue[j], j)
  <1> DEFINE listed == Slurm!In(queue, Slurm!Queued)
             named == CHOOSE k \in listed : Slurm!Printed(k) = id
  <1>1. PICK i \in listed : Slurm!Printed(i) = id BY DEF Slurm!Anchors
  <1>2. named \in listed /\ Slurm!Printed(named) = id BY <1>1
  <1>3. Slurm!Anchors(queue)[id] = Slurm!Anchor(queue[named], named) BY DEF Slurm!Anchors
  <1> HIDE DEF named
  <1>4. named = j
    <2>1. \A k : Slurm!Printed(k)[1] = k BY DEF Slurm!Printed
    <2>2. id[1] = j BY <2>1 DEF Slurm!Ids
    <2>3. id[1] = named BY <1>2, <2>1
    <2>4. QED BY <2>2, <2>3
  <1>5. QED BY <1>2, <1>3, <1>4

\* What the text of an old scheduler gives a job lies on nodes that the job held before the
\* text was asked for and holds when the queue is listed again, whatever ended, was requeued
\* or moved in between (common.py:1215-1219, 1471-1484).
THEOREM TextIsAnchored == SamplerSpec => AllocIsAnchored
  <1> DEFINE Anchored ==
               AfterAnswers(TRUE) =>
                 \A p \in result'.alloc :
                   LET job == queue[p[2]]
                       id == Slurm!Printed(p[2]) IN
                   /\ job.state \in Slurm!Holding /\ Slurm!NodeOf(p[1]) \in job.nodes
                   /\ id \in DOMAIN before /\ before[id] = Slurm!Anchor(job, p[2])
  <1>1. AnchorInv => Anchored
    <2> DEFINE relisted == Slurm!Anchors(queue)
    <2> SUFFICES ASSUME AnchorInv, AfterAnswers(TRUE), NEW p \in result'.alloc
                 PROVE  /\ queue[p[2]].state \in Slurm!Holding
                        /\ Slurm!NodeOf(p[1]) \in queue[p[2]].nodes
                        /\ Slurm!Printed(p[2]) \in DOMAIN before
                        /\ before[Slurm!Printed(p[2])] = Slurm!Anchor(queue[p[2]], p[2])
      OBVIOUS
    <2>1. text # NotYet /\ result' = Good(Slurm!LegacyAlloc(text, before, relisted)) BY DEF AfterAnswers
    <2>2. p \in Slurm!LegacyAlloc(text, before, relisted) BY <2>1 DEF Good
    <2>3. PICK l \in Slurm!Accepted(text, before, relisted) : \E g \in Slurm!Claims(l) : p = <<g, l.raw>>
      BY <2>2 DEF Slurm!LegacyAlloc
    <2>4. p[2] = l.raw /\ p[1] \in Slurm!Claims(l) BY <2>3
    <2>5. l \in text /\ SoundLine(l) BY <2>1, <2>3 DEF Slurm!Accepted, AnchorInv
    <2>6. PICK id \in l.ids : id \in Slurm!Stable(before, relisted) BY <2>3 DEF Slurm!Accepted
    <2>7. before[id] = l.anchor BY <2>3, <2>6 DEF Slurm!Accepted
    <2>8. id \in DOMAIN before /\ id \in DOMAIN relisted /\ before[id] = relisted[id] BY <2>6 DEF Slurm!Stable
    <2>9. l.raw \in SJobs /\ id \in Slurm!Ids(l.raw) BY <2>5 DEF SoundLine
    <2>10. id = Slurm!Printed(l.raw) /\ relisted[id] = Slurm!Anchor(queue[l.raw], l.raw)
      BY <2>8, <2>9, ListingIsTheJobs
    <2>11. l.anchor.state \in Slurm!Holding /\ Slurm!NodeOf(p[1]) \in l.anchor.nodes
      BY <2>4, <2>5 DEF SoundLine
    <2> HIDE DEF relisted
    <2>12. l.anchor = Slurm!Anchor(queue[l.raw], l.raw) BY <2>7, <2>8, <2>10
    <2>13. l.anchor.state = queue[l.raw].state /\ l.anchor.nodes = queue[l.raw].nodes
      BY <2>12 DEF Slurm!Anchor
    <2>14. QED BY <2>4, <2>7, <2>8, <2>10, <2>11, <2>12, <2>13
  <1>2. AnchorInv /\ [SamplerNext]_samplerVars => [Anchored]_samplerVars BY <1>1
  <1>3. QED BY <1>2, InitAnchor, NextAnchor, PTL DEF SamplerSpec, AllocIsAnchored

\* Both (collector.py:137; common.py:1181).
THEOREM SoundAlloc == SamplerSpec => AllocIsSound
  BY ShownIsRecent, TextIsAnchored DEF AllocIsSound

-----------------------------------------------------------------------------
(* Folds: induction over a set of numbers, and the walk of FoldLeft.       *)

LEMMA Upwards ==
  ASSUME NEW S, 0 \in S, \A i \in Nat : i \in S => i + 1 \in S
  PROVE  \A i \in Nat : i \in S
  <1> SUFFICES ASSUME \E i \in Nat : i \notin S PROVE FALSE OBVIOUS
  <1> DEFINE T == {i \in Nat : i \notin S}
  <1>1. T \subseteq Nat /\ T # {} OBVIOUS
  <1> HIDE DEF T
  <1>2. PICK x \in T : \A y \in T : ~ (<<y, x>> \in OpToRel(<, Nat))
    BY <1>1, NatLessThanWellFounded, WFMin
  <1>3. x \in Nat /\ x # 0 /\ x \notin S BY DEF T
  <1>4. x - 1 \in Nat /\ x - 1 < x /\ (x - 1) + 1 = x BY <1>3
  <1>5. <<x - 1, x>> \in OpToRel(<, Nat) BY <1>3, <1>4 DEF OpToRel
  <1>6. x - 1 \in S BY <1>2, <1>4, <1>5 DEF T
  <1>7. QED BY <1>3, <1>4, <1>6

\* The largest of some of the first numbers.
LEMMA LargestOf ==
  ASSUME NEW n \in Nat
  PROVE  \A s \in SUBSET (1..n) : s # {} =>
           Max(s) \in s /\ Max(s) \in 1..n /\ \A y \in s : y <= Max(s)
  <1> DEFINE P(s) == s # {} => \E x \in s : \A y \in s : x >= y
             Q(m) == \A s \in SUBSET (1..m) : P(s)
             S == {m \in Nat : Q(m)}
  <1>1. Q(0)
    <2>1. \A s \in SUBSET (1..0) : s = {} OBVIOUS
    <2>2. QED BY <2>1
  <1>2. ASSUME NEW m \in Nat, Q(m) PROVE Q(m + 1)
    <2> SUFFICES ASSUME NEW s \in SUBSET (1..(m + 1)) PROVE P(s) OBVIOUS
    <2>1. CASE m + 1 \in s BY <2>1
    <2>2. CASE m + 1 \notin s
      <3>1. s \in SUBSET (1..m) BY <2>2
      <3>2. QED BY <1>2, <3>1
    <2>3. QED BY <2>1, <2>2
  <1> HIDE DEF Q
  <1>3. 0 \in S /\ \A i \in Nat : i \in S => i + 1 \in S BY <1>1, <1>2
  <1> HIDE DEF S
  <1>4. n \in S BY <1>3, Upwards
  <1>5. Q(n) BY <1>4 DEF S
  <1>6. ASSUME NEW s \in SUBSET (1..n), s # {}
        PROVE  Max(s) \in s /\ Max(s) \in 1..n /\ \A y \in s : y <= Max(s)
    <2>1. \E x \in s : \A y \in s : x >= y BY <1>5, <1>6 DEF Q
    <2>2. Max(s) \in s /\ \A y \in s : Max(s) >= y BY <2>1 DEF Max
    <2>3. QED BY <2>2
  <1>7. QED BY <1>6

LEMMA LargestIsLast ==
  ASSUME NEW m \in Nat, NEW s \in SUBSET (1..(m + 1)), m + 1 \in s
  PROVE  Max(s) = m + 1
  <1>1. Max(s) \in 1..(m + 1) /\ m + 1 <= Max(s) BY LargestOf
  <1>2. QED BY <1>1

\* What FoldLeft is defined by, on some of the first numbers, for a step that is a function.
Iterates(iter, set, base, step) ==
  iter = [s \in SUBSET set |-> IF s = {} THEN base ELSE step[<<iter[s \ {Max(s)}], Max(s)>>]]

LEMMA IteratesExist ==
  ASSUME NEW n \in Nat, NEW D, NEW base \in D, NEW step \in [D \X (1..n) -> D]
  PROVE  \E iter \in [SUBSET (1..n) -> D] : Iterates(iter, 1..n, base, step)
  <1> DEFINE Q(m) == m <= n => \E iter \in [SUBSET (1..m) -> D] : Iterates(iter, 1..m, base, step)
             S == {m \in Nat : Q(m)}
  <1>1. Q(0)
    <2>1. [s \in SUBSET (1..0) |-> base] \in [SUBSET (1..0) -> D] OBVIOUS
    <2>2. \A s \in SUBSET (1..0) : s = {} OBVIOUS
    <2>3. Iterates([s \in SUBSET (1..0) |-> base], 1..0, base, step) BY <2>2 DEF Iterates
    <2>4. QED BY <2>1, <2>3
  <1>2. ASSUME NEW m \in Nat, Q(m), m + 1 <= n PROVE Q(m + 1)
    <2>0. m <= n BY <1>2
    <2>1. PICK old \in [SUBSET (1..m) -> D] : Iterates(old, 1..m, base, step) BY <1>2, <2>0
    <2> DEFINE new == [s \in SUBSET (1..(m + 1)) |->
                         IF m + 1 \in s THEN step[<<old[s \ {m + 1}], m + 1>>] ELSE old[s]]
    <2>2. \A s \in SUBSET (1..(m + 1)) : m + 1 \notin s => s \in SUBSET (1..m) OBVIOUS
    <2>3. \A s \in SUBSET (1..(m + 1)) : s \ {m + 1} \in SUBSET (1..m) OBVIOUS
    <2>4. m + 1 \in 1..n BY <1>2
    <2>5. new \in [SUBSET (1..(m + 1)) -> D]
      <3> SUFFICES ASSUME NEW s \in SUBSET (1..(m + 1)) PROVE new[s] \in D OBVIOUS
      <3>1. CASE m + 1 \in s
        <4>1. old[s \ {m + 1}] \in D BY <2>3
        <4>2. <<old[s \ {m + 1}], m + 1>> \in D \X (1..n) BY <4>1, <2>4
        <4>3. QED BY <3>1, <4>2
      <3>2. CASE m + 1 \notin s BY <2>2, <3>2
      <3>3. QED BY <3>1, <3>2
    <2>6. ASSUME NEW s \in SUBSET (1..(m + 1))
          PROVE  new[s] = IF s = {} THEN base ELSE step[<<new[s \ {Max(s)}], Max(s)>>]
      <3>1. CASE m + 1 \in s
        <4>1. Max(s) = m + 1 BY <3>1, LargestIsLast
        <4>2. s \ {m + 1} \in SUBSET (1..(m + 1)) /\ m + 1 \notin s \ {m + 1} OBVIOUS
        <4>3. new[s \ {m + 1}] = old[s \ {m + 1}] BY <4>2
        <4>4. new[s] = step[<<old[s \ {m + 1}], m + 1>>] BY <3>1
        <4> HIDE DEF new
        <4>5. QED BY <3>1, <4>1, <4>3, <4>4
      <3>2. CASE m + 1 \notin s
        <4>1. s \in SUBSET (1..m) /\ new[s] = old[s] BY <2>2, <3>2
        <4>2. old[s] = IF s = {} THEN base ELSE step[<<old[s \ {Max(s)}], Max(s)>>] BY <2>1, <4>1 DEF Iterates
        <4>3. s \ {Max(s)} \in SUBSET (1..(m + 1)) /\ m + 1 \notin s \ {Max(s)} BY <3>2
        <4>4. new[s \ {Max(s)}] = old[s \ {Max(s)}] BY <4>3
        <4> HIDE DEF new
        <4>5. QED BY <4>1, <4>2, <4>4
      <3>3. QED BY <3>1, <3>2
    <2>7. new = [s \in SUBSET (1..(m + 1)) |-> new[s]] OBVIOUS
    <2> HIDE DEF new
    <2>8. Iterates(new, 1..(m + 1), base, step) BY <2>6, <2>7 DEF Iterates
    <2>9. QED BY <2>5, <2>8
  <1>3. \A m \in Nat : Q(m) => Q(m + 1)
    <2> SUFFICES ASSUME NEW m \in Nat, Q(m) PROVE Q(m + 1) OBVIOUS
    <2>1. CASE m + 1 <= n BY <1>2, <2>1
    <2>2. CASE ~(m + 1 <= n) BY <2>2
    <2>3. QED BY <2>1, <2>2
  <1> HIDE DEF Q
  <1>4. 0 \in S /\ \A i \in Nat : i \in S => i + 1 \in S BY <1>1, <1>3
  <1> HIDE DEF S
  <1>5. n \in S BY <1>4, Upwards
  <1>6. Q(n) BY <1>5 DEF S
  <1>7. n <= n OBVIOUS
  <1>8. QED BY <1>6, <1>7 DEF Q

-----------------------------------------------------------------------------
(* Sums: SumFunctionOnSet does not depend on the order.                    *)

Some(s) == CHOOSE x \in s : TRUE

\* What SumFunctionOnSet is defined by, on the subsets of a set.
Adds(it, g, set) == it = [s \in SUBSET set |-> IF s = {} THEN 0 ELSE g[Some(s)] + it[s \ {Some(s)}]]

\* The subsets with at most so many elements.
Small(set, m) == {s \in SUBSET set : Cardinality(s) <= m}

LEMMA SmallerBy1 ==
  ASSUME NEW set, IsFiniteSet(set), NEW s \in SUBSET set, NEW x \in s
  PROVE  /\ s \ {x} \in SUBSET set /\ Cardinality(s) \in Nat /\ Cardinality(s \ {x}) \in Nat
         /\ Cardinality(s \ {x}) + 1 = Cardinality(s)
  <1>1. IsFiniteSet(s) BY FS_Subset
  <1>2. Cardinality(s \ {x}) = Cardinality(s) - 1 /\ IsFiniteSet(s \ {x}) BY <1>1, FS_RemoveElement
  <1>3. Cardinality(s) \in Nat /\ Cardinality(s \ {x}) \in Nat BY <1>1, <1>2, FS_CardinalityType
  <1>4. QED BY <1>2, <1>3

LEMMA SumsExist ==
  ASSUME NEW set, IsFiniteSet(set), NEW g \in [set -> Nat]
  PROVE  \E it \in [SUBSET set -> Nat] : Adds(it, g, set)
  <1> DEFINE Right(it, m) == \A s \in Small(set, m) :
                              it[s] = IF s = {} THEN 0 ELSE g[Some(s)] + it[s \ {Some(s)}]
             Q(m) == \E it \in [SUBSET set -> Nat] : Right(it, m)
             S == {m \in Nat : Q(m)}
  <1>0. \A s \in SUBSET set : IsFiniteSet(s) /\ Cardinality(s) \in Nat BY FS_Subset, FS_CardinalityType
  <1>1. Q(0)
    <2>1. [s \in SUBSET set |-> 0] \in [SUBSET set -> Nat] OBVIOUS
    <2>2. \A s \in Small(set, 0) : s = {} BY <1>0, FS_EmptySet DEF Small
    <2>3. Right([s \in SUBSET set |-> 0], 0) BY <2>2
    <2>4. QED BY <2>1, <2>3
  <1>2. ASSUME NEW m \in Nat, Q(m) PROVE Q(m + 1)
    <2>1. PICK old \in [SUBSET set -> Nat] : Right(old, m) BY <1>2
    <2> DEFINE new == [s \in SUBSET set |->
                         IF Cardinality(s) <= m THEN old[s]
                         ELSE IF s = {} THEN 0 ELSE g[Some(s)] + old[s \ {Some(s)}]]
    <2>2. \A s \in SUBSET set : s # {} => Some(s) \in s BY DEF Some
    <2>3. new \in [SUBSET set -> Nat]
      <3>1. ASSUME NEW s \in SUBSET set, s # {} PROVE g[Some(s)] + old[s \ {Some(s)}] \in Nat
        <4>1. Some(s) \in set /\ s \ {Some(s)} \in SUBSET set BY <2>2, <3>1
        <4>2. QED BY <4>1
      <3>2. QED BY <3>1
    <2>4. ASSUME NEW s \in Small(set, m + 1)
          PROVE  new[s] = IF s = {} THEN 0 ELSE g[Some(s)] + new[s \ {Some(s)}]
      <3>0. s \in SUBSET set /\ Cardinality(s) <= m + 1 BY DEF Small
      <3>1. CASE s = {}
        <4>1. Cardinality(s) = 0 BY <3>1, FS_EmptySet
        <4>2. s \in Small(set, m) BY <3>0, <4>1 DEF Small
        <4>3. new[s] = old[s] BY <3>0, <4>1
        <4>4. QED BY <2>1, <3>1, <4>2, <4>3
      <3>2. CASE s # {}
        <4> DEFINE x == Some(s)
        <4>1. x \in s BY <2>2, <3>0, <3>2
        <4>2. s \ {x} \in SUBSET set /\ Cardinality(s \ {x}) \in Nat /\ Cardinality(s \ {x}) + 1 = Cardinality(s)
          BY <3>0, <4>1, SmallerBy1
        <4>3. Cardinality(s \ {x}) <= m BY <1>0, <3>0, <4>2
        <4>4. new[s \ {x}] = old[s \ {x}] BY <4>2, <4>3
        <4>5. new[s] = g[x] + old[s \ {x}]
          <5>1. CASE Cardinality(s) <= m
            <6>1. s \in Small(set, m) /\ new[s] = old[s] BY <3>0, <5>1 DEF Small
            <6>2. QED BY <2>1, <3>2, <6>1
          <5>2. CASE ~(Cardinality(s) <= m) BY <3>0, <3>2, <5>2
          <5>3. QED BY <5>1, <5>2
        <4> HIDE DEF new
        <4>6. QED BY <3>2, <4>4, <4>5
      <3>3. QED BY <3>1, <3>2
    <2> HIDE DEF new
    <2>5. QED BY <2>3, <2>4
  <1> HIDE DEF Q
  <1>3. 0 \in S /\ \A m \in Nat : m \in S => m + 1 \in S BY <1>1, <1>2
  <1> HIDE DEF S
  <1>4. Cardinality(set) \in S BY <1>0, <1>3, Upwards
  <1>5. PICK it \in [SUBSET set -> Nat] : Right(it, Cardinality(set)) BY <1>4 DEF S, Q
  <1>6. \A s \in SUBSET set : s \in Small(set, Cardinality(set)) BY FS_Subset DEF Small
  <1>7. \A s \in SUBSET set : it[s] = IF s = {} THEN 0 ELSE g[Some(s)] + it[s \ {Some(s)}]
    BY <1>5, <1>6
  <1>8. it = [s \in SUBSET set |-> it[s]] OBVIOUS
  <1>9. Adds(it, g, set) BY <1>7, <1>8 DEF Adds
  <1>10. QED BY <1>9

LEMMA SumUnfolds ==
  ASSUME NEW set, IsFiniteSet(set), NEW g \in [set -> Nat], NEW s \in SUBSET set
  PROVE  \E it : Adds(it, g, s) /\ SumFunctionOnSet(g, s) = it[s]
  <1> DEFINE chosen == CHOOSE it : Adds(it, g, s)
  <1>1. PICK it : Adds(it, [x \in s |-> g[x]], s)
    <2>1. IsFiniteSet(s) /\ [x \in s |-> g[x]] \in [s -> Nat] BY FS_Subset
    <2> DEFINE h == [x \in s |-> g[x]]
    <2> HIDE DEF h
    <2>2. IsFiniteSet(s) /\ h \in [s -> Nat] BY <2>1 DEF h
    <2>3. \E it : Adds(it, h, s) BY <2>2, SumsExist
    <2>4. QED BY <2>3 DEF h
  <1>2. Adds(it, g, s)
    <2>1. ASSUME NEW r \in SUBSET s, r # {} PROVE [x \in s |-> g[x]][Some(r)] = g[Some(r)]
      BY <2>1 DEF Some
    <2>2. QED BY <1>1, <2>1 DEF Adds
  <1>3. Adds(chosen, g, s) BY <1>2
  <1>4. SumFunctionOnSet(g, s) = chosen[s]
    BY DEF SumFunctionOnSet, FoldFunctionOnSet, MapThenFoldSet, Adds, Some
  <1>5. QED BY <1>3, <1>4

\* On subsets of both their sets, any two such functions are equal, and the order is free.
LEMMA SumsAreOne ==
  ASSUME NEW set, IsFiniteSet(set), NEW g \in [set -> Nat],
         NEW it \in [SUBSET set -> Nat], Adds(it, g, set),
         NEW part \in SUBSET set, NEW other, Adds(other, g, part)
  PROVE  \A s \in SUBSET part : other[s] = it[s]
  <1> DEFINE Q(m) == \A s \in Small(part, m) : other[s] = it[s]
             S == {m \in Nat : Q(m)}
  <1>0. \A s \in SUBSET set : IsFiniteSet(s) /\ Cardinality(s) \in Nat BY FS_Subset, FS_CardinalityType
  <1>a. \A s \in SUBSET set : it[s] = IF s = {} THEN 0 ELSE g[Some(s)] + it[s \ {Some(s)}] BY DEF Adds
  <1>b. \A s \in SUBSET part : other[s] = IF s = {} THEN 0 ELSE g[Some(s)] + other[s \ {Some(s)}] BY DEF Adds
  <1>1. Q(0)
    <2>1. \A s \in Small(part, 0) : s = {} BY <1>0, FS_EmptySet DEF Small
    <2>2. {} \in SUBSET set /\ {} \in SUBSET part OBVIOUS
    <2>3. it[{}] = 0 /\ other[{}] = 0 BY <1>a, <1>b, <2>2
    <2>4. QED BY <2>1, <2>3
  <1>2. ASSUME NEW m \in Nat, Q(m) PROVE Q(m + 1)
    <2> SUFFICES ASSUME NEW s \in Small(part, m + 1) PROVE other[s] = it[s] OBVIOUS
    <2>1. s \in SUBSET part /\ s \in SUBSET set /\ Cardinality(s) <= m + 1 BY DEF Small
    <2>2. CASE s = {} BY <1>a, <1>b, <2>1, <2>2
    <2>3. CASE s # {}
      <3> DEFINE x == Some(s)
      <3>1. x \in s BY <2>3 DEF Some
      <3>2. s \ {x} \in SUBSET part /\ Cardinality(s \ {x}) \in Nat /\ Cardinality(s \ {x}) + 1 = Cardinality(s)
        BY <2>1, <3>1, SmallerBy1
      <3>3. s \ {x} \in Small(part, m) BY <1>0, <2>1, <3>2 DEF Small
      <3>4. other[s \ {x}] = it[s \ {x}] BY <1>2, <3>3
      <3>5. QED BY <1>a, <1>b, <2>1, <2>3, <3>4
    <2>4. QED BY <2>2, <2>3
  <1> HIDE DEF Q
  <1>3. 0 \in S /\ \A m \in Nat : m \in S => m + 1 \in S BY <1>1, <1>2
  <1> HIDE DEF S
  <1>4. ASSUME NEW s \in SUBSET part PROVE other[s] = it[s]
    <2>1. Cardinality(s) \in Nat BY <1>0
    <2>2. Cardinality(s) \in S BY <1>3, <2>1, Upwards
    <2>3. s \in Small(part, Cardinality(s)) BY <2>1 DEF Small
    <2>4. QED BY <2>2, <2>3 DEF S, Q
  <1>5. QED BY <1>4

AnyOrder(it, g, set) == \A s \in SUBSET set : \A x \in s : it[s] = g[x] + it[s \ {x}]

LEMMA SumInAnyOrder ==
  ASSUME NEW set, IsFiniteSet(set), NEW g \in [set -> Nat],
         NEW it \in [SUBSET set -> Nat], Adds(it, g, set)
  PROVE  AnyOrder(it, g, set)
  <1> DEFINE Q(m) == \A s \in Small(set, m) : \A x \in s : it[s] = g[x] + it[s \ {x}]
             S == {m \in Nat : Q(m)}
  <1>0. \A s \in SUBSET set : IsFiniteSet(s) /\ Cardinality(s) \in Nat BY FS_Subset, FS_CardinalityType
  <1>a. \A s \in SUBSET set : it[s] = IF s = {} THEN 0 ELSE g[Some(s)] + it[s \ {Some(s)}] BY DEF Adds
  <1>1. Q(0)
    <2>1. \A s \in Small(set, 0) : s = {} BY <1>0, FS_EmptySet DEF Small
    <2>2. QED BY <2>1
  <1>2. ASSUME NEW m \in Nat, Q(m) PROVE Q(m + 1)
    <2> SUFFICES ASSUME NEW s \in Small(set, m + 1), NEW x \in s PROVE it[s] = g[x] + it[s \ {x}] OBVIOUS
    <2> DEFINE c == Some(s)
    <2>1. s \in SUBSET set /\ Cardinality(s) <= m + 1 BY DEF Small
    <2>2. c \in s BY DEF Some
    <2>3. it[s] = g[c] + it[s \ {c}] BY <1>a, <2>1, <2>2
    <2> HIDE DEF c
    <2>4. CASE x = c BY <2>3, <2>4
    <2>5. CASE x # c
      <3>1. /\ \A y \in s : s \ {y} \in Small(set, m)
        <4> SUFFICES ASSUME NEW y \in s PROVE s \ {y} \in Small(set, m) OBVIOUS
        <4>1. s \ {y} \in SUBSET set /\ Cardinality(s \ {y}) \in Nat /\ Cardinality(s \ {y}) + 1 = Cardinality(s)
          BY <2>1, SmallerBy1
        <4>2. QED BY <1>0, <2>1, <4>1 DEF Small
      <3>2. s \ {c} \in Small(set, m) /\ s \ {x} \in Small(set, m) BY <2>2, <3>1
      <3>3. x \in s \ {c} /\ c \in s \ {x} BY <2>2, <2>5
      <3>4. it[s \ {c}] = g[x] + it[(s \ {c}) \ {x}] /\ it[s \ {x}] = g[c] + it[(s \ {x}) \ {c}]
        BY <1>2, <3>2, <3>3
      <3>5. (s \ {c}) \ {x} = (s \ {x}) \ {c} OBVIOUS
      <3> DEFINE rest == it[(s \ {x}) \ {c}]
      <3>6. rest \in Nat /\ g[x] \in Nat /\ g[c] \in Nat BY <2>1, <2>2
      <3> HIDE DEF rest
      <3>7. it[s] = g[c] + (g[x] + rest) /\ it[s \ {x}] = g[c] + rest BY <2>3, <3>4, <3>5 DEF rest
      <3>8. QED BY <3>6, <3>7
    <2>6. QED BY <2>4, <2>5
  <1> HIDE DEF Q
  <1>3. 0 \in S /\ \A m \in Nat : m \in S => m + 1 \in S BY <1>1, <1>2
  <1> HIDE DEF S
  <1>4. ASSUME NEW s \in SUBSET set PROVE \A x \in s : it[s] = g[x] + it[s \ {x}]
    <2>1. Cardinality(s) \in Nat BY <1>0
    <2>2. Cardinality(s) \in S BY <1>3, <2>1, Upwards
    <2>3. s \in Small(set, Cardinality(s)) BY <2>1 DEF Small
    <2>4. QED BY <2>2, <2>3 DEF S, Q
  <1>5. QED BY <1>4 DEF AnyOrder

\* What a sum is: any element and the sum of the others.
IsSum(g, set) ==
  /\ \A s \in SUBSET set : SumFunctionOnSet(g, s) \in Nat
  /\ SumFunctionOnSet(g, {}) = 0
  /\ \A s \in SUBSET set : \A x \in s :
       SumFunctionOnSet(g, s) = g[x] + SumFunctionOnSet(g, s \ {x})

LEMMA Sums == ASSUME NEW set, IsFiniteSet(set), NEW g \in [set -> Nat] PROVE IsSum(g, set)
  <1>1. PICK it \in [SUBSET set -> Nat] : Adds(it, g, set) BY SumsExist
  <1>2. ASSUME NEW s \in SUBSET set PROVE SumFunctionOnSet(g, s) = it[s]
    <2>1. PICK other : Adds(other, g, s) /\ SumFunctionOnSet(g, s) = other[s] BY SumUnfolds
    <2>2. \A r \in SUBSET s : other[r] = it[r] BY <1>1, <2>1, SumsAreOne
    <2>3. s \in SUBSET s OBVIOUS
    <2>4. QED BY <2>1, <2>2, <2>3
  <1>3. it[{}] = 0
    <2>1. {} \in SUBSET set OBVIOUS
    <2>2. QED BY <1>1, <2>1 DEF Adds
  <1>a. AnyOrder(it, g, set) BY <1>1, SumInAnyOrder
  <1>4. \A s \in SUBSET set : \A x \in s : it[s] = g[x] + it[s \ {x}] BY <1>a DEF AnyOrder
  <1>5. {} \in SUBSET set /\ \A s \in SUBSET set : \A x \in s : s \ {x} \in SUBSET set OBVIOUS
  <1> HIDE DEF Adds
  <1>6. SumFunctionOnSet(g, {}) = 0 BY <1>2, <1>3, <1>5
  <1>7. QED BY <1>2, <1>4, <1>5, <1>6 DEF IsSum

\* Sums of functions of which one is nowhere larger, or which add up.
LEMMA SumsCompare ==
  ASSUME NEW set, IsFiniteSet(set), NEW f \in [set -> Nat], NEW g \in [set -> Nat],
         \A x \in set : f[x] <= g[x]
  PROVE  \A s \in SUBSET set : SumFunctionOnSet(f, s) <= SumFunctionOnSet(g, s)
  <1> DEFINE F(s) == SumFunctionOnSet(f, s)
             G(s) == SumFunctionOnSet(g, s)
             Q(m) == \A s \in Small(set, m) : F(s) <= G(s)
             S == {m \in Nat : Q(m)}
  <1>0. \A s \in SUBSET set : IsFiniteSet(s) /\ Cardinality(s) \in Nat BY FS_Subset, FS_CardinalityType
  <1>a. /\ F({}) = 0 /\ \A s \in SUBSET set : F(s) \in Nat
        /\ \A s \in SUBSET set : \A x \in s : F(s) = f[x] + F(s \ {x})
    BY Sums DEF IsSum
  <1>b. /\ G({}) = 0 /\ \A s \in SUBSET set : G(s) \in Nat
        /\ \A s \in SUBSET set : \A x \in s : G(s) = g[x] + G(s \ {x})
    BY Sums DEF IsSum
  <1> HIDE DEF F, G
  <1>1. Q(0)
    <2>1. \A s \in Small(set, 0) : s = {} BY <1>0, FS_EmptySet DEF Small
    <2>2. F({}) <= G({}) BY <1>a, <1>b
    <2>3. QED BY <2>1, <2>2
  <1>2. ASSUME NEW m \in Nat, Q(m) PROVE Q(m + 1)
    <2> SUFFICES ASSUME NEW s \in Small(set, m + 1) PROVE F(s) <= G(s) OBVIOUS
    <2>1. s \in SUBSET set /\ Cardinality(s) <= m + 1 BY DEF Small
    <2>2. CASE s = {} BY <1>a, <1>b, <2>2
    <2>3. CASE s # {}
      <3>1. PICK x \in s : TRUE BY <2>3
      <3>2. s \ {x} \in SUBSET set /\ Cardinality(s \ {x}) \in Nat /\ Cardinality(s \ {x}) + 1 = Cardinality(s)
        BY <2>1, SmallerBy1
      <3>3. s \ {x} \in Small(set, m) BY <1>0, <2>1, <3>2 DEF Small
      <3>4. F(s \ {x}) <= G(s \ {x}) BY <1>2, <3>3
      <3>5. F(s) = f[x] + F(s \ {x}) /\ G(s) = g[x] + G(s \ {x}) BY <1>a, <1>b, <2>1
      <3>6. F(s \ {x}) \in Nat /\ G(s \ {x}) \in Nat BY <1>a, <1>b, <3>2
      <3>7. f[x] \in Nat /\ g[x] \in Nat /\ f[x] <= g[x] BY <2>1
      <3>8. QED BY <3>4, <3>5, <3>6, <3>7
    <2>4. QED BY <2>2, <2>3
  <1> HIDE DEF Q
  <1>3. 0 \in S /\ \A m \in Nat : m \in S => m + 1 \in S BY <1>1, <1>2
  <1> HIDE DEF S
  <1>4. ASSUME NEW s \in SUBSET set PROVE F(s) <= G(s)
    <2>1. Cardinality(s) \in Nat BY <1>0
    <2>2. Cardinality(s) \in S BY <1>3, <2>1, Upwards
    <2>3. s \in Small(set, Cardinality(s)) BY <2>1 DEF Small
    <2>4. QED BY <2>2, <2>3 DEF S, Q
  <1>5. QED BY <1>4 DEF F, G

AddUp(f, g, h, set) ==
  \A s \in SUBSET set : SumFunctionOnSet(h, s) = SumFunctionOnSet(f, s) + SumFunctionOnSet(g, s)

LEMMA SumsAdd ==
  ASSUME NEW set, IsFiniteSet(set), NEW f \in [set -> Nat], NEW g \in [set -> Nat],
         NEW h \in [set -> Nat], \A x \in set : h[x] = f[x] + g[x]
  PROVE  AddUp(f, g, h, set)
  <1> DEFINE F(s) == SumFunctionOnSet(f, s)
             G(s) == SumFunctionOnSet(g, s)
             H(s) == SumFunctionOnSet(h, s)
             Q(m) == \A s \in Small(set, m) : H(s) = F(s) + G(s)
             S == {m \in Nat : Q(m)}
  <1>0. \A s \in SUBSET set : IsFiniteSet(s) /\ Cardinality(s) \in Nat BY FS_Subset, FS_CardinalityType
  <1>a. /\ F({}) = 0 /\ \A s \in SUBSET set : F(s) \in Nat
        /\ \A s \in SUBSET set : \A x \in s : F(s) = f[x] + F(s \ {x})
    BY Sums DEF IsSum
  <1>b. /\ G({}) = 0 /\ \A s \in SUBSET set : G(s) \in Nat
        /\ \A s \in SUBSET set : \A x \in s : G(s) = g[x] + G(s \ {x})
    BY Sums DEF IsSum
  <1>c. /\ H({}) = 0 /\ \A s \in SUBSET set : \A x \in s : H(s) = h[x] + H(s \ {x})
    BY Sums DEF IsSum
  <1> HIDE DEF F, G, H
  <1>1. Q(0)
    <2>1. \A s \in Small(set, 0) : s = {} BY <1>0, FS_EmptySet DEF Small
    <2>2. H({}) = F({}) + G({}) BY <1>a, <1>b, <1>c
    <2>3. QED BY <2>1, <2>2
  <1>2. ASSUME NEW m \in Nat, Q(m) PROVE Q(m + 1)
    <2> SUFFICES ASSUME NEW s \in Small(set, m + 1) PROVE H(s) = F(s) + G(s) OBVIOUS
    <2>1. s \in SUBSET set /\ Cardinality(s) <= m + 1 BY DEF Small
    <2>2. CASE s = {} BY <1>a, <1>b, <1>c, <2>2
    <2>3. CASE s # {}
      <3>1. PICK x \in s : TRUE BY <2>3
      <3>2. s \ {x} \in SUBSET set /\ Cardinality(s \ {x}) \in Nat /\ Cardinality(s \ {x}) + 1 = Cardinality(s)
        BY <2>1, SmallerBy1
      <3>3. s \ {x} \in Small(set, m) BY <1>0, <2>1, <3>2 DEF Small
      <3>4. H(s \ {x}) = F(s \ {x}) + G(s \ {x}) BY <1>2, <3>3
      <3>5. /\ F(s) = f[x] + F(s \ {x}) /\ G(s) = g[x] + G(s \ {x})
            /\ H(s) = h[x] + H(s \ {x})
        BY <1>a, <1>b, <1>c, <2>1
      <3>6. F(s \ {x}) \in Nat /\ G(s \ {x}) \in Nat BY <1>a, <1>b, <3>2
      <3>7. f[x] \in Nat /\ g[x] \in Nat /\ h[x] = f[x] + g[x] BY <2>1
      <3>8. QED BY <3>4, <3>5, <3>6, <3>7
    <2>4. QED BY <2>2, <2>3
  <1> HIDE DEF Q
  <1>3. 0 \in S /\ \A m \in Nat : m \in S => m + 1 \in S BY <1>1, <1>2
  <1> HIDE DEF S
  <1>4. ASSUME NEW s \in SUBSET set PROVE H(s) = F(s) + G(s)
    <2>1. Cardinality(s) \in Nat BY <1>0
    <2>2. Cardinality(s) \in S BY <1>3, <2>1, Upwards
    <2>3. s \in Small(set, Cardinality(s)) BY <2>1 DEF Small
    <2>4. QED BY <2>2, <2>3 DEF S, Q
  <1>5. QED BY <1>4 DEF F, G, H, AddUp

\* A sum over two.
LEMMA SumOfTwo ==
  ASSUME NEW a, NEW b, a # b, NEW g \in [{a, b} -> Nat]
  PROVE  SumFunction(g) = g[a] + g[b]
  <1>1. IsFiniteSet({a, b})
    <2>1. IsFiniteSet({a}) /\ {a} \cup {b} = {a, b} BY FS_Singleton
    <2>2. QED BY <2>1, FS_AddElement
  <1>2. /\ SumFunctionOnSet(g, {}) = 0
        /\ \A s \in SUBSET {a, b} : \A x \in s : SumFunctionOnSet(g, s) = g[x] + SumFunctionOnSet(g, s \ {x})
    BY <1>1, Sums DEF IsSum
  <1>3. SumFunctionOnSet(g, {a, b}) = g[a] + SumFunctionOnSet(g, {b})
    <2>1. {a, b} \ {a} = {b} OBVIOUS
    <2>2. {a, b} \in SUBSET {a, b} /\ a \in {a, b} OBVIOUS
    <2>3. QED BY <1>2, <2>1, <2>2
  <1>4. SumFunctionOnSet(g, {b}) = g[b] + SumFunctionOnSet(g, {})
    <2>1. {b} \ {b} = {} OBVIOUS
    <2>2. {b} \in SUBSET {a, b} /\ b \in {b} OBVIOUS
    <2>3. QED BY <1>2, <2>1, <2>2
  <1>5. DOMAIN g = {a, b} OBVIOUS
  <1>6. g[b] \in Nat /\ g[a] \in Nat OBVIOUS
  <1>7. QED BY <1>2, <1>3, <1>4, <1>5, <1>6 DEF SumFunction

-----------------------------------------------------------------------------
(* The walk over the cgroup directories.                                   *)

Rates == Nat \cup {NoRate}
RateMaps == UNION {[S -> Rates] : S \in SUBSET MeterJobs}
Walks == [rates : RateMaps, twice : SUBSET MeterJobs,
          seen : SUBSET Inodes, read : SUBSET Inodes, left : SUBSET Parents, truncated : BOOLEAN]

MeterTypes ==
  /\ owner \in [Inodes -> MeterJobs \cup {Domain, Void}]
  /\ counter \in [Inodes -> 0..(Wrap - 1)] /\ spent \in [Inodes -> Nat]
  /\ previous \in [Inodes -> Nat \cup {NoValue}]

LEMMA DifferenceIsRate ==
  ASSUME MeterTypes, NEW p \in Inodes PROVE Difference(p, counter[p]) \in Rates
  <1>1. counter[p] \in Nat /\ (previous[p] \in Nat \/ previous[p] = NoValue) BY DEF MeterTypes
  <1>2. CASE previous[p] \in Nat BY <1>1, <1>2 DEF Difference, Rates
  <1>3. CASE previous[p] = NoValue BY <1>3 DEF Difference, Rates
  <1>4. QED BY <1>1, <1>2, <1>3

\* What a visit does: the directory is passed over, the walk is cut short, its job is met
\* again, or its job is met for the first time.
PassedOver(v, w, p, fate) ==
  /\ v.rates = w.rates /\ v.twice = w.twice /\ v.seen = w.seen /\ v.truncated = w.truncated
  /\ \/ v.left = w.left /\ (Under[p] \in w.left \/ fate[p] = "nameless")
     \/ v.left = w.left \cup {Under[p]} /\ fate[p] = "gone"
CutShort(v, w) == v.truncated /\ v.rates = w.rates /\ v.seen = w.seen /\ v.left = w.left
Counts(v, w, p) == ~w.truncated /\ ~v.truncated /\ v.left = w.left /\ v.seen = w.seen \cup {p}
MetAgain(v, w, p) ==
  /\ owner[p] \in DOMAIN w.rates \cup w.twice
  /\ v.twice = w.twice \cup {owner[p]} /\ DOMAIN v.rates = DOMAIN w.rates \ {owner[p]}
  /\ \A i \in DOMAIN v.rates : v.rates[i] = w.rates[i]
MetFirst(v, w, p) ==
  /\ owner[p] \notin DOMAIN w.rates \cup w.twice
  /\ v.twice = w.twice /\ DOMAIN v.rates = DOMAIN w.rates \cup {owner[p]}
  /\ \A i \in DOMAIN w.rates : v.rates[i] = w.rates[i]
  /\ v.rates[owner[p]] \in {NoRate, Difference(p, counter[p])}

LEMMA FoundCases ==
  ASSUME MeterTypes, NEW fate, NEW w \in Walks, NEW p \in Dirs
  PROVE  LET v == Found(fate, w, p) IN
         /\ v \in Walks /\ v.truncated = w.truncated /\ v.left = w.left /\ v.seen = w.seen \cup {p}
         /\ MetAgain(v, w, p) \/ MetFirst(v, w, p)
  <1> DEFINE j == owner[p]
             v == Found(fate, w, p)
             rate == IF fate[p] = "read" THEN Difference(p, counter[p]) ELSE NoRate
  <1>1. p \in Inodes /\ j \in MeterJobs BY DEF Dirs
  <1>2. DOMAIN w.rates \in SUBSET MeterJobs /\ w.rates \in [DOMAIN w.rates -> Rates] BY DEF Walks, RateMaps
  <1>3. rate \in Rates /\ rate \in {NoRate, Difference(p, counter[p])} BY <1>1, DifferenceIsRate DEF Rates
  <1> HIDE DEF rate
  <1>4. /\ w.twice \in SUBSET MeterJobs /\ w.seen \in SUBSET Inodes /\ w.read \in SUBSET Inodes
        /\ w.left \in SUBSET Parents /\ w.truncated \in BOOLEAN
    BY DEF Walks
  <1>5. CASE j \in DOMAIN w.rates \cup w.twice
    <2> DEFINE rest == Restrict(w.rates, DOMAIN w.rates \ {j})
    <2>1. v = [w EXCEPT !.seen = @ \cup {p}, !.twice = @ \cup {j}, !.rates = rest] BY <1>5 DEF Found
    <2>2. /\ DOMAIN rest = DOMAIN w.rates \ {j} /\ \A i \in DOMAIN rest : rest[i] = w.rates[i]
          /\ rest \in [DOMAIN w.rates \ {j} -> Rates]
      BY <1>2 DEF Restrict
    <2> HIDE DEF rest
    <2>3. /\ v.rates = rest /\ v.twice = w.twice \cup {j} /\ v.truncated = w.truncated
          /\ v.left = w.left /\ v.seen = w.seen \cup {p}
      BY <2>1 DEF Walks
    <2>4. rest \in RateMaps BY <1>2, <2>2 DEF RateMaps
    <2>a. v = [rates |-> rest, twice |-> w.twice \cup {j}, seen |-> w.seen \cup {p}, read |-> w.read,
               left |-> w.left, truncated |-> w.truncated]
      BY <2>1 DEF Walks
    <2>b. w.twice \cup {j} \in SUBSET MeterJobs /\ w.seen \cup {p} \in SUBSET Inodes BY <1>1, <1>4
    <2> HIDE DEF v, j
    <2>5. v \in Walks BY <1>4, <2>4, <2>a, <2>b DEF Walks
    <2>6. MetAgain(v, w, p) BY <1>5, <2>2, <2>3 DEF MetAgain, j
    <2>7. QED BY <2>3, <2>5, <2>6 DEF v
  <1>6. CASE j \notin DOMAIN w.rates \cup w.twice
    <2> DEFINE more == With(w.rates, j, rate)
    <2>1. v = [w EXCEPT !.seen = @ \cup {p}, !.read = @ \cup {p}, !.rates = more]
      BY <1>6 DEF Found, rate
    <2>2. /\ DOMAIN more = DOMAIN w.rates \cup {j} /\ \A i \in DOMAIN w.rates : more[i] = w.rates[i]
          /\ more[j] = rate
      BY <1>6 DEF With
    <2>3. more \in [DOMAIN w.rates \cup {j} -> Rates] BY <1>2, <1>3, <1>6 DEF With
    <2> HIDE DEF more
    <2>4. /\ v.rates = more /\ v.twice = w.twice /\ v.truncated = w.truncated
          /\ v.left = w.left /\ v.seen = w.seen \cup {p}
      BY <2>1 DEF Walks
    <2>5. more \in RateMaps BY <1>1, <1>2, <2>3 DEF RateMaps
    <2>a. v = [rates |-> more, twice |-> w.twice, seen |-> w.seen \cup {p}, read |-> w.read \cup {p},
               left |-> w.left, truncated |-> w.truncated]
      BY <2>1 DEF Walks
    <2>b. w.seen \cup {p} \in SUBSET Inodes /\ w.read \cup {p} \in SUBSET Inodes BY <1>1, <1>4
    <2> HIDE DEF v, j
    <2>6. v \in Walks BY <1>4, <2>5, <2>a, <2>b DEF Walks
    <2>7. MetFirst(v, w, p) BY <1>3, <1>6, <2>2, <2>4 DEF MetFirst, j
    <2>8. QED BY <2>4, <2>6, <2>7 DEF v
  <1>7. QED BY <1>5, <1>6

LEMMA VisitCases ==
  ASSUME MeterTypes, NEW fate, NEW w \in Walks, NEW p \in Dirs
  PROVE  LET v == Visit(fate, w, p) IN
         /\ v \in Walks
         /\ \/ PassedOver(v, w, p, fate)
            \/ CutShort(v, w)
            \/ Counts(v, w, p) /\ MetAgain(v, w, p)
            \/ /\ Counts(v, w, p) /\ MetFirst(v, w, p)
               /\ ~(Cardinality(DOMAIN w.rates) >= MaxSampled)
  <1> DEFINE v == Visit(fate, w, p)
             full == w.truncated \/ fate[p] = "cut" \/ Cardinality(DOMAIN w.rates) >= MaxSampled
  <1>0. Under[p] \in Parents BY DEF Dirs, Parents
  <1>1. CASE Under[p] \in w.left
    <2>1. v = w BY <1>1 DEF Visit
    <2>2. PassedOver(v, w, p, fate) BY <1>1, <2>1 DEF PassedOver
    <2>3. QED BY <2>1, <2>2
  <1>2. CASE Under[p] \notin w.left /\ full
    <2>1. v = [w EXCEPT !.truncated = TRUE] BY <1>2 DEF Visit
    <2>2. CutShort(v, w) /\ v \in Walks BY <2>1 DEF CutShort, Walks
    <2>3. QED BY <2>2
  <1>3. CASE Under[p] \notin w.left /\ ~full /\ fate[p] = "gone"
    <2>1. v = [w EXCEPT !.left = @ \cup {Under[p]}] BY <1>3 DEF Visit
    <2>2. PassedOver(v, w, p, fate) BY <1>3, <2>1 DEF PassedOver, Walks
    <2>3. v \in Walks BY <1>0, <2>1 DEF Walks
    <2>4. QED BY <2>2, <2>3
  <1>4. CASE Under[p] \notin w.left /\ ~full /\ fate[p] = "nameless"
    <2>1. v = w BY <1>4 DEF Visit
    <2>2. PassedOver(v, w, p, fate) BY <1>4, <2>1 DEF PassedOver
    <2>3. QED BY <2>1, <2>2
  <1>5. CASE Under[p] \notin w.left /\ ~full /\ fate[p] # "gone" /\ fate[p] # "nameless"
    <2>1. v = Found(fate, w, p) BY <1>5 DEF Visit
    <2>2. /\ v \in Walks /\ v.truncated = w.truncated /\ v.left = w.left /\ v.seen = w.seen \cup {p}
          /\ MetAgain(v, w, p) \/ MetFirst(v, w, p)
      BY <2>1, FoundCases
    <2> HIDE DEF v
    <2>3. Counts(v, w, p) BY <1>5, <2>2 DEF Counts
    <2>4. QED BY <1>5, <2>2, <2>3 DEF v
  <1>6. QED BY <1>1, <1>2, <1>3, <1>4, <1>5

WalkOf(listing, fate, unscanned) == FoldLeft(LAMBDA w, p : Visit(fate, w, p), Outset(unscanned), listing)

\* A walk from entry to entry.
Stepwise(walk, n, listing, fate, unscanned) ==
  /\ walk[0] = Outset(unscanned) /\ walk[n] = WalkOf(listing, fate, unscanned)
  /\ \A i \in Nat : i + 1 \in 1..n => walk[i + 1] = Visit(fate, walk[i], listing[i + 1])

\* FoldLeft is one.
LEMMA WalkIsStepwise ==
  ASSUME MeterTypes, NEW fate, NEW unscanned \in SUBSET Parents, NEW n \in Nat, NEW listing \in [1..n -> Dirs]
  PROVE  \E walk : Stepwise(walk, n, listing, fate, unscanned)
  <1> DEFINE step == [x \in Walks \X (1..n) |-> Visit(fate, x[1], listing[x[2]])]
             SameVisit(iter) == iter = [s \in SUBSET (1..n) |->
                             IF s = {} THEN Outset(unscanned) ELSE Visit(fate, iter[s \ {Max(s)}], listing[Max(s)])]
  <1>1. Outset(unscanned) \in Walks
    <2>1. DOMAIN <<>> = {} /\ <<>> \in [{} -> Rates] OBVIOUS
    <2>2. <<>> \in RateMaps BY <2>1 DEF RateMaps
    <2>3. QED BY <2>2 DEF Outset, Walks
  <1>2. step \in [Walks \X (1..n) -> Walks]
    <2>1. ASSUME NEW w \in Walks, NEW i \in 1..n PROVE Visit(fate, w, listing[i]) \in Walks
      BY VisitCases
    <2>2. QED BY <2>1
  <1>3. PICK iter \in [SUBSET (1..n) -> Walks] : Iterates(iter, 1..n, Outset(unscanned), step)
    BY <1>1, <1>2, IteratesExist
  <1>4. SameVisit(iter)
    <2>1. ASSUME NEW s \in SUBSET (1..n), s # {}
          PROVE  step[<<iter[s \ {Max(s)}], Max(s)>>] = Visit(fate, iter[s \ {Max(s)}], listing[Max(s)])
      <3>1. Max(s) \in 1..n BY <2>1, LargestOf
      <3>2. iter[s \ {Max(s)}] \in Walks OBVIOUS
      <3>3. QED BY <3>1, <3>2
    <2> HIDE DEF step
    <2>2. QED BY <1>3, <2>1 DEF Iterates
  <1> DEFINE chosen == CHOOSE f : SameVisit(f)
  <1>5. SameVisit(chosen) BY <1>4
  <1>6. WalkOf(listing, fate, unscanned) = chosen[1..n] BY DEF WalkOf, FoldLeft, MapThenFoldSet
  <1> HIDE DEF chosen
  <1>7. chosen[{}] = Outset(unscanned) BY <1>5
  <1>8. ASSUME NEW i \in Nat, i + 1 \in 1..n
        PROVE  chosen[1..(i + 1)] = Visit(fate, chosen[1..i], listing[i + 1])
    <2>0. i + 1 <= n BY <1>8
    <2> HIDE DEF step
    <2>a. \A k \in 1..(i + 1) : k \in 1..n BY <2>0
    <2>b. i + 1 \in 1..(i + 1) OBVIOUS
    <2>1. 1..(i + 1) \in SUBSET (1..n) /\ i + 1 \in 1..(i + 1) /\ 1..(i + 1) # {} BY <2>a, <2>b
    <2>2. Max(1..(i + 1)) = i + 1 BY <2>1, LargestIsLast
    <2>3. (1..(i + 1)) \ {i + 1} = 1..i OBVIOUS
    <2>4. QED BY <1>5, <2>1, <2>2, <2>3
  <1> DEFINE walk == [i \in 0..n |-> chosen[1..i]]
  <1>9. walk[0] = Outset(unscanned) /\ walk[n] = WalkOf(listing, fate, unscanned)
    <2>1. 1..0 = {} OBVIOUS
    <2>2. QED BY <1>6, <1>7, <2>1
  <1>10. ASSUME NEW i \in Nat, i + 1 \in 1..n PROVE walk[i + 1] = Visit(fate, walk[i], listing[i + 1])
    <2>1. i \in 0..n /\ i + 1 \in 0..n BY <1>10
    <2>2. QED BY <1>8, <1>10, <2>1
  <1> HIDE DEF walk
  <1>11. QED BY <1>9, <1>10 DEF Stepwise

\* What a counter gained since it was remembered, its owner has used since it was read.
GainIsSpent ==
  \A p \in Inodes : previous[p] # NoValue /\ previous[p] <= counter[p] =>
    counter[p] - previous[p] <= spent[p]

MetersInv == MeterTypes /\ GainIsSpent

LEMMA DifferenceIsSpent ==
  ASSUME MetersInv, NEW p \in Inodes
  PROVE  Difference(p, counter[p]) \in {NoRate} \cup 0..spent[p]
  <1>1. counter[p] \in Nat /\ spent[p] \in Nat /\ (previous[p] \in Nat \/ previous[p] = NoValue)
    BY DEF MetersInv, MeterTypes
  <1>2. CASE previous[p] = NoValue \/ counter[p] < previous[p] BY <1>2 DEF Difference
  <1>3. CASE previous[p] # NoValue /\ ~(counter[p] < previous[p])
    <2>1. previous[p] \in Nat /\ previous[p] <= counter[p] BY <1>1, <1>3
    <2>2. counter[p] - previous[p] <= spent[p] BY <1>3, <2>1 DEF MetersInv, GainIsSpent
    <2>3. Difference(p, counter[p]) = counter[p] - previous[p] BY <1>3 DEF Difference
    <2>4. QED BY <1>1, <2>1, <2>2, <2>3
  <1>4. QED BY <1>2, <1>3

\* A job has one directory among some, or more.
Once(dirs, j) == \E p \in dirs : owner[p] = j /\ \A q \in dirs : owner[q] = j => q = p
Twice(dirs, j) == \E p, q \in dirs : p # q /\ owner[p] = j /\ owner[q] = j

\* Another directory of one job changes nothing for the others.
LEMMA AnotherVisit ==
  ASSUME NEW old, NEW last, last \notin old, NEW j, j = owner[last]
  PROVE  /\ \A i : i # j => /\ Once(old \cup {last}, i) <=> Once(old, i)
                            /\ Twice(old \cup {last}, i) <=> Twice(old, i)
         /\ Once(old, j) \/ Twice(old, j) =>
              ~Once(old \cup {last}, j) /\ Twice(old \cup {last}, j)
         /\ ~Once(old, j) /\ ~Twice(old, j) =>
              Once(old \cup {last}, j) /\ ~Twice(old \cup {last}, j)
  <1> DEFINE has(i, h) == owner[h] = i
  <1>1. \A i : i # j => ~has(i, last) OBVIOUS
  <1>2. has(j, last) OBVIOUS
  <1>3. \A dirs, i : /\ Once(dirs, i) <=> \E h \in dirs : has(i, h) /\ \A g \in dirs : has(i, g) => g = h
                     /\ Twice(dirs, i) <=> \E h, g \in dirs : h # g /\ has(i, h) /\ has(i, g)
    BY DEF Once, Twice
  <1> HIDE DEF has
  <1>4. \A i : /\ Once(old, i) <=> \E h \in old : has(i, h) /\ \A g \in old : has(i, g) => g = h
               /\ Twice(old, i) <=> \E h, g \in old : h # g /\ has(i, h) /\ has(i, g)
    BY <1>3
  <1>5. \A i : /\ Once(old \cup {last}, i) <=>
                    \E h \in old \cup {last} : has(i, h) /\ \A g \in old \cup {last} : has(i, g) => g = h
               /\ Twice(old \cup {last}, i) <=>
                    \E h, g \in old \cup {last} : h # g /\ has(i, h) /\ has(i, g)
    BY <1>3
  <1>7. ASSUME NEW i, i # j
        PROVE  /\ Once(old \cup {last}, i) <=> Once(old, i)
               /\ Twice(old \cup {last}, i) <=> Twice(old, i)
    <2>1. ~has(i, last) BY <1>1, <1>7
    <2>2. Once(old \cup {last}, i) <=> Once(old, i) BY <1>4, <1>5, <2>1
    <2>3. Twice(old \cup {last}, i) <=> Twice(old, i) BY <1>4, <1>5, <2>1
    <2>4. QED BY <2>2, <2>3
  <1>8. Once(old, j) \/ Twice(old, j) => ~Once(old \cup {last}, j) /\ Twice(old \cup {last}, j)
    BY <1>2, <1>4, <1>5
  <1>9. ~Once(old, j) /\ ~Twice(old, j) => \A h \in old : ~has(j, h) BY <1>4
  <1>10. ~Once(old, j) /\ ~Twice(old, j) => Once(old \cup {last}, j) /\ ~Twice(old \cup {last}, j)
    BY <1>2, <1>5, <1>9
  <1>11. QED BY <1>7, <1>8, <1>10

\* What the walk knows after k visits: every rate is of a directory it has seen, a job is
\* reported if it has seen one directory of it, and it has seen all that no error hides.
Sound(w) ==
  \A j \in DOMAIN w.rates : \E p \in w.seen : owner[p] = j /\ w.rates[j] \in {NoRate} \cup 0..spent[p]
Few(w) == IsFiniteSet(DOMAIN w.rates) /\ Cardinality(DOMAIN w.rates) <= MaxSampled
Exactly(w) ==
  ~w.truncated => \A j \in MeterJobs :
    (j \in DOMAIN w.rates <=> Once(w.seen, j)) /\ (j \in w.twice <=> Twice(w.seen, j))
Listed(w, listing, k) == \A p \in w.seen : \E i \in 1..k : listing[i] = p
Excused(fate, unscanned) == unscanned \cup {Under[q] : q \in {d \in Dirs : fate[d] = "gone"}}
Thorough(w, listing, k, fate, unscanned) ==
  ~w.truncated => \A i \in 1..k : listing[i] \in w.seen \/ listing[i] \in Hidden(fate, unscanned)

WalkKnows(w, listing, k, fate, unscanned) ==
  /\ w \in Walks /\ w.seen \subseteq Dirs /\ w.left \subseteq Excused(fate, unscanned)
  /\ Sound(w) /\ Few(w) /\ Exactly(w)
  /\ Listed(w, listing, k) /\ Thorough(w, listing, k, fate, unscanned)

Distinct(listing, n) == \A i, h \in 1..n : i # h => listing[i] # listing[h]

LEMMA HiddenCases ==
  ASSUME NEW fate, NEW unscanned, NEW p \in Dirs,
         fate[p] = "nameless" \/ Under[p] \in Excused(fate, unscanned)
  PROVE  p \in Hidden(fate, unscanned)
  BY Zenon DEF Hidden, Excused

LEMMA PassedKnows ==
  ASSUME NEW fate, NEW unscanned, NEW w, NEW v \in Walks, NEW p \in Dirs, PassedOver(v, w, p, fate),
         NEW listing, NEW k \in Nat, p = listing[k + 1], WalkKnows(w, listing, k, fate, unscanned)
  PROVE  WalkKnows(v, listing, k + 1, fate, unscanned)
  <1>1. v.rates = w.rates /\ v.twice = w.twice /\ v.seen = w.seen /\ v.truncated = w.truncated
    BY DEF PassedOver
  <1>2. fate[p] = "gone" => Under[p] \in Excused(fate, unscanned) BY Zenon DEF Excused
  <1>3. w.left \subseteq Excused(fate, unscanned) BY DEF WalkKnows
  <1>4. v.left \subseteq Excused(fate, unscanned) BY <1>2, <1>3 DEF PassedOver
  <1>5. p \in Hidden(fate, unscanned) BY <1>2, <1>3, HiddenCases DEF PassedOver
  <1>6. Sound(v) /\ Few(v) /\ Exactly(v) BY <1>1 DEF WalkKnows, Sound, Few, Exactly
  <1>7. \A i \in 1..(k + 1) : i \in 1..k \/ i = k + 1 OBVIOUS
  <1>8. \A i \in 1..k : i \in 1..(k + 1) OBVIOUS
  <1>9. Listed(v, listing, k + 1) BY <1>1, <1>8 DEF WalkKnows, Listed
  <1>10. Thorough(v, listing, k + 1, fate, unscanned) BY <1>1, <1>5, <1>7 DEF WalkKnows, Thorough
  <1>11. QED BY <1>1, <1>4, <1>6, <1>9, <1>10 DEF WalkKnows

LEMMA CutKnows ==
  ASSUME NEW fate, NEW unscanned, NEW w, NEW v \in Walks, CutShort(v, w),
         NEW listing, NEW k \in Nat, WalkKnows(w, listing, k, fate, unscanned)
  PROVE  WalkKnows(v, listing, k + 1, fate, unscanned)
  <1>1. v.rates = w.rates /\ v.seen = w.seen /\ v.left = w.left /\ v.truncated BY DEF CutShort
  <1>2. Sound(v) /\ Few(v) /\ Exactly(v) BY <1>1 DEF WalkKnows, Sound, Few, Exactly
  <1>3. \A i \in 1..k : i \in 1..(k + 1) OBVIOUS
  <1>4. Listed(v, listing, k + 1) BY <1>1, <1>3 DEF WalkKnows, Listed
  <1>5. Thorough(v, listing, k + 1, fate, unscanned) BY <1>1 DEF Thorough
  <1>6. QED BY <1>1, <1>2, <1>4, <1>5 DEF WalkKnows

\* A directory that counts is new, and the walk knows it from now on.
LEMMA CountsKnows ==
  ASSUME NEW fate, NEW unscanned, NEW w, NEW v \in Walks, NEW p \in Dirs, Counts(v, w, p),
         NEW listing, NEW k \in Nat, p = listing[k + 1], WalkKnows(w, listing, k, fate, unscanned),
         Sound(v), Few(v), Exactly(v)
  PROVE  WalkKnows(v, listing, k + 1, fate, unscanned)
  <1>1. ~w.truncated /\ v.left = w.left /\ v.seen = w.seen \cup {p} BY DEF Counts
  <1>2. \A i \in 1..(k + 1) : i \in 1..k \/ i = k + 1 OBVIOUS
  <1>3. k + 1 \in 1..(k + 1) /\ \A i \in 1..k : i \in 1..(k + 1) OBVIOUS
  <1>4. Listed(v, listing, k + 1) BY <1>1, <1>3 DEF WalkKnows, Listed
  <1>5. Thorough(v, listing, k + 1, fate, unscanned) BY <1>1, <1>2 DEF WalkKnows, Thorough
  <1>6. QED BY <1>1, <1>4, <1>5 DEF WalkKnows

LEMMA AgainKnows ==
  ASSUME NEW w \in Walks, NEW v, NEW p \in Dirs, p \notin w.seen, Counts(v, w, p), MetAgain(v, w, p),
         Sound(w), Few(w), Exactly(w)
  PROVE  Sound(v) /\ Few(v) /\ Exactly(v)
  <1> DEFINE j == owner[p]
  <1>1. ~w.truncated /\ v.seen = w.seen \cup {p} /\ j \in MeterJobs BY DEF Counts, Dirs
  <1>2. /\ j \in DOMAIN w.rates \cup w.twice
        /\ v.twice = w.twice \cup {j} /\ DOMAIN v.rates = DOMAIN w.rates \ {j}
        /\ \A i \in DOMAIN v.rates : v.rates[i] = w.rates[i]
    BY DEF MetAgain
  <1>3. \A i \in MeterJobs : (i \in DOMAIN w.rates <=> Once(w.seen, i)) /\ (i \in w.twice <=> Twice(w.seen, i))
    BY <1>1 DEF Exactly
  <1>4. Sound(v) BY <1>1, <1>2 DEF Sound
  <1>5. Few(v)
    <2>1. DOMAIN v.rates \in SUBSET DOMAIN w.rates BY <1>2
    <2>2. IsFiniteSet(DOMAIN v.rates) /\ Cardinality(DOMAIN v.rates) <= Cardinality(DOMAIN w.rates)
      BY <2>1, FS_Subset DEF Few
    <2>3. Cardinality(DOMAIN v.rates) \in Nat /\ Cardinality(DOMAIN w.rates) \in Nat
      BY <2>2, FS_CardinalityType DEF Few
    <2>4. QED BY <2>2, <2>3, MetersAssumption DEF Few
  <1>6. ASSUME NEW i \in MeterJobs
        PROVE  (i \in DOMAIN v.rates <=> Once(v.seen, i)) /\ (i \in v.twice <=> Twice(v.seen, i))
    <2>1. CASE i = j
      <3>1. Once(w.seen, j) \/ Twice(w.seen, j) BY <1>1, <1>2, <1>3
      <3>2. ~Once(w.seen \cup {p}, j) /\ Twice(w.seen \cup {p}, j) BY <3>1, AnotherVisit
      <3>3. ~Once(v.seen, j) /\ Twice(v.seen, j) BY <1>1, <3>2
      <3>4. QED BY <1>2, <2>1, <3>3
    <2>2. CASE i # j
      <3>1. (Once(v.seen, i) <=> Once(w.seen, i)) /\ (Twice(v.seen, i) <=> Twice(w.seen, i))
        BY <1>1, <2>2, AnotherVisit
      <3>2. QED BY <1>2, <1>3, <2>2, <3>1
    <2>3. QED BY <2>1, <2>2
  <1>7. QED BY <1>4, <1>5, <1>6 DEF Exactly

LEMMA FirstKnows ==
  ASSUME MetersInv, NEW w \in Walks, NEW v, NEW p \in Dirs, p \notin w.seen, Counts(v, w, p),
         MetFirst(v, w, p), ~(Cardinality(DOMAIN w.rates) >= MaxSampled), Sound(w), Few(w), Exactly(w)
  PROVE  Sound(v) /\ Few(v) /\ Exactly(v)
  <1> DEFINE j == owner[p]
  <1>1. ~w.truncated /\ v.seen = w.seen \cup {p} /\ j \in MeterJobs /\ p \in Inodes BY DEF Counts, Dirs
  <1>2. /\ j \notin DOMAIN w.rates \cup w.twice
        /\ v.twice = w.twice /\ DOMAIN v.rates = DOMAIN w.rates \cup {j}
        /\ \A i \in DOMAIN w.rates : v.rates[i] = w.rates[i]
        /\ v.rates[j] \in {NoRate, Difference(p, counter[p])}
    BY DEF MetFirst
  <1>3. \A i \in MeterJobs : (i \in DOMAIN w.rates <=> Once(w.seen, i)) /\ (i \in w.twice <=> Twice(w.seen, i))
    BY <1>1 DEF Exactly
  <1>4. Sound(v)
    <2>1. Difference(p, counter[p]) \in {NoRate} \cup 0..spent[p] BY <1>1, DifferenceIsSpent
    <2>2. v.rates[j] \in {NoRate} \cup 0..spent[p] BY <1>2, <2>1
    <2>3. ASSUME NEW i \in DOMAIN w.rates
          PROVE  \E q \in v.seen : owner[q] = i /\ v.rates[i] \in {NoRate} \cup 0..spent[q]
      <3>1. PICK q \in w.seen : owner[q] = i /\ w.rates[i] \in {NoRate} \cup 0..spent[q] BY DEF Sound
      <3>2. q \in v.seen /\ v.rates[i] = w.rates[i] BY <1>1, <1>2, <2>3
      <3>3. QED BY <3>1, <3>2
    <2>4. p \in v.seen BY <1>1
    <2>5. QED BY <1>2, <2>2, <2>3, <2>4 DEF Sound
  <1>5. Few(v)
    <2>1. IsFiniteSet(DOMAIN w.rates) /\ Cardinality(DOMAIN w.rates) \in Nat BY FS_CardinalityType DEF Few
    <2> DEFINE jobs == DOMAIN w.rates
    <2>2. IsFiniteSet(jobs) /\ j \notin jobs /\ DOMAIN v.rates = jobs \cup {j} BY <1>2, <2>1
    <2> HIDE DEF jobs, j
    <2>3. IsFiniteSet(jobs \cup {j}) /\ Cardinality(jobs \cup {j}) = Cardinality(jobs) + 1
      BY <2>2, FS_AddElement
    <2>4. IsFiniteSet(DOMAIN v.rates) /\ Cardinality(DOMAIN v.rates) = Cardinality(DOMAIN w.rates) + 1
      BY <2>2, <2>3 DEF jobs
    <2>5. QED BY <2>1, <2>4, MetersAssumption DEF Few
  <1>6. ASSUME NEW i \in MeterJobs
        PROVE  (i \in DOMAIN v.rates <=> Once(v.seen, i)) /\ (i \in v.twice <=> Twice(v.seen, i))
    <2>1. CASE i = j
      <3>1. ~Once(w.seen, j) /\ ~Twice(w.seen, j) BY <1>1, <1>2, <1>3
      <3>2. Once(v.seen, j) /\ ~Twice(v.seen, j) BY <1>1, <3>1, AnotherVisit
      <3>3. j \in DOMAIN v.rates /\ j \notin v.twice BY <1>2
      <3>4. QED BY <2>1, <3>2, <3>3
    <2>2. CASE i # j
      <3>1. (Once(v.seen, i) <=> Once(w.seen, i)) /\ (Twice(v.seen, i) <=> Twice(w.seen, i))
        BY <1>1, <2>2, AnotherVisit
      <3>2. QED BY <1>2, <1>3, <2>2, <3>1
    <2>3. QED BY <2>1, <2>2
  <1>7. QED BY <1>4, <1>5, <1>6 DEF Exactly

LEMMA VisitKnows ==
  ASSUME MetersInv, NEW fate, NEW unscanned \in SUBSET Parents, NEW n \in Nat,
         NEW listing \in [1..n -> Dirs], Distinct(listing, n),
         NEW k \in Nat, k + 1 \in 1..n, NEW w, WalkKnows(w, listing, k, fate, unscanned)
  PROVE  WalkKnows(Visit(fate, w, listing[k + 1]), listing, k + 1, fate, unscanned)
  <1> DEFINE p == listing[k + 1]
             v == Visit(fate, w, p)
  <1>1. p \in Dirs OBVIOUS
  <1>2. w \in Walks /\ MeterTypes /\ Sound(w) /\ Few(w) /\ Exactly(w) BY DEF WalkKnows, MetersInv
  <1>3. p \notin w.seen
    <2>1. \A i \in 1..k : i \in 1..n /\ i # k + 1 OBVIOUS
    <2>2. \A i \in 1..k : listing[i] # p BY <2>1 DEF Distinct
    <2>3. QED BY <2>2 DEF WalkKnows, Listed
  <1>4. /\ v \in Walks
        /\ \/ PassedOver(v, w, p, fate)
           \/ CutShort(v, w)
           \/ Counts(v, w, p) /\ MetAgain(v, w, p)
           \/ /\ Counts(v, w, p) /\ MetFirst(v, w, p)
              /\ ~(Cardinality(DOMAIN w.rates) >= MaxSampled)
    BY <1>1, <1>2, VisitCases
  <1>5. p = listing[k + 1] OBVIOUS
  <1> HIDE DEF p, v
  <1>6. CASE PassedOver(v, w, p, fate) BY <1>1, <1>4, <1>5, <1>6, PassedKnows DEF p, v
  <1>7. CASE CutShort(v, w) BY <1>4, <1>7, CutKnows DEF p, v
  <1>8. CASE Counts(v, w, p) /\ MetAgain(v, w, p)
    <2>1. Sound(v) /\ Few(v) /\ Exactly(v) BY <1>1, <1>2, <1>3, <1>8, AgainKnows
    <2>2. QED BY <1>1, <1>4, <1>5, <1>8, <2>1, CountsKnows DEF p, v
  <1>9. CASE Counts(v, w, p) /\ MetFirst(v, w, p) /\ ~(Cardinality(DOMAIN w.rates) >= MaxSampled)
    <2>1. Sound(v) /\ Few(v) /\ Exactly(v) BY <1>1, <1>2, <1>3, <1>9, FirstKnows
    <2>2. QED BY <1>1, <1>4, <1>5, <1>9, <2>1, CountsKnows DEF p, v
  <1>10. QED BY <1>4, <1>6, <1>7, <1>8, <1>9

LEMMA WalkEnds ==
  ASSUME MetersInv, NEW fate, NEW unscanned \in SUBSET Parents, NEW n \in Nat,
         NEW listing \in [1..n -> Dirs], Distinct(listing, n)
  PROVE  WalkKnows(WalkOf(listing, fate, unscanned), listing, n, fate, unscanned)
  <1>0. PICK walk : Stepwise(walk, n, listing, fate, unscanned) BY WalkIsStepwise DEF MetersInv
  <1>1. /\ walk[0] = Outset(unscanned) /\ walk[n] = WalkOf(listing, fate, unscanned)
        /\ \A i \in Nat : i + 1 \in 1..n => walk[i + 1] = Visit(fate, walk[i], listing[i + 1])
    BY <1>0 DEF Stepwise
  <1> DEFINE Q(m) == m <= n => WalkKnows(walk[m], listing, m, fate, unscanned)
             S == {m \in Nat : Q(m)}
             start == Outset(unscanned)
  <1>2. Q(0)
    <2>1. DOMAIN <<>> = {} /\ <<>> \in [{} -> Rates] OBVIOUS
    <2>2. <<>> \in RateMaps BY <2>1 DEF RateMaps
    <2>3. start \in Walks BY <2>2 DEF Outset, Walks
    <2>4. DOMAIN start.rates = {} /\ start.twice = {} /\ start.seen = {} /\ start.left = unscanned
      BY <2>1 DEF Outset
    <2> HIDE DEF start
    <2>5. Few(start) BY <2>4, FS_EmptySet, MetersAssumption DEF Few
    <2>6. Sound(start) /\ Exactly(start) BY <2>4 DEF Sound, Exactly, Once, Twice
    <2>7. Listed(start, listing, 0) /\ Thorough(start, listing, 0, fate, unscanned)
      BY <2>4 DEF Listed, Thorough
    <2>8. start.left \subseteq Excused(fate, unscanned) BY <2>4 DEF Excused
    <2>9. WalkKnows(start, listing, 0, fate, unscanned)
      BY <2>3, <2>4, <2>5, <2>6, <2>7, <2>8 DEF WalkKnows
    <2>10. QED BY <1>1, <2>9 DEF start
  <1>3. ASSUME NEW m \in Nat, Q(m) PROVE Q(m + 1)
    <2> SUFFICES ASSUME m + 1 <= n PROVE WalkKnows(walk[m + 1], listing, m + 1, fate, unscanned) OBVIOUS
    <2>1. m <= n /\ m + 1 \in 1..n OBVIOUS
    <2>2. WalkKnows(walk[m], listing, m, fate, unscanned) BY <1>3, <2>1
    <2>3. WalkKnows(Visit(fate, walk[m], listing[m + 1]), listing, m + 1, fate, unscanned)
      BY <2>1, <2>2, VisitKnows
    <2>4. QED BY <1>1, <2>1, <2>3
  <1> HIDE DEF Q
  <1>4. 0 \in S /\ \A m \in Nat : m \in S => m + 1 \in S BY <1>2, <1>3
  <1> HIDE DEF S
  <1>5. n \in S BY <1>4, Upwards
  <1>6. Q(n) BY <1>5 DEF S
  <1>7. QED BY <1>1, <1>6 DEF Q

\* An listing has every directory.
LEMMA OrderIsOnto ==
  ASSUME NEW S, IsFiniteSet(S), NEW listing \in SetToSeqs(S)
  PROVE  /\ Cardinality(S) \in Nat /\ listing \in [1..Cardinality(S) -> S]
         /\ \A i, k \in 1..Cardinality(S) : i # k => listing[i] # listing[k]
         /\ \A p \in S : \E i \in 1..Cardinality(S) : listing[i] = p
  <1> DEFINE n == Cardinality(S)
  <1>1. n \in Nat BY FS_CardinalityType
  <1>2. listing \in [1..n -> S] /\ \A i, k \in 1..n : i # k => listing[i] # listing[k] BY DEF SetToSeqs
  <1>3. IsFiniteSet(1..n) /\ Cardinality(1..n) = n
    <2>1. 1 \in Int /\ n \in Int BY <1>1
    <2>2. IsFiniteSet(1..n) /\ Cardinality(1..n) = IF 1 > n THEN 0 ELSE n - 1 + 1 BY <2>1, FS_Interval
    <2>3. QED BY <1>1, <2>2
  <1> HIDE DEF n
  <1>4. listing \in Injection(1..n, S) BY <1>2 DEF Injection, IsInjective
  <1>5. listing \in Surjection(1..n, S) BY <1>3, <1>4, FS_Injection DEF n
  <1>6. \A p \in S : \E i \in 1..n : listing[i] = p BY <1>5 DEF Surjection
  <1>7. QED BY <1>1, <1>2, <1>6 DEF n

\* What holds of a walk that is over: "missed" are the directories that errors may hide.
HonestWalk(rates, truncated, missed) ==
  /\ \A j \in DOMAIN rates : \E p \in Dirs : owner[p] = j /\ rates[j] \in {NoRate} \cup 0..spent[p]
  /\ Cardinality(DOMAIN rates) <= MaxSampled
  /\ ~truncated => \A p \in Dirs \ missed :
       /\ (\A q \in Dirs : owner[q] = owner[p] => q = p) => owner[p] \in DOMAIN rates
       /\ (\E q \in Dirs \ missed : q # p /\ owner[q] = owner[p]) => owner[p] \notin DOMAIN rates

LEMMA SampleIsHonest ==
  ASSUME MetersInv, NEW fate, NEW unscanned \in SUBSET Parents, NEW listing \in SetToSeqs(Dirs)
  PROVE  LET w == WalkOf(listing, fate, unscanned) IN
         HonestWalk(w.rates, w.truncated, Hidden(fate, unscanned))
  <1> DEFINE n == Cardinality(Dirs)
             w == WalkOf(listing, fate, unscanned)
             missed == Hidden(fate, unscanned)
  <1>1. IsFiniteSet(Dirs) BY MetersAssumption, FS_Subset DEF Dirs
  <1>2. /\ n \in Nat /\ listing \in [1..n -> Dirs] /\ Distinct(listing, n)
        /\ \A p \in Dirs : \E i \in 1..n : listing[i] = p
    BY <1>1, OrderIsOnto DEF Distinct
  <1> HIDE DEF n, w
  <1>3. WalkKnows(w, listing, n, fate, unscanned) BY <1>2, WalkEnds DEF w
  <1> HIDE DEF missed
  <1>4. w.seen \subseteq Dirs /\ Sound(w) /\ Few(w) /\ Exactly(w) BY <1>3 DEF WalkKnows
  <1>5. \A j \in DOMAIN w.rates : \E p \in Dirs : owner[p] = j /\ w.rates[j] \in {NoRate} \cup 0..spent[p]
    BY <1>4 DEF Sound
  <1>6. ~w.truncated => \A p \in Dirs \ missed : p \in w.seen
    BY <1>2, <1>3 DEF WalkKnows, Thorough, missed
  <1>7. ASSUME ~w.truncated, NEW p \in Dirs \ missed, \A q \in Dirs : owner[q] = owner[p] => q = p
        PROVE  owner[p] \in DOMAIN w.rates
    <2>1. p \in w.seen /\ owner[p] \in MeterJobs BY <1>6, <1>7 DEF Dirs
    <2>2. Once(w.seen, owner[p]) BY <1>4, <1>7, <2>1 DEF Once
    <2>3. QED BY <1>4, <1>7, <2>1, <2>2 DEF Exactly
  <1>8. ASSUME ~w.truncated, NEW p \in Dirs \ missed, NEW q \in Dirs \ missed, q # p, owner[q] = owner[p]
        PROVE  owner[p] \notin DOMAIN w.rates
    <2>1. p \in w.seen /\ q \in w.seen /\ owner[p] \in MeterJobs BY <1>6, <1>8 DEF Dirs
    <2>2. ~Once(w.seen, owner[p]) BY <1>8, <2>1 DEF Once
    <2>3. QED BY <1>4, <1>8, <2>1, <2>2 DEF Exactly
  <1>9. HonestWalk(w.rates, w.truncated, missed) BY <1>4, <1>5, <1>7, <1>8 DEF HonestWalk, Few
  <1>10. QED BY <1>9 DEF w, missed

LEMMA InitMeters == MetersInit => MetersInv
  <1> SUFFICES ASSUME MetersInit PROVE MetersInv OBVIOUS
  <1>1. 0 \in 0..(Wrap - 1) BY MetersAssumption
  <1>2. MeterTypes BY <1>1 DEF MetersInit, MeterTypes
  <1>3. GainIsSpent BY DEF MetersInit, GainIsSpent
  <1>4. QED BY <1>2, <1>3 DEF MetersInv

LEMMA NextCount ==
  ASSUME NEW w \in Nat \ {0}, NEW c \in 0..(w - 1)
  PROVE  (c + 1) % w = IF c + 1 = w THEN 0 ELSE c + 1
  <1>1. CASE c + 1 = w BY <1>1
  <1>2. CASE c + 1 # w BY <1>2
  <1>3. QED BY <1>1, <1>2

LEMMA ConsumesKeeps == ASSUME MetersInv, NEW p \in Inodes, Consumes(p) PROVE MetersInv'
  <1> DEFINE c == (counter[p] + 1) % Wrap
  <1>1. counter[p] \in 0..(Wrap - 1) /\ spent[p] \in Nat /\ Wrap \in Nat \ {0}
    BY MetersAssumption DEF MetersInv, MeterTypes
  <1>2. c = IF counter[p] + 1 = Wrap THEN 0 ELSE counter[p] + 1 BY <1>1, NextCount
  <1>3. counter' = [counter EXCEPT ![p] = c] /\ spent' = [spent EXCEPT ![p] = @ + 1]
        /\ owner' = owner /\ previous' = previous
    BY DEF Consumes
  <1> HIDE DEF c
  <1>4. c \in 0..(Wrap - 1) BY <1>1, <1>2
  <1>5. MeterTypes'
    <2>1. counter' \in [Inodes -> 0..(Wrap - 1)] BY <1>3, <1>4 DEF MetersInv, MeterTypes
    <2>2. spent' \in [Inodes -> Nat] BY <1>1, <1>3 DEF MetersInv, MeterTypes
    <2>3. QED BY <1>3, <2>1, <2>2 DEF MetersInv, MeterTypes
  <1>6. ASSUME NEW q \in Inodes, previous[q] # NoValue, previous[q] <= counter'[q]
        PROVE  counter'[q] - previous[q] <= spent'[q]
    <2>1. CASE q # p
      <3>1. counter'[q] = counter[q] /\ spent'[q] = spent[q] BY <1>3, <2>1 DEF MetersInv, MeterTypes
      <3>2. QED BY <1>6, <3>1 DEF MetersInv, GainIsSpent
    <2>2. CASE q = p
      <3>1. counter'[p] = c /\ spent'[p] = spent[p] + 1 BY <1>3 DEF MetersInv, MeterTypes
      <3>2. previous[p] \in Nat BY <1>6, <2>2 DEF MetersInv, MeterTypes
      <3>3. previous[p] <= counter[p] => counter[p] - previous[p] <= spent[p]
        BY <1>6, <2>2 DEF MetersInv, GainIsSpent
      <3>4. QED BY <1>1, <1>2, <1>6, <2>2, <3>1, <3>2, <3>3
    <2>3. QED BY <2>1, <2>2
  <1>7. GainIsSpent' BY <1>3, <1>6 DEF GainIsSpent
  <1>8. QED BY <1>5, <1>7 DEF MetersInv

LEMMA ReplacesKeeps ==
  ASSUME MetersInv, NEW p \in Inodes, NEW j \in MeterJobs \cup {Void}, Replaces(p, j) PROVE MetersInv'
  <1> USE DEF MetersInv
  <1>1. /\ owner' = [owner EXCEPT ![p] = j] /\ counter' = [counter EXCEPT ![p] = 0]
        /\ spent' = [spent EXCEPT ![p] = 0] /\ previous' = previous
    BY DEF Replaces
  <1>2. 0 \in 0..(Wrap - 1) BY MetersAssumption
  <1>3. MeterTypes'
    <2>1. owner' \in [Inodes -> MeterJobs \cup {Domain, Void}] BY <1>1 DEF MeterTypes
    <2>2. counter' \in [Inodes -> 0..(Wrap - 1)] BY <1>1, <1>2 DEF MeterTypes
    <2>3. spent' \in [Inodes -> Nat] BY <1>1 DEF MeterTypes
    <2>4. QED BY <1>1, <2>1, <2>2, <2>3 DEF MeterTypes
  <1>4. ASSUME NEW q \in Inodes, previous[q] # NoValue, previous[q] <= counter'[q]
        PROVE  counter'[q] - previous[q] <= spent'[q]
    <2>1. CASE q # p
      <3>1. counter'[q] = counter[q] /\ spent'[q] = spent[q] BY <1>1, <2>1 DEF MeterTypes
      <3>2. QED BY <1>4, <3>1 DEF GainIsSpent
    <2>2. CASE q = p
      <3>1. counter'[p] = 0 /\ spent'[p] = 0 BY <1>1 DEF MeterTypes
      <3>2. previous[p] \in Nat BY <1>4, <2>2 DEF MeterTypes
      <3>3. QED BY <1>4, <2>2, <3>1, <3>2
    <2>3. QED BY <2>1, <2>2
  <1>5. GainIsSpent' BY <1>1, <1>4 DEF GainIsSpent
  <1>6. QED BY <1>3, <1>5

\* A reading that is remembered starts a new account, one that is kept keeps its own.
LEMMA MemoryKeeps ==
  ASSUME MetersInv, UNCHANGED <<owner, counter>>, NEW fresh \in SUBSET Inodes, NEW kept \in SUBSET Inodes,
         previous' = [p \in Inodes |-> IF p \in fresh THEN counter[p]
                                       ELSE IF p \in kept THEN previous[p] ELSE NoValue],
         spent' = [p \in Inodes |-> IF p \in fresh THEN 0 ELSE spent[p]]
  PROVE  MetersInv'
  <1> USE DEF MetersInv
  <1>1. owner' = owner /\ counter' = counter OBVIOUS
  <1>2. \A p \in Inodes : counter[p] \in Nat /\ spent[p] \in Nat BY MetersAssumption DEF MeterTypes
  <1>3. MeterTypes' BY <1>1, <1>2 DEF MeterTypes
  <1>4. ASSUME NEW q \in Inodes, previous'[q] # NoValue, previous'[q] <= counter[q]
        PROVE  counter[q] - previous'[q] <= spent'[q]
    <2>1. CASE q \in fresh
      <3>1. previous'[q] = counter[q] /\ spent'[q] = 0 BY <2>1
      <3>2. QED BY <1>2, <3>1
    <2>2. CASE q \notin fresh
      <3>1. previous'[q] = previous[q] /\ spent'[q] = spent[q] BY <1>4, <2>2
      <3>2. QED BY <1>4, <3>1 DEF GainIsSpent
    <2>3. QED BY <2>1, <2>2
  <1>5. GainIsSpent' BY <1>1, <1>4 DEF GainIsSpent
  <1>6. QED BY <1>3, <1>5

LEMMA SamplingKeeps ==
  ASSUME MetersInv, NEW listing, NEW fate, NEW unscanned, Sampling(listing, fate, unscanned)
  PROVE  MetersInv'
  <1> DEFINE walk == WalkOf(listing, fate, unscanned)
             readable == Legible(fate)
             fresh == Inodes \cap ((walk.read \cup EnergyDomains) \cap readable)
             kept == Inodes \cap ((walk.seen \ walk.read) \cup EnergyDomains)
  <1>1. /\ UNCHANGED <<owner, counter>> /\ previous' = Remembered(walk, readable)
        /\ spent' = [p \in Inodes |-> IF p \in (walk.read \cup EnergyDomains) \cap readable
                                      THEN 0 ELSE spent[p]]
    BY DEF Sampling, WalkOf
  <1> HIDE DEF walk, readable
  <1>2. previous' = [p \in Inodes |-> IF p \in fresh THEN counter[p]
                                      ELSE IF p \in kept THEN previous[p] ELSE NoValue]
    BY <1>1 DEF Remembered
  <1>3. spent' = [p \in Inodes |-> IF p \in fresh THEN 0 ELSE spent[p]] BY <1>1
  <1>4. fresh \in SUBSET Inodes /\ kept \in SUBSET Inodes OBVIOUS
  <1> HIDE DEF fresh, kept
  <1>5. QED BY <1>1, <1>2, <1>3, <1>4, MemoryKeeps

LEMMA SentKeeps == ASSUME MetersInv, Sent PROVE MetersInv'
  BY DEF Sent, MetersInv, MeterTypes, GainIsSpent

LEMMA NoTreeKeeps == ASSUME MetersInv, NoTree PROVE MetersInv'
  <1> DEFINE fresh == {}
  <1>1. UNCHANGED <<owner, counter>> /\ spent' = spent BY DEF NoTree
  <1>2. previous' = [p \in Inodes |-> IF p \in fresh THEN counter[p]
                                      ELSE IF p \in EnergyDomains THEN previous[p] ELSE NoValue]
    BY DEF NoTree
  <1>3. spent' = [p \in Inodes |-> IF p \in fresh THEN 0 ELSE spent[p]]
    BY <1>1 DEF MetersInv, MeterTypes
  <1>4. fresh \in SUBSET Inodes /\ EnergyDomains \in SUBSET Inodes BY DEF EnergyDomains
  <1> HIDE DEF fresh
  <1>5. QED BY <1>1, <1>2, <1>3, <1>4, MemoryKeeps

LEMMA NextMeters == MetersInv /\ [MetersNext]_meterVars => MetersInv'
  <1> SUFFICES ASSUME MetersInv, [MetersNext]_meterVars PROVE MetersInv' OBVIOUS
  <1>1. CASE UNCHANGED meterVars BY <1>1 DEF meterVars, MetersInv, MeterTypes, GainIsSpent
  <1>2. CASE MetersNext
    BY <1>2, ConsumesKeeps, ReplacesKeeps, SamplingKeeps, NoTreeKeeps, SentKeeps DEF MetersNext
  <1>3. QED BY <1>1, <1>2

\* What the property says of a step.
HonestSample ==
  sampled' # sampled /\ sampled' # Nothing =>
    /\ \A j \in DOMAIN sampled'.rates :
         \E p \in Dirs : owner[p] = j /\ sampled'.rates[j] \in {NoRate} \cup 0..spent[p]
    /\ \A p \in DOMAIN sampled'.energy : sampled'.energy[p] \in {NoRate} \cup 0..spent[p]
    /\ Cardinality(DOMAIN sampled'.rates) <= MaxSampled
    /\ ~sampled'.truncated => \A p \in Dirs \ sampled'.missed :
         /\ (\A q \in Dirs : owner[q] = owner[p] => q = p) => owner[p] \in DOMAIN sampled'.rates
         /\ (\E q \in Dirs \ sampled'.missed : q # p /\ owner[q] = owner[p])
              => owner[p] \notin DOMAIN sampled'.rates

LEMMA SamplesAreHonest == ASSUME MetersInv, [MetersNext]_meterVars PROVE HonestSample
  <1>1. ASSUME NEW listing \in SetToSeqs(Dirs), NEW fate, NEW unscanned \in SUBSET Parents,
               Sampling(listing, fate, unscanned)
        PROVE  HonestSample
    <2> DEFINE w == WalkOf(listing, fate, unscanned)
               missed == Hidden(fate, unscanned)
               sound == EnergyDomains \cap Legible(fate)
    <2>1. sampled' = [rates |-> w.rates, truncated |-> w.truncated,
                      energy |-> [p \in sound |-> Difference(p, counter[p])], missed |-> missed]
      BY <1>1 DEF Sampling, WalkOf
    <2>2. HonestWalk(w.rates, w.truncated, missed) BY SampleIsHonest
    <2> HIDE DEF w, missed
    <2>3. \A p \in sound : Difference(p, counter[p]) \in {NoRate} \cup 0..spent[p]
      BY DifferenceIsSpent DEF EnergyDomains
    <2> HIDE DEF sound
    <2>4. /\ sampled'.rates = w.rates /\ sampled'.truncated = w.truncated /\ sampled'.missed = missed
          /\ sampled'.energy = [p \in sound |-> Difference(p, counter[p])]
      BY <2>1
    <2>5. \A p \in DOMAIN sampled'.energy : sampled'.energy[p] \in {NoRate} \cup 0..spent[p] BY <2>3, <2>4
    <2>6. HonestWalk(sampled'.rates, sampled'.truncated, sampled'.missed) BY <2>2, <2>4
    <2>7. QED BY <2>5, <2>6 DEF HonestSample, HonestWalk
  <1>2. ASSUME sampled' = sampled \/ sampled' = Nothing PROVE HonestSample BY <1>2 DEF HonestSample
  <1>3. CASE UNCHANGED meterVars BY <1>2, <1>3 DEF meterVars
  <1>4. ASSUME NEW listing \in Orders, NEW fate \in SomeFates, NEW unscanned \in SomeUnscanned(fate),
               Sampling(listing, fate, unscanned)
        PROVE  HonestSample
    <2>1. listing \in SetToSeqs(Dirs) BY DEF Orders
    <2>2. unscanned \in SUBSET Parents BY DEF SomeUnscanned
    <2>3. QED BY <1>1, <1>4, <2>1, <2>2
  <1>5. CASE MetersNext BY <1>2, <1>4, <1>5 DEF MetersNext, Consumes, Replaces, NoTree, Sent
  <1>6. QED BY <1>3, <1>5

\* No rate is more than its owner used since the reading it starts from, though inodes are
\* used again, counters wrap and readings fail; a job is reported for one directory of its
\* own; and unless the walk was cut short, a job with just one directory is reported and one
\* with two is not, but for the directories that errors hide (node_telemetry.py:169, 237, 244).
THEOREM HonestMeters == MetersSpec => MetersAreHonest
  <1>1. MetersInv /\ [MetersNext]_meterVars => [HonestSample]_meterVars BY SamplesAreHonest
  <1>2. QED BY <1>1, InitMeters, NextMeters, PTL DEF MetersSpec, MetersAreHonest, HonestSample

-----------------------------------------------------------------------------
(* Days of one length, and what the loop has filed.                        *)

CalendarTypes ==
  /\ length = [d \in Days |-> Nominal]
  /\ begin \in Nat /\ end \in Nat /\ now \in Nat /\ begin < Until /\ Until < Span
  /\ gpus \in 1..2 /\ cutoff \in Days
  /\ recorded \in [Days -> [DayUsers -> Nat]]

\* The time of the job on a day before a moment.
Within(d, t) ==
  LET from == Most(begin, StartOf(d))
      to == Least(t, StartOf(d) + Nominal) IN
  IF from < to THEN to - from ELSE 0

\* The time before the cursor is filed.
FiledToCursor ==
  /\ cursor \in Nat /\ begin <= cursor
  /\ bucket = [d \in Days |-> IF d >= cutoff THEN gpus * Within(d, Least(Until, cursor)) ELSE 0]

SplitInv == CalendarTypes /\ FiledToCursor

LEMMA DaysAreFinite == Days \subseteq Nat /\ IsFiniteSet(Days)
  BY DaysAssumption, FS_Interval DEF Days

\* Midnights are a day apart.
LEMMA NextMidnight ==
  ASSUME length = [d \in Days |-> Nominal]
  PROVE  /\ StartOf(1) = 0
         /\ \A d \in Days : StartOf(d) \in Nat /\ StartOf(d + 1) = StartOf(d) + Nominal
  <1>1. length \in [Days -> Nat] BY DaysAssumption
  <1>a. IsSum(length, Days) BY <1>1, DaysAreFinite, Sums
  <1>2. /\ \A s \in SUBSET Days : SumFunctionOnSet(length, s) \in Nat
        /\ SumFunctionOnSet(length, {}) = 0
        /\ \A s \in SUBSET Days : \A x \in s :
             SumFunctionOnSet(length, s) = length[x] + SumFunctionOnSet(length, s \ {x})
    BY <1>a DEF IsSum
  <1>3. 1..(1 - 1) = {} OBVIOUS
  <1>4. ASSUME NEW d \in Days
        PROVE  StartOf(d) \in Nat /\ StartOf(d + 1) = StartOf(d) + Nominal
    <2>1. d \in Nat /\ d >= 1 /\ d <= LastDay BY DaysAssumption DEF Days
    <2>2. 1..d \in SUBSET Days /\ 1..(d - 1) \in SUBSET Days /\ d \in 1..d BY <2>1, DaysAssumption DEF Days
    <2>3. (1..d) \ {d} = 1..(d - 1) /\ (d + 1) - 1 = d BY <2>1
    <2> DEFINE upto == 1..d
    <2> HIDE DEF upto
    <2>a. upto \in SUBSET Days /\ d \in upto BY <2>2 DEF upto
    <2>b. SumFunctionOnSet(length, upto) = length[d] + SumFunctionOnSet(length, upto \ {d}) BY <1>2, <2>a
    <2>4. SumFunctionOnSet(length, 1..d) = length[d] + SumFunctionOnSet(length, 1..(d - 1))
      BY <2>b, <2>3 DEF upto
    <2>5. length[d] = Nominal /\ Nominal \in Nat BY DaysAssumption
    <2>6. SumFunctionOnSet(length, 1..(d - 1)) \in Nat BY <1>2, <2>2
    <2>7. QED BY <2>3, <2>4, <2>5, <2>6 DEF StartOf
  <1>5. QED BY <1>2, <1>3, <1>4 DEF StartOf

LEMMA LaterDays ==
  ASSUME length = [d \in Days |-> Nominal]
  PROVE  \A d, e \in Days : d < e => StartOf(d) + Nominal <= StartOf(e)
  <1> DEFINE Q(m) == \A d, e \in Days : e <= m /\ d < e => StartOf(d) + Nominal <= StartOf(e)
             S == {m \in Nat : Q(m)}
  <1>0. Days \subseteq Nat /\ Nominal \in Nat BY DaysAssumption, DaysAreFinite
  <1>1. Q(0) BY <1>0 DEF Days
  <1>2. ASSUME NEW m \in Nat, Q(m) PROVE Q(m + 1)
    <2> SUFFICES ASSUME NEW d \in Days, NEW e \in Days, e <= m + 1, d < e
                 PROVE  StartOf(d) + Nominal <= StartOf(e)
      OBVIOUS
    <2>1. CASE e <= m BY <1>2, <2>1
    <2>2. CASE e = m + 1
      <3>1. m \in Days BY <2>2, DaysAssumption DEF Days
      <3>2. StartOf(e) = StartOf(m) + Nominal /\ StartOf(m) \in Nat BY <2>2, <3>1, NextMidnight
      <3>3. CASE d = m BY <3>2, <3>3, <1>0
      <3>4. CASE d # m
        <4>1. d < m /\ m <= m BY <1>0, <2>2, <3>4
        <4>2. StartOf(d) + Nominal <= StartOf(m) BY <1>2, <3>1, <4>1
        <4>3. StartOf(d) \in Nat BY NextMidnight
        <4>4. QED BY <1>0, <3>2, <4>2, <4>3
      <3>5. QED BY <3>3, <3>4
    <2>3. QED BY <1>0, <2>1, <2>2
  <1> HIDE DEF Q
  <1>3. 0 \in S /\ \A m \in Nat : m \in S => m + 1 \in S BY <1>1, <1>2
  <1> HIDE DEF S
  <1>4. LastDay \in S BY <1>3, Upwards, DaysAssumption
  <1>5. Q(LastDay) BY <1>4 DEF S
  <1>6. \A e \in Days : e <= LastDay BY DaysAssumption DEF Days
  <1>7. QED BY <1>5, <1>6 DEF Q

\* Every moment is on a day.
LEMMA DayOfMoment ==
  ASSUME length = [d \in Days |-> Nominal], NEW t \in Nat, t < Span
  PROVE  DayOf(t) \in Days /\ StartOf(DayOf(t)) <= t /\ t < StartOf(DayOf(t)) + Nominal
  <1> DEFINE On(d) == StartOf(d) <= t /\ t < StartOf(d) + Nominal
             Q(m) == m \in Days /\ t < StartOf(m) + Nominal => \E d \in Days : On(d)
             S == {m \in Nat : Q(m)}
  <1>0. Days \subseteq Nat /\ Nominal \in Nat BY DaysAssumption, DaysAreFinite
  <1>1. Q(0) BY DEF Days
  <1>2. ASSUME NEW m \in Nat, Q(m) PROVE Q(m + 1)
    <2> SUFFICES ASSUME m + 1 \in Days, t < StartOf(m + 1) + Nominal PROVE \E d \in Days : On(d) OBVIOUS
    <2>1. CASE StartOf(m + 1) <= t BY <2>1
    <2>2. CASE ~(StartOf(m + 1) <= t)
      <3>1. StartOf(m + 1) \in Nat /\ StartOf(1) = 0 BY NextMidnight
      <3>2. t < StartOf(m + 1) BY <2>2, <3>1
      <3>3. m # 0 BY <3>1, <3>2
      <3>4. m \in Days BY <3>3, DaysAssumption DEF Days
      <3>5. StartOf(m + 1) = StartOf(m) + Nominal BY <3>4, NextMidnight
      <3>6. QED BY <1>2, <3>2, <3>4, <3>5
    <2>3. QED BY <2>1, <2>2
  <1> HIDE DEF Q
  <1>3. 0 \in S /\ \A m \in Nat : m \in S => m + 1 \in S BY <1>1, <1>2
  <1> HIDE DEF S
  <1>4. LastDay \in S BY <1>3, Upwards, DaysAssumption
  <1>5. LastDay \in Days BY DaysAssumption DEF Days
  <1>6. t < StartOf(LastDay) + Nominal BY <1>5 DEF Span
  <1>7. \E d \in Days : On(d) BY <1>4, <1>5, <1>6 DEF S, Q
  <1>8. \A d \in Days : length[d] = Nominal OBVIOUS
  <1>9. \E d \in Days : StartOf(d) <= t /\ t < StartOf(d) + length[d] BY <1>7, <1>8
  <1>10. DayOf(t) \in Days /\ StartOf(DayOf(t)) <= t /\ t < StartOf(DayOf(t)) + length[DayOf(t)]
    BY <1>9 DEF DayOf
  <1>11. QED BY <1>8, <1>10

LEMMA InitSplit == ASSUME Lengths = {Nominal}, UsageInit PROVE SplitInv
  <1>1. length = [d \in Days |-> Nominal] BY DEF UsageInit
  <1>2. LastDay \in Days BY DaysAssumption DEF Days
  <1>3. Span \in Nat BY <1>1, <1>2, NextMidnight, DaysAssumption DEF Span
  <1>4. begin \in Nat /\ end \in Nat /\ now \in Nat /\ begin < Until /\ Until < Span
    BY <1>3 DEF UsageInit, Until, Least
  <1>5. recorded \in [Days -> [DayUsers -> Nat]] BY DaysAssumption DEF UsageInit
  <1>6. CalendarTypes BY <1>1, <1>4, <1>5 DEF CalendarTypes, UsageInit
  <1>7. Until \in Nat BY <1>4 DEF Until, Least
  <1>8. ASSUME NEW d \in Days PROVE gpus * Within(d, Least(Until, cursor)) = 0
    <2>1. StartOf(d) \in Nat /\ Nominal \in Nat BY <1>1, NextMidnight, DaysAssumption
    <2>2. Within(d, Least(Until, cursor)) = 0
      BY <1>4, <1>7, <2>1 DEF Within, Most, Least, UsageInit
    <2>3. QED BY <2>2 DEF UsageInit
  <1>9. bucket = [d \in Days |-> IF d >= cutoff THEN gpus * Within(d, Least(Until, cursor)) ELSE 0]
    BY <1>8 DEF UsageInit
  <1>10. FiledToCursor BY <1>4, <1>9 DEF FiledToCursor, UsageInit
  <1>11. QED BY <1>6, <1>10 DEF SplitInv

\* A pass of the loop files the time up to the next midnight under its day, and no other.
LEMMA NextPiece ==
  ASSUME CalendarTypes, NEW c \in Nat, begin <= c, c < Until
  PROVE  LET d == DayOf(c)
             next == Least(Until, DayEnd(c)) IN
         /\ d \in Days /\ DayEnd(c) \in Nat /\ c <= DayEnd(c) /\ c <= next
         /\ Within(d, c) \in Nat /\ Within(d, next) = Within(d, c) + (next - c)
         /\ \A e \in Days \ {d} : Within(e, next) = Within(e, c)
  <1> DEFINE d == DayOf(c)
             next == Least(Until, DayEnd(c))
  <1>1. begin \in Nat /\ Until \in Nat /\ Until < Span /\ Nominal \in Nat /\ Nominal > 0
    BY DaysAssumption DEF CalendarTypes, Until, Least
  <1>2. Span \in Nat
    <2>1. LastDay \in Days BY DaysAssumption DEF Days
    <2>2. StartOf(LastDay) \in Nat /\ length[LastDay] \in Nat
      BY <1>1, <2>1, NextMidnight DEF CalendarTypes
    <2>3. QED BY <2>2 DEF Span
  <1>3. c < Span BY <1>1, <1>2
  <1>4. d \in Days /\ StartOf(d) <= c /\ c < StartOf(d) + Nominal
    BY <1>3, DayOfMoment DEF CalendarTypes
  <1>5. DayEnd(c) = StartOf(d) + Nominal BY DEF DayEnd
  <1>6. \A e \in Days : StartOf(e) \in Nat BY NextMidnight DEF CalendarTypes
  <1> HIDE DEF d
  <1>7. next = IF Until <= StartOf(d) + Nominal THEN Until ELSE StartOf(d) + Nominal
    BY <1>5 DEF Least
  <1> HIDE DEF next
  <1>8. DayEnd(c) \in Nat /\ c <= DayEnd(c) /\ next \in Nat /\ c <= next /\ next <= StartOf(d) + Nominal
    BY <1>1, <1>4, <1>5, <1>6, <1>7
  <1>9. Within(d, c) \in Nat /\ Within(d, next) = Within(d, c) + (next - c)
    <2>1. StartOf(d) \in Nat BY <1>4, <1>6
    <2>2. QED BY <1>1, <1>4, <1>8, <2>1 DEF Within, Most, Least
  <1>10. ASSUME NEW e \in Days, e # d PROVE Within(e, next) = Within(e, c)
    <2>1. e \in Nat /\ d \in Nat /\ StartOf(e) \in Nat /\ StartOf(d) \in Nat
      BY <1>4, <1>6, DaysAreFinite
    <2>2. CASE e < d
      <3>1. StartOf(e) + Nominal <= StartOf(d) BY <1>4, <2>2, LaterDays DEF CalendarTypes
      <3>2. QED BY <1>1, <1>4, <1>8, <2>1, <3>1 DEF Within, Most, Least
    <2>3. CASE d < e
      <3>1. StartOf(d) + Nominal <= StartOf(e) BY <1>4, <2>3, LaterDays DEF CalendarTypes
      <3>2. QED BY <1>1, <1>4, <1>8, <2>1, <3>1 DEF Within, Most, Least
    <2>4. QED BY <1>10, <2>1, <2>2, <2>3
  <1>11. QED BY <1>4, <1>8, <1>9, <1>10 DEF d, next

LEMMA SplitKeeps == ASSUME SplitInv, SplitDay PROVE SplitInv'
  <1> DEFINE d == DayOf(cursor)
             next == Least(Until, DayEnd(cursor))
  <1>1. CalendarTypes /\ cursor \in Nat /\ begin <= cursor /\ cursor < Until BY DEF SplitInv, FiledToCursor, SplitDay
  <1>2. /\ d \in Days /\ DayEnd(cursor) \in Nat /\ cursor <= DayEnd(cursor) /\ cursor <= next
        /\ Within(d, cursor) \in Nat /\ Within(d, next) = Within(d, cursor) + (next - cursor)
        /\ \A e \in Days \ {d} : Within(e, next) = Within(e, cursor)
    BY <1>1, NextPiece
  <1>3. /\ cursor' = DayEnd(cursor) /\ UNCHANGED calendar
        /\ bucket' = [bucket EXCEPT ![d] = IF d >= cutoff THEN @ + gpus * (next - cursor) ELSE @]
    BY DEF SplitDay
  <1>4. begin \in Nat /\ gpus \in 1..2 /\ Until \in Nat BY <1>1 DEF CalendarTypes, Until, Least
  <1>5. Least(Until, cursor) = cursor BY <1>1, <1>4 DEF Least
  <1>6. bucket = [e \in Days |-> IF e >= cutoff THEN gpus * Within(e, cursor) ELSE 0]
    BY <1>5 DEF SplitInv, FiledToCursor
  <1> HIDE DEF d
  <1>a. next \in Nat BY <1>2, <1>4 DEF Least
  <1>b. Least(Until, cursor') = next BY <1>3
  <1> HIDE DEF next
  <1>7. gpus * Within(d, next) = gpus * Within(d, cursor) + gpus * (next - cursor)
    <2>1. CASE gpus = 1 BY <1>1, <1>2, <1>a, <2>1
    <2>2. CASE gpus = 2 BY <1>1, <1>2, <1>a, <2>2
    <2>3. QED BY <1>4, <2>1, <2>2
  <1>8. bucket' = [e \in Days |-> IF e >= cutoff THEN gpus * Within(e, next) ELSE 0]
    <2>1. ASSUME NEW e \in Days PROVE bucket'[e] = IF e >= cutoff THEN gpus * Within(e, next) ELSE 0
      <3>1. CASE e = d
        <4>1. bucket'[e] = IF d >= cutoff THEN bucket[d] + gpus * (next - cursor) ELSE bucket[d]
          BY <1>3, <1>6, <3>1
        <4>2. bucket[d] = IF d >= cutoff THEN gpus * Within(d, cursor) ELSE 0 BY <1>2, <1>6
        <4>3. QED BY <1>7, <3>1, <4>1, <4>2
      <3>2. CASE e # d
        <4>1. bucket'[e] = bucket[e] BY <1>3, <1>6, <3>2
        <4>2. Within(e, next) = Within(e, cursor) BY <1>2, <3>2
        <4>3. QED BY <1>6, <4>1, <4>2
      <3>3. QED BY <3>1, <3>2
    <2>2. bucket' = [e \in Days |-> bucket'[e]] BY <1>3, <1>6
    <2>3. QED BY <2>1, <2>2
  <1>9. FiledToCursor'
    <2>1. bucket' = [e \in Days |-> IF e >= cutoff THEN gpus * Within(e, Least(Until, cursor')) ELSE 0]
      BY <1>8, <1>b
    <2>2. cursor' \in Nat /\ begin <= cursor' BY <1>1, <1>2, <1>3, <1>4
    <2>3. length' = length /\ begin' = begin /\ end' = end /\ now' = now /\ gpus' = gpus /\ cutoff' = cutoff
      BY <1>3 DEF calendar
    <2>4. QED BY <2>1, <2>2, <2>3 DEF FiledToCursor, Within, StartOf, Until
  <1>10. CalendarTypes' BY <1>1, <1>3 DEF CalendarTypes, calendar, Until, Span, StartOf
  <1>11. QED BY <1>9, <1>10 DEF SplitInv

LEMMA NextSplit == ASSUME SplitInv, [UsageNext]_usageVars PROVE SplitInv'
  <1>1. CASE UsageNext BY <1>1, SplitKeeps DEF UsageNext
  <1>2. CASE UNCHANGED usageVars
    BY <1>2 DEF SplitInv, CalendarTypes, FiledToCursor, usageVars, calendar, Until, Span, StartOf, Within
  <1>3. QED BY <1>1, <1>2

-----------------------------------------------------------------------------
(* The readers.                                                            *)

LEMMA FiledIsOverlap ==
  ASSUME SplitInv, cursor >= Until
  PROVE  /\ \A d \in Days : bucket[d] = IF d >= cutoff THEN gpus * Overlap(d) ELSE 0
         /\ \A d \in Days : Overlap(d) \in Nat
         /\ bucket \in [Days -> Nat]
  <1>1. Until \in Nat /\ cursor \in Nat /\ begin \in Nat /\ Nominal \in Nat /\ gpus \in 1..2
    BY DaysAssumption DEF SplitInv, CalendarTypes, FiledToCursor, Until, Least
  <1>2. Least(Until, cursor) = Until BY <1>1 DEF Least
  <1>3. ASSUME NEW d \in Days PROVE Within(d, Until) = Overlap(d) /\ Overlap(d) \in Nat
    <2>1. length[d] = Nominal /\ StartOf(d) \in Nat BY NextMidnight DEF SplitInv, CalendarTypes
    <2>2. Within(d, Until) = Overlap(d) BY <2>1 DEF Within, Overlap
    <2>3. Overlap(d) \in Nat BY <1>1, <2>1 DEF Overlap, Most, Least
    <2>4. QED BY <2>2, <2>3
  <1>4. \A d \in Days : bucket[d] = IF d >= cutoff THEN gpus * Overlap(d) ELSE 0
    BY <1>2, <1>3 DEF SplitInv, FiledToCursor
  <1>5. \A d \in Days : bucket[d] \in Nat
    <2>1. CASE gpus = 1 BY <1>3, <1>4, <2>1
    <2>2. CASE gpus = 2 BY <1>3, <1>4, <2>2
    <2>3. QED BY <1>1, <2>1, <2>2
  <1>6. bucket = [d \in Days |-> bucket[d]] BY DEF SplitInv, FiledToCursor
  <1>7. QED BY <1>3, <1>4, <1>5, <1>6

\* The larger of two amounts, summed, is no less than either sum and no more than both.
LEMMA MergedSums ==
  ASSUME NEW r \in [Days -> Nat], NEW a \in [Days -> Nat], NEW m \in [Days -> Nat],
         \A d \in Days : m[d] = Most(r[d], a[d]), NEW window \in SUBSET Days
  PROVE  /\ SumFunctionOnSet(r, window) \in Nat /\ SumFunctionOnSet(a, window) \in Nat
         /\ SumFunctionOnSet(m, window) \in Nat
         /\ Most(SumFunctionOnSet(r, window), SumFunctionOnSet(a, window)) <= SumFunctionOnSet(m, window)
         /\ SumFunctionOnSet(m, window) <= SumFunctionOnSet(r, window) + SumFunctionOnSet(a, window)
  <1> DEFINE both == [d \in Days |-> r[d] + a[d]]
             R == SumFunctionOnSet(r, window)
             A == SumFunctionOnSet(a, window)
             M == SumFunctionOnSet(m, window)
             B == SumFunctionOnSet(both, window)
  <1>0. both \in [Days -> Nat] /\ \A d \in Days : both[d] = r[d] + a[d] OBVIOUS
  <1>1. \A d \in Days : r[d] <= m[d] /\ a[d] <= m[d] /\ m[d] <= both[d] BY DEF Most
  <1> HIDE DEF both
  <1>2. R \in Nat /\ A \in Nat /\ M \in Nat
    <2>1. IsSum(r, Days) /\ IsSum(a, Days) /\ IsSum(m, Days) BY Sums, DaysAreFinite
    <2>2. QED BY <2>1 DEF IsSum
  <1>3. R <= M BY <1>1, SumsCompare, DaysAreFinite
  <1>4. A <= M BY <1>1, SumsCompare, DaysAreFinite
  <1>5. M <= B BY <1>0, <1>1, SumsCompare, DaysAreFinite
  <1>a. AddUp(r, a, both, Days) BY <1>0, SumsAdd, DaysAreFinite
  <1>6. B = R + A BY <1>a DEF AddUp
  <1>7. QED BY <1>2, <1>3, <1>4, <1>5, <1>6 DEF Most

\* The reader's sums.
LEMMA ReadersSum ==
  ASSUME CalendarTypes, bucket \in [Days -> Nat]
  PROVE  /\ \A u \in DayUsers :
              LET probed == SumFunctionOnSet([d \in Days |-> recorded[d][u]], Window(cutoff))
                  counted == SumFunctionOnSet([d \in Days |-> Accounted(d, u)], Window(cutoff))
              IN Most(probed, counted) <= TotalOf(u, cutoff) /\ TotalOf(u, cutoff) <= probed + counted
         /\ SumFunction([u \in DayUsers |-> TotalOf(u, cutoff)])
              = SumFunctionOnSet([d \in Days |-> TotalOn(d)], Window(cutoff))
  <1>0. Window(cutoff) \in SUBSET Days BY DEF Window
  <1>1. \A d \in Days, u \in DayUsers : recorded[d][u] \in Nat /\ Accounted(d, u) \in Nat
    BY DEF CalendarTypes, Accounted
  <1>2. \A d \in Days, u \in DayUsers : Merged(d, u) \in Nat /\ Merged(d, u) = Most(recorded[d][u], Accounted(d, u))
    BY <1>1 DEF Merged, Most
  <1>3. ASSUME NEW u \in DayUsers
        PROVE  LET probed == SumFunctionOnSet([d \in Days |-> recorded[d][u]], Window(cutoff))
                   counted == SumFunctionOnSet([d \in Days |-> Accounted(d, u)], Window(cutoff))
               IN /\ Most(probed, counted) <= TotalOf(u, cutoff) /\ TotalOf(u, cutoff) <= probed + counted
                  /\ TotalOf(u, cutoff) \in Nat
    <2> DEFINE r == [d \in Days |-> recorded[d][u]]
               a == [d \in Days |-> Accounted(d, u)]
               m == [d \in Days |-> Merged(d, u)]
    <2>1. r \in [Days -> Nat] BY <1>1
    <2>2. a \in [Days -> Nat] BY <1>1
    <2>3. m \in [Days -> Nat] BY <1>2
    <2>4. \A d \in Days : m[d] = Most(r[d], a[d]) BY <1>2
    <2>5. TotalOf(u, cutoff) = SumFunctionOnSet(m, Window(cutoff)) BY DEF TotalOf
    <2> HIDE DEF r, a, m
    <2>6. /\ SumFunctionOnSet(m, Window(cutoff)) \in Nat
          /\ Most(SumFunctionOnSet(r, Window(cutoff)), SumFunctionOnSet(a, Window(cutoff)))
               <= SumFunctionOnSet(m, Window(cutoff))
          /\ SumFunctionOnSet(m, Window(cutoff))
               <= SumFunctionOnSet(r, Window(cutoff)) + SumFunctionOnSet(a, Window(cutoff))
      BY <1>0, <2>1, <2>2, <2>3, <2>4, MergedSums
    <2>7. QED BY <2>5, <2>6 DEF r, a
  <1>4. SumFunction([u \in DayUsers |-> TotalOf(u, cutoff)])
          = SumFunctionOnSet([d \in Days |-> TotalOn(d)], Window(cutoff))
    <2> DEFINE w == [d \in Days |-> Merged(d, Worker)]
               o == [d \in Days |-> Merged(d, Other)]
               t == [d \in Days |-> TotalOn(d)]
    <2>0. Worker # Other /\ DayUsers = {Worker, Other} BY DaysAssumption DEF DayUsers
    <2>1. \A d \in Days : TotalOn(d) = Merged(d, Worker) + Merged(d, Other)
      <3> SUFFICES ASSUME NEW d \in Days PROVE TotalOn(d) = Merged(d, Worker) + Merged(d, Other) OBVIOUS
      <3> DEFINE f == [u \in {Worker, Other} |-> Merged(d, u)]
      <3>1. f \in [{Worker, Other} -> Nat] BY <1>2, <2>0
      <3>2. f[Worker] = Merged(d, Worker) /\ f[Other] = Merged(d, Other) OBVIOUS
      <3>3. TotalOn(d) = SumFunction(f) BY <2>0 DEF TotalOn
      <3> HIDE DEF f
      <3>4. SumFunction(f) = f[Worker] + f[Other] BY <2>0, <3>1, SumOfTwo
      <3>5. QED BY <3>2, <3>3, <3>4
    <2>2. SumFunction([u \in DayUsers |-> TotalOf(u, cutoff)]) = TotalOf(Worker, cutoff) + TotalOf(Other, cutoff)
      <3> DEFINE f == [u \in {Worker, Other} |-> TotalOf(u, cutoff)]
      <3>1. f \in [{Worker, Other} -> Nat] BY <1>3, <2>0
      <3>2. f[Worker] = TotalOf(Worker, cutoff) /\ f[Other] = TotalOf(Other, cutoff) OBVIOUS
      <3>3. SumFunction([u \in DayUsers |-> TotalOf(u, cutoff)]) = SumFunction(f) BY <2>0
      <3> HIDE DEF f
      <3>4. SumFunction(f) = f[Worker] + f[Other] BY <2>0, <3>1, SumOfTwo
      <3>5. QED BY <3>2, <3>3, <3>4
    <2>3. w \in [Days -> Nat] /\ o \in [Days -> Nat] BY <1>2, <2>0
    <2>4. \A d \in Days : t[d] = w[d] + o[d] BY <2>1
    <2>5. t \in [Days -> Nat]
      <3>1. \A d \in Days : TotalOn(d) \in Nat BY <1>2, <2>0, <2>1
      <3>2. QED BY <3>1
    <2>6. TotalOf(Worker, cutoff) = SumFunctionOnSet(w, Window(cutoff)) /\ TotalOf(Other, cutoff) = SumFunctionOnSet(o, Window(cutoff))
      BY DEF TotalOf
    <2> HIDE DEF w, o, t
    <2>7. AddUp(w, o, t, Days) BY <2>3, <2>4, <2>5, SumsAdd, DaysAreFinite
    <2>8. SumFunctionOnSet(t, Window(cutoff)) = SumFunctionOnSet(w, Window(cutoff)) + SumFunctionOnSet(o, Window(cutoff))
      BY <1>0, <2>7 DEF AddUp
    <2>9. QED BY <2>2, <2>6, <2>8 DEF t
  <1>5. QED BY <1>3, <1>4

LEMMA SplitIsRight == ASSUME SplitInv PROVE SplitIsExact
  <1> SUFFICES ASSUME cursor >= Until PROVE SplitIsExact BY DEF SplitIsExact
  <1>1. /\ \A d \in Days : bucket[d] = IF d >= cutoff THEN gpus * Overlap(d) ELSE 0
        /\ \A d \in Days : Overlap(d) \in Nat
        /\ bucket \in [Days -> Nat]
    BY FiledIsOverlap
  <1>2. CalendarTypes BY DEF SplitInv
  <1>3. ASSUME NEW d \in Days, recorded[d][Worker] = Overlap(d) * gpus, d >= cutoff
        PROVE  Merged(d, Worker) = recorded[d][Worker]
    <2>1. gpus \in {1, 2} /\ Overlap(d) \in Nat BY <1>1, <1>2 DEF CalendarTypes
    <2>2. Overlap(d) * gpus = gpus * Overlap(d)
      <3>1. CASE gpus = 1 BY <2>1, <3>1
      <3>2. CASE gpus = 2 BY <2>1, <3>2
      <3>3. QED BY <2>1, <3>1, <3>2
    <2>3. bucket[d] = recorded[d][Worker] /\ bucket[d] \in Nat BY <1>1, <1>3, <2>2
    <2>4. QED BY <2>3 DEF Merged, Accounted, Most
  <1>4. QED BY <1>1, <1>2, <1>3, ReadersSum DEF SplitIsExact

\* On days of 24 hours the loop files under every kept day what the job used of it and
\* nothing under another, and what a reader adds up is no less than one source and no
\* more than both, with the same totals by user and by day (collector.py:955; usage.py:149).
\* On days of other lengths the loop does not end, which the run backfill shows.
THEOREM ExactSplit == ASSUME Lengths = {Nominal} PROVE UsageSpec => []SplitIsExact
  <1>1. UsageInit => SplitInv BY InitSplit
  <1>2. SplitInv /\ [UsageNext]_usageVars => SplitInv' BY NextSplit
  <1>3. SplitInv => SplitIsExact BY SplitIsRight
  <1>4. QED BY <1>1, <1>2, <1>3, PTL DEF UsageSpec

-----------------------------------------------------------------------------
(* Allocation: every job's cards are bound or left, at each entry of each  *)
(* pass.  First, counting the entries of a sequence.                       *)

Places(s, J) == {i \in 1..Len(s) : s[i] \in J}
Count(s, J) == Cardinality(Places(s, J))
\* The first k entries.
PlacesTo(s, k, J) == {i \in 1..k : s[i] \in J}
CountTo(s, k, J) == Cardinality(PlacesTo(s, k, J))

LEMMA CountType ==
  ASSUME NEW n \in Nat, NEW P \in SUBSET (1..n)
  PROVE  IsFiniteSet(P) /\ Cardinality(P) \in Nat /\ Cardinality(P) <= n
  <1>1. IsFiniteSet(1..n) /\ Cardinality(1..n) = n BY FS_Interval
  <1>2. IsFiniteSet(P) /\ Cardinality(P) <= n BY <1>1, FS_Subset
  <1>3. QED BY <1>2, FS_CardinalityType

LEMMA PlacesAreFinite ==
  ASSUME NEW X, NEW s \in Seq(X), NEW J
  PROVE  IsFiniteSet(Places(s, J)) /\ Count(s, J) \in Nat /\ Count(s, J) <= Len(s)
  <1>1. Len(s) \in Nat /\ Places(s, J) \in SUBSET (1..Len(s)) BY DEF Places
  <1>2. QED BY <1>1, CountType DEF Count

LEMMA CountToStep ==
  ASSUME NEW X, NEW s \in Seq(X), NEW k \in Nat, k + 1 <= Len(s), NEW J
  PROVE  /\ CountTo(s, k, J) \in Nat
         /\ CountTo(s, k + 1, J) = CountTo(s, k, J) + IF s[k + 1] \in J THEN 1 ELSE 0
  <1>1. PlacesTo(s, k, J) \in SUBSET (1..k) BY DEF PlacesTo
  <1>2. IsFiniteSet(PlacesTo(s, k, J)) /\ CountTo(s, k, J) \in Nat BY <1>1, CountType DEF CountTo
  <1>3. k + 1 \notin PlacesTo(s, k, J) BY DEF PlacesTo
  <1>4. CASE s[k + 1] \in J
    <2>1. PlacesTo(s, k + 1, J) = PlacesTo(s, k, J) \cup {k + 1} BY <1>4 DEF PlacesTo
    <2>2. QED BY <1>2, <1>3, <1>4, <2>1, FS_AddElement DEF CountTo
  <1>5. CASE s[k + 1] \notin J
    <2>1. PlacesTo(s, k + 1, J) = PlacesTo(s, k, J) BY <1>5 DEF PlacesTo
    <2>2. QED BY <1>2, <1>5, <2>1 DEF CountTo
  <1>6. QED BY <1>4, <1>5

LEMMA CountToEnds ==
  ASSUME NEW X, NEW s \in Seq(X), NEW J
  PROVE  CountTo(s, 0, J) = 0 /\ CountTo(s, Len(s), J) = Count(s, J)
  <1>1. PlacesTo(s, 0, J) = {} BY DEF PlacesTo
  <1>2. PlacesTo(s, Len(s), J) = Places(s, J) BY DEF PlacesTo, Places
  <1>3. QED BY <1>1, <1>2, FS_EmptySet DEF CountTo, Count

\* What was counted so far is not more than what there is.
LEMMA CountToIsLess ==
  ASSUME NEW X, NEW s \in Seq(X), NEW k \in Nat, k <= Len(s), NEW J
  PROVE  CountTo(s, k, J) \in Nat /\ CountTo(s, k, J) <= Count(s, J)
  <1>1. PlacesTo(s, k, J) \in SUBSET Places(s, J) BY DEF PlacesTo, Places
  <1>2. IsFiniteSet(Places(s, J)) /\ Count(s, J) \in Nat BY PlacesAreFinite
  <1>3. IsFiniteSet(PlacesTo(s, k, J)) /\ CountTo(s, k, J) <= Count(s, J)
    BY <1>1, <1>2, FS_Subset DEF CountTo, Count
  <1>4. QED BY <1>3, FS_CardinalityType DEF CountTo

LEMMA CountOfAll ==
  ASSUME NEW X, NEW s \in Seq(X) PROVE Count(s, X) = Len(s)
  <1>1. Places(s, X) = 1..Len(s) BY DEF Places
  <1>2. QED BY <1>1, FS_Interval DEF Count

LEMMA CountIsThere ==
  ASSUME NEW X, NEW s \in Seq(X), NEW J
  PROVE  Count(s, J) # 0 <=> \E i \in 1..Len(s) : s[i] \in J
  <1>1. IsFiniteSet(Places(s, J)) BY PlacesAreFinite
  <1>2. Count(s, J) = 0 <=> Places(s, J) = {} BY <1>1, FS_EmptySet DEF Count
  <1>3. QED BY <1>2 DEF Places

LEMMA CountOfBoth ==
  ASSUME NEW X, NEW s \in Seq(X), NEW t \in Seq(X), NEW J
  PROVE  s \o t \in Seq(X) /\ Count(s \o t, J) = Count(s, J) + Count(t, J)
  <1> DEFINE n == Len(s)
             A == Places(s, J)
             B == Places(t, J)
             C == {i + n : i \in B}
             f == [i \in B |-> i + n]
  <1>1. /\ s \o t \in Seq(X) /\ Len(s \o t) = Len(s) + Len(t) /\ Len(s) \in Nat /\ Len(t) \in Nat
        /\ \A i \in 1..(Len(s) + Len(t)) : (s \o t)[i] = IF i <= Len(s) THEN s[i] ELSE t[i - Len(s)]
    BY ConcatProperties
  <1>2. IsFiniteSet(A) /\ IsFiniteSet(B) /\ Count(s, J) \in Nat /\ Count(t, J) \in Nat BY PlacesAreFinite
  <1>3. f \in Bijection(B, C)
    <2>1. f \in [B -> C] OBVIOUS
    <2>2. \A i, j \in B : f[i] = f[j] => i = j BY <1>1 DEF Places
    <2>3. \A c \in C : \E i \in B : f[i] = c OBVIOUS
    <2>4. QED BY <2>1, <2>2, <2>3 DEF Bijection, Injection, Surjection, IsInjective
  <1>4. IsFiniteSet(C) /\ Cardinality(C) = Cardinality(B)
    BY <1>2, <1>3, FS_Bijection DEF ExistsBijection
  <1>5. A \cap C = {} BY <1>1 DEF Places
  <1>6. Places(s \o t, J) = A \cup C
    <2>1. ASSUME NEW i \in Places(s \o t, J) PROVE i \in A \cup C
      <3>1. i \in 1..(Len(s) + Len(t)) /\ (s \o t)[i] \in J BY <1>1 DEF Places
      <3>2. CASE i <= Len(s) BY <1>1, <3>1, <3>2 DEF Places
      <3>3. CASE ~(i <= Len(s))
        <4>1. i - n \in 1..Len(t) /\ t[i - n] \in J /\ (i - n) + n = i BY <1>1, <3>1, <3>3
        <4>2. i - n \in B BY <4>1 DEF Places
        <4>3. QED BY <4>1, <4>2
      <3>4. QED BY <3>2, <3>3
    <2>2. ASSUME NEW i \in A PROVE i \in Places(s \o t, J) BY <1>1 DEF Places
    <2>3. ASSUME NEW i \in B PROVE i + n \in Places(s \o t, J)
      <3>1. i \in 1..Len(t) /\ t[i] \in J BY DEF Places
      <3>2. i + n \in 1..(Len(s) + Len(t)) /\ ~(i + n <= Len(s)) /\ (i + n) - Len(s) = i BY <1>1, <3>1
      <3>3. QED BY <1>1, <3>1, <3>2 DEF Places
    <2>4. QED BY <2>1, <2>2, <2>3
  <1> HIDE DEF A, B, C, f
  <1>7. Cardinality(A \cup C) = Cardinality(A) + Cardinality(C)
    <2>1. Cardinality(A \cup C) = Cardinality(A) + Cardinality(C) - Cardinality(A \cap C) BY <1>2, <1>4, FS_Union
    <2>2. Cardinality(A \cap C) = 0 BY <1>5, FS_EmptySet
    <2>3. Cardinality(A) \in Nat /\ Cardinality(C) \in Nat BY <1>2, <1>4, FS_CardinalityType
    <2>4. QED BY <2>1, <2>2, <2>3
  <1>8. QED BY <1>1, <1>4, <1>6, <1>7 DEF Count, A, B

LEMMA SmallestOf ==
  ASSUME NEW s \in SUBSET Nat, s # {}
  PROVE  \E x \in s : \A y \in s : x <= y
  <1>1. PICK x \in s : \A y \in s : ~ (<<y, x>> \in OpToRel(<, Nat))
    BY NatLessThanWellFounded, WFMin
  <1>2. ASSUME NEW y \in s PROVE x <= y
    <2>1. ~ (y < x) BY <1>1 DEF OpToRel
    <2>2. QED BY <2>1
  <1>3. QED BY <1>2

LEMMA CountOfNone == ASSUME NEW J PROVE Count(<<>>, J) = 0
  <1>1. Places(<<>>, J) = {} BY DEF Places
  <1>2. QED BY <1>1, FS_EmptySet DEF Count

LEMMA CountOfOne ==
  ASSUME NEW X, NEW x \in X, NEW J
  PROVE  <<x>> \in Seq(X) /\ Count(<<x>>, J) = IF x \in J THEN 1 ELSE 0
  <1>1. Places(<<x>>, J) = IF x \in J THEN {1} ELSE {} BY DEF Places
  <1>2. Cardinality({1}) = 1 BY FS_Singleton
  <1>3. Cardinality({}) = 0 BY FS_EmptySet
  <1>4. <<x>> \in Seq(X) OBVIOUS
  <1>5. Count(<<x>>, J) = Cardinality(IF x \in J THEN {1} ELSE {}) BY <1>1 DEF Count
  <1>6. QED BY <1>2, <1>3, <1>4, <1>5

Copies(x, n) == [i \in 1..n |-> x]

LEMMA CountOfCopies ==
  ASSUME NEW X, NEW x \in X, NEW n \in Nat, NEW J
  PROVE  Copies(x, n) \in Seq(X) /\ Count(Copies(x, n), J) = IF x \in J THEN n ELSE 0
  <1> DEFINE s == [i \in 1..n |-> x]
  <1>1. s \in Seq(X) /\ Len(s) = n BY LenProperties
  <1>2. Places(s, J) = IF x \in J THEN 1..n ELSE {} BY <1>1 DEF Places
  <1>3. Cardinality(1..n) = n BY FS_Interval
  <1>4. QED BY <1>1, <1>2, <1>3, FS_EmptySet DEF Count, Copies

\* RemoveFirst takes one entry away.
LEMMA RemoveOne ==
  ASSUME NEW X, NEW s \in Seq(X), NEW k \in 1..Len(s)
  PROVE  /\ RemoveFirst(s, s[k]) \in Seq(X)
         /\ \A J : Count(RemoveFirst(s, s[k]), J) = Count(s, J) - IF s[k] \in J THEN 1 ELSE 0
  <1> DEFINE x == s[k]
             n == Len(s)
             I == {i \in 1..n : s[i] = x}
             m == Min(I)
             a == SubSeq(s, 1, m - 1)
             b == SubSeq(s, m + 1, n)
  <1>1. n \in Nat /\ x \in X /\ \A i \in 1..n : s[i] \in X OBVIOUS
  <1>2. I \in SUBSET Nat /\ I # {} OBVIOUS
  <1> HIDE DEF x
  <1>3. m \in I
    <2>1. \E y \in I : \A z \in I : y <= z BY <1>2, SmallestOf
    <2> HIDE DEF I
    <2>2. QED BY <2>1 DEF Min
  <1>4. RemoveFirst(s, x) = a \o b
    <2>1. \E i \in 1..Len(s) : s[i] = x BY DEF x
    <2>2. SelectInSeq(s, LAMBDA v : v = x) = m BY <1>2 DEF SelectInSeq
    <2> HIDE DEF m
    <2>3. QED BY <2>1, <2>2 DEF RemoveFirst, RemoveAt
  <1>5. m \in 1..n /\ s[m] = x BY <1>3
  <1> HIDE DEF m, I
  <1>6. a \in Seq(X) /\ b \in Seq(X) BY <1>1, <1>5, SubSeqProperties
  <1>7. s = (a \o <<x>>) \o b
    <2>1. SubSeq(s, 1, n) = s BY SubSeqFull
    <2>2. SubSeq(s, 1, m) = a \o <<s[m]>>
      <3>1. 1 \in 1..Len(s) /\ m \in 1..Len(s) BY <1>1, <1>5
      <3>2. QED BY <3>1, SubSeqRecursiveSecond
    <2>3. SubSeq(s, 1, m) \o b = SubSeq(s, 1, n)
      <3>1. 1 \in 1..(Len(s) + 1) /\ m \in (1 - 1)..Len(s) /\ n \in m..Len(s) BY <1>1, <1>5
      <3>2. QED BY <3>1, ConcatAdjacentSubSeq
    <2> HIDE DEF a, b, n
    <2>4. QED BY <1>5, <2>1, <2>2, <2>3
  <1> HIDE DEF a, b, n
  <1>8. ASSUME NEW J PROVE Count(a \o b, J) = Count(s, J) - IF x \in J THEN 1 ELSE 0
    <2> DEFINE one == <<x>>
               front == a \o one
    <2>1. one \in Seq(X) /\ Count(one, J) = IF x \in J THEN 1 ELSE 0 BY <1>1, CountOfOne DEF x
    <2> HIDE DEF one
    <2>2. front \in Seq(X) /\ Count(front, J) = Count(a, J) + Count(one, J) BY <1>6, <2>1, CountOfBoth
    <2>3. s = front \o b BY <1>7 DEF one
    <2> HIDE DEF front
    <2>4. Count(s, J) = Count(front, J) + Count(b, J) BY <1>6, <2>2, <2>3, CountOfBoth
    <2>5. Count(a \o b, J) = Count(a, J) + Count(b, J) BY <1>6, CountOfBoth
    <2>6. Count(a, J) \in Nat /\ Count(b, J) \in Nat BY <1>6, PlacesAreFinite
    <2>7. QED BY <2>1, <2>2, <2>4, <2>5, <2>6
  <1>9. a \o b \in Seq(X) BY <1>6
  <1>10. QED BY <1>4, <1>8, <1>9 DEF x

-----------------------------------------------------------------------------
(* The node.                                                               *)

CardsIn(f, J) == {c \in Cards : f[c] \in J}
SizeOf(f, J) == Cardinality(CardsIn(f, J))

NodeTypes ==
  /\ holds \in [Cards -> CardJobs \cup {Unbound}] /\ shows \in [Cards -> Procs]
  /\ outside \in [Cards -> Outsiders \cup {Unbound}]
  /\ hint \in Hints /\ order \in Seq(CardJobs)
  /\ \A c \in Cards : holds[c] = Unbound => shows[c] = "none"

\* A job is listed once, while it has cards.
ListedOnce ==
  \A j \in CardJobs : Count(order, {j}) = IF CardsIn(holds, {j}) = {} THEN 0 ELSE 1

NodeInv == NodeTypes /\ ListedOnce

LEMMA SizeType == \A f, J : IsFiniteSet(CardsIn(f, J)) /\ SizeOf(f, J) \in Nat
  <1> SUFFICES ASSUME NEW f, NEW J PROVE IsFiniteSet(CardsIn(f, J)) /\ SizeOf(f, J) \in Nat OBVIOUS
  <1>1. CardsIn(f, J) \in SUBSET (1..NCards) BY DEF CardsIn, Cards
  <1>2. QED BY <1>1, CountType, CardsAssumption DEF SizeOf

\* A card that is bound now was not before.
LEMMA SizeGrows ==
  ASSUME NEW f, NEW g, NEW c \in Cards, NEW j \in CardJobs, f[c] = Unbound, g[c] = j,
         \A d \in Cards \ {c} : g[d] = f[d], NEW J \in SUBSET CardJobs
  PROVE  SizeOf(g, J) = SizeOf(f, J) + IF j \in J THEN 1 ELSE 0
  <1>1. IsFiniteSet(CardsIn(f, J)) /\ SizeOf(f, J) \in Nat BY SizeType
  <1>2. c \notin CardsIn(f, J) BY CardsAssumption DEF CardsIn
  <1>3. CASE j \in J
    <2>1. CardsIn(g, J) = CardsIn(f, J) \cup {c} BY <1>3 DEF CardsIn
    <2>2. QED BY <1>1, <1>2, <1>3, <2>1, FS_AddElement DEF SizeOf
  <1>4. CASE j \notin J
    <2>1. CardsIn(g, J) = CardsIn(f, J) BY <1>2, <1>4 DEF CardsIn
    <2>2. QED BY <1>1, <1>4, <2>1 DEF SizeOf
  <1>5. QED BY <1>3, <1>4

\* Some card counts for the second that does not for the first.
LEMMA SizeIsMore ==
  ASSUME NEW f, NEW g, NEW J, SizeOf(f, J) < SizeOf(g, J)
  PROVE  \E c \in Cards : g[c] \in J /\ f[c] \notin J
  <1> SUFFICES ASSUME CardsIn(g, J) \in SUBSET CardsIn(f, J) PROVE FALSE BY DEF CardsIn
  <1>1. IsFiniteSet(CardsIn(f, J)) /\ SizeOf(f, J) \in Nat /\ SizeOf(g, J) \in Nat BY SizeType
  <1>2. SizeOf(g, J) <= SizeOf(f, J) BY <1>1, FS_Subset DEF SizeOf
  <1>3. QED BY <1>1, <1>2

LEMMA SizeIsLess ==
  ASSUME NEW f, NEW g, NEW J, NEW c \in Cards, g[c] \in J, f[c] \notin J,
         \A d \in Cards : f[d] \in J => g[d] \in J
  PROVE  SizeOf(f, J) < SizeOf(g, J)
  <1>1. IsFiniteSet(CardsIn(g, J)) /\ SizeOf(f, J) \in Nat /\ SizeOf(g, J) \in Nat BY SizeType
  <1>2. CardsIn(f, J) \in SUBSET CardsIn(g, J) /\ CardsIn(f, J) # CardsIn(g, J) BY DEF CardsIn
  <1>3. SizeOf(f, J) <= SizeOf(g, J) /\ SizeOf(f, J) # SizeOf(g, J) BY <1>1, <1>2, FS_Subset DEF SizeOf
  <1>4. QED BY <1>1, <1>3

LEMMA InitNode == NodeInit => NodeInv
  <1> SUFFICES ASSUME NodeInit PROVE NodeInv OBVIOUS
  <1>1. NodeTypes BY DEF NodeInit, NodeTypes, Procs
  <1>2. \A j \in CardJobs : CardsIn(holds, {j}) = {} BY CardsAssumption DEF NodeInit, CardsIn
  <1>3. \A J : Count(order, J) = 0 BY CountOfNone DEF NodeInit
  <1>4. QED BY <1>1, <1>2, <1>3 DEF NodeInv, ListedOnce

LEMMA ListedIsCounted ==
  ASSUME NEW s \in Seq(CardJobs), NEW j PROVE j \in ToSet(s) <=> Count(s, {j}) # 0
  <1>1. DOMAIN s = 1..Len(s) OBVIOUS
  <1>2. QED BY <1>1, CountIsThere DEF ToSet

LEMMA StartKeeps ==
  ASSUME NodeInv, NEW j \in CardJobs, NEW cards \in SUBSET Cards, NEW front \in BOOLEAN,
         CardsStart(j, cards, front)
  PROVE  NodeInv'
  <1> DEFINE one == <<j>>
  <1>1. order \in Seq(CardJobs) BY DEF NodeInv, NodeTypes
  <1>2. one \in Seq(CardJobs) /\ \A J : Count(one, J) = IF j \in J THEN 1 ELSE 0 BY CountOfOne
  <1>3. order' = one \o order \/ order' = order \o one BY <1>1 DEF CardsStart
  <1> HIDE DEF one
  <1>4. order' \in Seq(CardJobs) /\ \A J : Count(order', J) = Count(order, J) + IF j \in J THEN 1 ELSE 0
    <2>1. one \o order \in Seq(CardJobs) /\ \A J : Count(one \o order, J) = Count(one, J) + Count(order, J)
      BY <1>1, <1>2, CountOfBoth
    <2>2. order \o one \in Seq(CardJobs) /\ \A J : Count(order \o one, J) = Count(order, J) + Count(one, J)
      BY <1>1, <1>2, CountOfBoth
    <2>3. ASSUME NEW J PROVE Count(order', J) = Count(order, J) + IF j \in J THEN 1 ELSE 0
      <3>1. Count(order, J) \in Nat /\ Count(one, J) \in Nat BY <1>1, <1>2, PlacesAreFinite
      <3>2. Count(order', J) = Count(one, J) + Count(order, J) \/ Count(order', J) = Count(order, J) + Count(one, J)
        BY <1>3, <2>1, <2>2
      <3>3. Count(order', J) = Count(order, J) + Count(one, J) BY <3>1, <3>2
      <3>4. Count(one, J) = IF j \in J THEN 1 ELSE 0 BY <1>2
      <3>5. QED BY <3>3, <3>4
    <2>4. QED BY <1>3, <2>1, <2>2, <2>3
  <1>5. NodeTypes' BY <1>4 DEF NodeInv, NodeTypes, CardsStart
  <1>6. Count(order, {j}) = 0 BY <1>1, ListedIsCounted DEF CardsStart
  <1>7. ASSUME NEW k \in CardJobs PROVE Count(order', {k}) = IF CardsIn(holds', {k}) = {} THEN 0 ELSE 1
    <2>1. CASE k = j
      <3>1. CardsIn(holds', {k}) # {} BY <2>1 DEF CardsIn, CardsStart
      <3>2. Count(order', {k}) = Count(order, {k}) + 1
        <4>1. j \in {k} BY <2>1
        <4>2. QED BY <1>4, <4>1
      <3>3. Count(order', {k}) = 1 BY <1>6, <2>1, <3>2
      <3>4. QED BY <3>1, <3>3
    <2>2. CASE k # j
      <3>1. \A c \in Cards : holds'[c] = k <=> holds[c] = k
        BY <2>2, CardsAssumption DEF CardsStart
      <3>2. CardsIn(holds', {k}) = CardsIn(holds, {k}) BY <3>1 DEF CardsIn
      <3>3. Count(order, {k}) = IF CardsIn(holds, {k}) = {} THEN 0 ELSE 1 BY DEF NodeInv, ListedOnce
      <3>4. Count(order', {k}) = Count(order, {k}) + 0
        <4>1. j \notin {k} BY <2>2
        <4>2. QED BY <1>4, <4>1
      <3>5. Count(order, {k}) + 0 = Count(order, {k}) BY <3>3
      <3>6. QED BY <3>2, <3>3, <3>4, <3>5
    <2>3. QED BY <2>1, <2>2
  <1>8. QED BY <1>5, <1>7 DEF NodeInv, ListedOnce, Count, Places, CardsIn

LEMMA EndKeeps == ASSUME NodeInv, NEW j \in CardJobs, CardsEnd(j) PROVE NodeInv'
  <1>1. order \in Seq(CardJobs) BY DEF NodeInv, NodeTypes
  <1>2. PICK k \in 1..Len(order) : order[k] = j
    <2>1. DOMAIN order = 1..Len(order) BY <1>1
    <2>2. QED BY <2>1 DEF CardsEnd, ToSet
  <1>3. order' \in Seq(CardJobs) /\ \A J : Count(order', J) = Count(order, J) - IF j \in J THEN 1 ELSE 0
    BY <1>1, <1>2, RemoveOne DEF CardsEnd
  <1>4. NodeTypes' BY <1>3 DEF NodeInv, NodeTypes, CardsEnd, Procs
  <1>5. Count(order, {j}) # 0
    <2>1. j \in ToSet(order) BY DEF CardsEnd
    <2>2. QED BY <1>1, <2>1, ListedIsCounted
  <1>6. ASSUME NEW i \in CardJobs PROVE Count(order', {i}) = IF CardsIn(holds', {i}) = {} THEN 0 ELSE 1
    <2>0. Count(order, {i}) = IF CardsIn(holds, {i}) = {} THEN 0 ELSE 1 BY DEF NodeInv, ListedOnce
    <2>1. CASE i = j
      <3>1. CardsIn(holds', {i}) = {} BY <2>1, CardsAssumption DEF CardsIn, CardsEnd
      <3>2. Count(order, {i}) = 1 BY <1>5, <2>0, <2>1
      <3>3. Count(order', {i}) = Count(order, {i}) - 1
        <4>1. j \in {i} BY <2>1
        <4>2. QED BY <1>3, <4>1
      <3>4. Count(order', {i}) = 0 BY <3>2, <3>3
      <3>5. QED BY <3>1, <3>4
    <2>2. CASE i # j
      <3>1. \A c \in Cards : holds'[c] = i <=> holds[c] = i
        BY <2>2, CardsAssumption DEF CardsEnd
      <3>2. CardsIn(holds', {i}) = CardsIn(holds, {i}) BY <3>1 DEF CardsIn
      <3>3. Count(order', {i}) = Count(order, {i}) - 0
        <4>1. j \notin {i} BY <2>2
        <4>2. QED BY <1>3, <4>1
      <3>4. Count(order, {i}) - 0 = Count(order, {i}) BY <2>0
      <3>5. QED BY <2>0, <3>2, <3>3, <3>4
    <2>3. QED BY <2>1, <2>2
  <1>7. QED BY <1>4, <1>6 DEF NodeInv, ListedOnce, Count, Places, CardsIn

LEMMA NextNode == ASSUME NodeInv, [NodeNext]_nodeVars PROVE NodeInv'
  <1>1. ASSUME UNCHANGED <<holds, order>>, NodeTypes' PROVE NodeInv'
    BY <1>1 DEF NodeInv, ListedOnce, Count, Places, CardsIn
  <1>2. CASE UNCHANGED nodeVars BY <1>1, <1>2 DEF NodeInv, NodeTypes, nodeVars
  <1>3. ASSUME NEW c \in Cards, NEW how \in Procs, Computes(c, how) PROVE NodeInv'
    BY <1>1, <1>3 DEF NodeInv, NodeTypes, Computes
  <1>4. ASSUME NEW c \in Cards, NEW u \in Outsiders \cup {Unbound}, Intrudes(c, u) PROVE NodeInv'
    BY <1>1, <1>4 DEF NodeInv, NodeTypes, Intrudes
  <1>5. QED BY <1>2, <1>3, <1>4, StartKeeps, EndKeeps DEF NodeNext

-----------------------------------------------------------------------------
(* The entries: as many of a job as it has cards.                          *)

\* An order of jobs up to a place.
UpTo(k) == {order[i] : i \in 1..k}

LEMMA OnceInOrder ==
  ASSUME NodeInv, NEW k \in Nat, k + 1 <= Len(order)
  PROVE  order[k + 1] \in CardJobs /\ order[k + 1] \notin UpTo(k)
  <1>1. order \in Seq(CardJobs) /\ Len(order) \in Nat BY DEF NodeInv, NodeTypes
  <1> DEFINE j == order[k + 1]
             P == Places(order, {j})
  <1>2. k + 1 \in 1..Len(order) /\ j \in CardJobs BY <1>1
  <1>3. IsFiniteSet(P) /\ Count(order, {j}) \in Nat BY <1>1, PlacesAreFinite
  <1>4. Cardinality(P) \in {0, 1} BY <1>2 DEF NodeInv, ListedOnce, Count
  <1>5. k + 1 \in P BY <1>2 DEF Places
  <1>6. P # {} BY <1>5
  <1> HIDE DEF P
  <1>7. Cardinality(P) = 1 BY <1>3, <1>4, <1>6, FS_EmptySet
  <1>8. \E x : P = {x} BY <1>3, <1>7, FS_Singleton
  <1>9. ASSUME NEW i \in 1..k PROVE order[i] # j
    <2>1. i \in 1..Len(order) /\ i # k + 1 BY <1>1
    <2>2. order[i] = j => i \in P BY <2>1 DEF P, Places
    <2>3. QED BY <1>5, <1>8, <2>1, <2>2
  <1>10. QED BY <1>2, <1>9 DEF UpTo

LEMMA AllAreListed ==
  ASSUME NodeInv, NEW c \in Cards, holds[c] # Unbound
  PROVE  holds[c] \in CardJobs /\ holds[c] \in UpTo(Len(order))
  <1>1. order \in Seq(CardJobs) /\ holds[c] \in CardJobs BY DEF NodeInv, NodeTypes
  <1>2. c \in CardsIn(holds, {holds[c]}) BY DEF CardsIn
  <1>3. CardsIn(holds, {holds[c]}) # {} BY <1>2
  <1>4. Count(order, {holds[c]}) # 0 BY <1>1, <1>3 DEF NodeInv, ListedOnce
  <1>5. \E i \in 1..Len(order) : order[i] \in {holds[c]} BY <1>1, <1>4, CountIsThere
  <1>6. QED BY <1>1, <1>5 DEF UpTo

\* A job has as many indices as cards.
LEMMA IndicesOfCards ==
  ASSUME NodeInv, NEW j \in CardJobs
  PROVE  Cardinality(Indices(j)) = SizeOf(holds, {j})
  <1> DEFINE A == CardsIn(holds, {j})
             f == [c \in A |-> hint[c]]
  <1>1. hint \in [Cards -> Cards] /\ IsInjective(hint) BY CardsAssumption DEF NodeInv, NodeTypes
  <1>2. Indices(j) = {hint[c] : c \in A} BY DEF Indices, CardsIn
  <1>3. A \in SUBSET Cards BY DEF CardsIn
  <1>4. IsFiniteSet(A) BY SizeType
  <1> HIDE DEF A
  <1>5. f \in Bijection(A, Indices(j))
    <2>1. f \in [A -> Indices(j)] BY <1>2
    <2>2. \A c, d \in A : f[c] = f[d] => c = d BY <1>1, <1>3 DEF IsInjective
    <2>3. \A i \in Indices(j) : \E c \in A : f[c] = i BY <1>2
    <2>4. DOMAIN f = A OBVIOUS
    <2> HIDE DEF f
    <2>5. f \in Injection(A, Indices(j)) BY <2>1, <2>2, <2>4 DEF Injection, IsInjective
    <2>6. f \in Surjection(A, Indices(j)) BY <2>1, <2>3 DEF Surjection
    <2>7. QED BY <2>5, <2>6 DEF Bijection
  <1> HIDE DEF f
  <1>6. ExistsBijection(A, Indices(j)) BY <1>5 DEF ExistsBijection
  <1>7. Cardinality(Indices(j)) = Cardinality(A) BY <1>4, <1>6, FS_Bijection
  <1>8. QED BY <1>7 DEF A, SizeOf

\* What one job adds.
Block(j) == Copies(j, Cardinality(Indices(j)))

LEMMA BlockOfJob ==
  ASSUME NodeInv, NEW j \in CardJobs
  PROVE  /\ Block(j) \in Seq(CardJobs)
         /\ \A J : Count(Block(j), J) = IF j \in J THEN SizeOf(holds, {j}) ELSE 0
  <1>1. Cardinality(Indices(j)) = SizeOf(holds, {j}) /\ SizeOf(holds, {j}) \in Nat
    BY IndicesOfCards, SizeType
  <1>2. ASSUME NEW n \in Nat PROVE /\ Copies(j, n) \in Seq(CardJobs)
                                   /\ \A J : Count(Copies(j, n), J) = IF j \in J THEN n ELSE 0
    BY CountOfCopies
  <1>3. QED BY <1>1, <1>2 DEF Block

EntriesWalk(walk) ==
  /\ walk[0] = <<>> /\ walk[Len(order)] = Entries
  /\ \A i \in Nat : i + 1 \in 1..Len(order) => walk[i + 1] = walk[i] \o Block(order[i + 1])

LEMMA EntriesAreStepwise == ASSUME NodeInv PROVE \E walk : EntriesWalk(walk)
  <1> DEFINE n == Len(order)
             D == Seq(CardJobs)
             step == [x \in D \X (1..n) |-> x[1] \o Block(order[x[2]])]
             Unfolds(iter) == iter = [s \in SUBSET (1..n) |->
                                IF s = {} THEN <<>> ELSE iter[s \ {Max(s)}] \o Block(order[Max(s)])]
  <1>1. order \in Seq(CardJobs) /\ n \in Nat /\ DOMAIN order = 1..n /\ <<>> \in D BY DEF NodeInv, NodeTypes
  <1>2. step \in [D \X (1..n) -> D]
    <2>1. ASSUME NEW w \in D, NEW i \in 1..n PROVE w \o Block(order[i]) \in D
      <3>1. order[i] \in CardJobs BY <1>1
      <3>2. Block(order[i]) \in Seq(CardJobs) BY <3>1, BlockOfJob
      <3>3. QED BY <3>2
    <2> HIDE DEF D
    <2>2. QED BY <2>1
  <1>3. PICK iter \in [SUBSET (1..n) -> D] : Iterates(iter, 1..n, <<>>, step)
    <2> HIDE DEF D, step, n
    <2>1. QED BY <1>1, <1>2, IteratesExist
  <1>4. Unfolds(iter)
    <2>1. ASSUME NEW s \in SUBSET (1..n), s # {}
          PROVE  step[<<iter[s \ {Max(s)}], Max(s)>>] = iter[s \ {Max(s)}] \o Block(order[Max(s)])
      <3>1. Max(s) \in 1..n BY <1>1, <2>1, LargestOf
      <3>2. iter[s \ {Max(s)}] \in D OBVIOUS
      <3> HIDE DEF D
      <3>3. QED BY <3>1, <3>2
    <2> HIDE DEF step, D
    <2>2. QED BY <1>3, <2>1 DEF Iterates
  <1> DEFINE chosen == CHOOSE f : Unfolds(f)
  <1>5. Unfolds(chosen) BY <1>4
  <1>6. Entries = chosen[1..n] BY <1>1 DEF Entries, FoldLeft, MapThenFoldSet, Block, Copies
  <1> HIDE DEF chosen
  <1>7. chosen[{}] = <<>> BY <1>5
  <1>8. ASSUME NEW i \in Nat, i + 1 \in 1..n
        PROVE  chosen[1..(i + 1)] = chosen[1..i] \o Block(order[i + 1])
    <2>0. i + 1 <= n BY <1>8
    <2> HIDE DEF step
    <2>a. \A k \in 1..(i + 1) : k \in 1..n BY <1>1, <2>0
    <2>b. i + 1 \in 1..(i + 1) OBVIOUS
    <2>1. 1..(i + 1) \in SUBSET (1..n) /\ i + 1 \in 1..(i + 1) /\ 1..(i + 1) # {} BY <2>a, <2>b
    <2>2. Max(1..(i + 1)) = i + 1 BY <2>1, LargestIsLast
    <2>3. (1..(i + 1)) \ {i + 1} = 1..i OBVIOUS
    <2>4. QED BY <1>5, <2>1, <2>2, <2>3
  <1> DEFINE walk == [i \in 0..n |-> chosen[1..i]]
  <1>9. walk[0] = <<>> /\ walk[n] = Entries
    <2>1. 1..0 = {} OBVIOUS
    <2>2. QED BY <1>1, <1>6, <1>7, <2>1
  <1>10. ASSUME NEW i \in Nat, i + 1 \in 1..n PROVE walk[i + 1] = walk[i] \o Block(order[i + 1])
    <2>1. i \in 0..n /\ i + 1 \in 0..n BY <1>1, <1>10
    <2>2. QED BY <1>8, <1>10, <2>1
  <1> HIDE DEF walk
  <1>11. QED BY <1>9, <1>10 DEF EntriesWalk

\* A set of jobs has the cards of one of them and those of the others.
LEMMA SizeOfOneMore ==
  ASSUME NEW f, NEW J, NEW j, j \notin J
  PROVE  SizeOf(f, J \cup {j}) = SizeOf(f, J) + SizeOf(f, {j})
  <1>1. CardsIn(f, J \cup {j}) = CardsIn(f, J) \cup CardsIn(f, {j}) BY DEF CardsIn
  <1>2. CardsIn(f, J) \cap CardsIn(f, {j}) = {} BY DEF CardsIn
  <1>3. IsFiniteSet(CardsIn(f, J)) /\ IsFiniteSet(CardsIn(f, {j})) /\ SizeOf(f, J) \in Nat /\ SizeOf(f, {j}) \in Nat
    BY SizeType
  <1>4. Cardinality(CardsIn(f, J) \cup CardsIn(f, {j}))
          = Cardinality(CardsIn(f, J)) + Cardinality(CardsIn(f, {j})) - 0
    <2> DEFINE A == CardsIn(f, J)
               B == CardsIn(f, {j})
    <2>1. A \cap B = {} /\ IsFiniteSet(A) /\ IsFiniteSet(B) BY <1>2, <1>3
    <2> HIDE DEF A, B
    <2>2. Cardinality(A \cap B) = 0 BY <2>1, FS_EmptySet
    <2>3. Cardinality(A \cup B) = Cardinality(A) + Cardinality(B) - Cardinality(A \cap B) BY <2>1, FS_Union
    <2>4. QED BY <2>2, <2>3 DEF A, B
  <1>5. SizeOf(f, J \cup {j}) = Cardinality(CardsIn(f, J) \cup CardsIn(f, {j})) BY <1>1 DEF SizeOf
  <1>6. SizeOf(f, J) = Cardinality(CardsIn(f, J)) /\ SizeOf(f, {j}) = Cardinality(CardsIn(f, {j})) BY DEF SizeOf
  <1>7. SizeOf(f, J) + SizeOf(f, {j}) - 0 = SizeOf(f, J) + SizeOf(f, {j}) BY <1>3
  <1>8. QED BY <1>4, <1>5, <1>6, <1>7

LEMMA EntriesAreHeld ==
  ASSUME NodeInv
  PROVE  Entries \in Seq(CardJobs) /\ \A J \in SUBSET CardJobs : Count(Entries, J) = SizeOf(holds, J)
  <1>1. PICK walk : EntriesWalk(walk) BY EntriesAreStepwise
  <1>2. order \in Seq(CardJobs) /\ Len(order) \in Nat BY DEF NodeInv, NodeTypes
  <1> DEFINE Q(m) == m <= Len(order) =>
                       /\ walk[m] \in Seq(CardJobs)
                       /\ \A J \in SUBSET CardJobs : Count(walk[m], J) = SizeOf(holds, J \cap UpTo(m))
             S == {m \in Nat : Q(m)}
  <1>3. Q(0)
    <2>1. UpTo(0) = {} /\ \A J : J \cap {} = {} BY DEF UpTo
    <2>2. SizeOf(holds, {}) = 0
      <3>1. CardsIn(holds, {}) = {} BY DEF CardsIn
      <3>2. QED BY <3>1, FS_EmptySet DEF SizeOf
    <2>3. walk[0] = <<>> BY <1>1 DEF EntriesWalk
    <2>4. QED BY <2>1, <2>2, <2>3, CountOfNone
  <1>4. ASSUME NEW m \in Nat, Q(m), m + 1 <= Len(order) PROVE Q(m + 1)
    <2> DEFINE j == order[m + 1]
               w == walk[m]
    <2>1. j \in CardJobs /\ j \notin UpTo(m) BY <1>4, OnceInOrder
    <2>2. m + 1 \in 1..Len(order) /\ m <= Len(order) BY <1>2, <1>4
    <2>3. walk[m + 1] = w \o Block(j) BY <1>1, <2>2 DEF EntriesWalk
    <2>4. w \in Seq(CardJobs) /\ \A J \in SUBSET CardJobs : Count(w, J) = SizeOf(holds, J \cap UpTo(m))
      BY <1>4, <2>2
    <2>5. UpTo(m + 1) = UpTo(m) \cup {j} BY DEF UpTo
    <2> HIDE DEF j, w
    <2>6. Block(j) \in Seq(CardJobs) BY <2>1, BlockOfJob
    <2>7. ASSUME NEW J \in SUBSET CardJobs PROVE Count(w \o Block(j), J) = SizeOf(holds, J \cap UpTo(m + 1))
      <3>1. Count(w \o Block(j), J) = Count(w, J) + Count(Block(j), J) BY <2>4, <2>6, CountOfBoth
      <3>2. SizeOf(holds, J \cap UpTo(m)) \in Nat BY SizeType
      <3>3. CASE j \in J
        <4>1. Count(Block(j), J) = SizeOf(holds, {j}) BY <2>1, <3>3, BlockOfJob
        <4>2. J \cap UpTo(m + 1) = (J \cap UpTo(m)) \cup {j} /\ j \notin J \cap UpTo(m) BY <2>1, <2>5, <3>3
        <4>3. SizeOf(holds, J \cap UpTo(m + 1)) = SizeOf(holds, J \cap UpTo(m)) + SizeOf(holds, {j})
          BY <4>2, SizeOfOneMore
        <4>4. QED BY <2>4, <3>1, <4>1, <4>3
      <3>4. CASE j \notin J
        <4>1. Count(Block(j), J) = 0 BY <2>1, <3>4, BlockOfJob
        <4>2. J \cap UpTo(m + 1) = J \cap UpTo(m) BY <2>5, <3>4
        <4>3. Count(w, J) = SizeOf(holds, J \cap UpTo(m)) BY <2>4
        <4>4. QED BY <3>1, <3>2, <4>1, <4>2, <4>3
      <3>5. QED BY <3>3, <3>4
    <2>8. w \o Block(j) \in Seq(CardJobs) BY <2>4, <2>6
    <2>9. QED BY <2>3, <2>7, <2>8
  <1>5. \A m \in Nat : Q(m) => Q(m + 1)
    <2> SUFFICES ASSUME NEW m \in Nat, Q(m) PROVE Q(m + 1) OBVIOUS
    <2>1. CASE m + 1 <= Len(order) BY <1>4, <2>1
    <2>2. CASE ~(m + 1 <= Len(order)) BY <2>2
    <2>3. QED BY <2>1, <2>2
  <1> HIDE DEF Q
  <1>6. 0 \in S /\ \A m \in Nat : m \in S => m + 1 \in S BY <1>3, <1>5
  <1> HIDE DEF S
  <1>7. Len(order) \in S BY <1>2, <1>6, Upwards
  <1>8. Q(Len(order)) BY <1>7 DEF S
  <1>9. Len(order) <= Len(order) BY <1>2
  <1>10. walk[Len(order)] = Entries BY <1>1 DEF EntriesWalk
  <1>11. /\ Entries \in Seq(CardJobs)
         /\ \A J \in SUBSET CardJobs : Count(Entries, J) = SizeOf(holds, J \cap UpTo(Len(order)))
    BY <1>8, <1>9, <1>10 DEF Q
  <1>12. ASSUME NEW J \in SUBSET CardJobs PROVE SizeOf(holds, J \cap UpTo(Len(order))) = SizeOf(holds, J)
    <2>1. \A c \in Cards : holds[c] \in J => holds[c] \in UpTo(Len(order))
      BY CardsAssumption, AllAreListed
    <2>2. CardsIn(holds, J \cap UpTo(Len(order))) = CardsIn(holds, J) BY <2>1 DEF CardsIn
    <2>3. QED BY <2>2 DEF SizeOf
  <1>13. QED BY <1>11, <1>12

-----------------------------------------------------------------------------
(* One card or one entry.                                                  *)

Bindings == [bound : [Cards -> CardJobs \cup {Unbound}], left : Seq(CardJobs)]

\* Every job's cards are bound or left.
Balanced(b) ==
  \A J \in SUBSET CardJobs : Count(b.left, J) + SizeOf(b.bound, J) = SizeOf(holds, J)

\* A card takes the first entry of one of the jobs T.
Take(b, c, T) ==
  LET I == {i \in 1..Len(b.left) : b.left[i] \in T} IN
  IF I = {} THEN b ELSE Bind(b, c, b.left[Min(I)])

JobsOf(c) == {j \in CardJobs : CardUser[j] \in Users(c)}

LEMMA CgroupTakes == ASSUME NEW b, NEW c PROVE ByCgroup(b, c) = Take(b, c, JobIds(c))
  <1> DEFINE I == {i \in 1..Len(b.left) : b.left[i] \in JobIds(c)}
  <1>1. ByCgroup(b, c) = LET i == IF I # {} THEN Min(I) ELSE 0 IN IF i = 0 THEN b ELSE Bind(b, c, b.left[i])
    BY DEF ByCgroup, BindFirst, SelectInSeq
  <1>2. I # {} => Min(I) # 0
    <2>1. I \in SUBSET Nat /\ \A i \in I : i # 0 OBVIOUS
    <2> HIDE DEF I
    <2>2. I # {} => \E x \in I : \A y \in I : x <= y BY <2>1, SmallestOf
    <2>3. QED BY <2>1, <2>2 DEF Min
  <1> HIDE DEF I
  <1>3. QED BY <1>1, <1>2 DEF Take, I

LEMMA UserTakes ==
  ASSUME NEW b \in Bindings, NEW c
  PROVE  ByUser(b, c) = IF b.bound[c] # Unbound THEN b ELSE Take(b, c, JobsOf(c))
  <1> DEFINE I == {i \in 1..Len(b.left) : b.left[i] \in JobsOf(c)}
             K == {i \in 1..Len(b.left) : CardUser[b.left[i]] \in Users(c)}
  <1>0. I = K
    <2>1. \A i \in 1..Len(b.left) : b.left[i] \in CardJobs BY DEF Bindings
    <2>2. QED BY <2>1 DEF JobsOf
  <1>1. ByUser(b, c) = IF b.bound[c] # Unbound THEN b ELSE
                       LET i == IF K # {} THEN Min(K) ELSE 0 IN IF i = 0 THEN b ELSE Bind(b, c, b.left[i])
    BY DEF ByUser, BindFirst, SelectInSeq
  <1>2. I # {} => Min(I) # 0
    <2>1. I \in SUBSET Nat /\ \A i \in I : i # 0 OBVIOUS
    <2> HIDE DEF I, K
    <2>2. I # {} => \E x \in I : \A y \in I : x <= y BY <2>1, SmallestOf
    <2>3. QED BY <2>1, <2>2 DEF Min
  <1> HIDE DEF I, K
  <1>3. QED BY <1>0, <1>1, <1>2 DEF Take, I

\* An entry of the job j went to the card c.
Went(t, b, c, j) ==
  /\ t.bound[c] = j /\ \A d \in Cards \ {c} : t.bound[d] = b.bound[d]
  /\ \A J : Count(t.left, J) = Count(b.left, J) - IF j \in J THEN 1 ELSE 0

LEMMA TakeCases ==
  ASSUME NEW b \in Bindings, NEW c \in Cards, NEW T \in SUBSET CardJobs
  PROVE  /\ Take(b, c, T) \in Bindings
         /\ \/ Count(b.left, T) = 0 /\ Take(b, c, T) = b
            \/ \E j \in T : Went(Take(b, c, T), b, c, j)
  <1> DEFINE I == {i \in 1..Len(b.left) : b.left[i] \in T}
             t == Take(b, c, T)
             k == Min(I)
             j == b.left[k]
  <1>1. b.left \in Seq(CardJobs) /\ b.bound \in [Cards -> CardJobs \cup {Unbound}] BY DEF Bindings
  <1>2. CASE I = {}
    <2>1. Count(b.left, T) = 0 BY <1>1, <1>2, CountIsThere
    <2>2. t = b BY <1>2 DEF Take
    <2>3. QED BY <2>1, <2>2
  <1>3. CASE I # {}
    <2>1. k \in I
      <3>1. I \in SUBSET Nat OBVIOUS
      <3> HIDE DEF I
      <3>2. \E x \in I : \A y \in I : x <= y BY <1>3, <3>1, SmallestOf
      <3>3. QED BY <3>2 DEF Min
    <2>2. k \in 1..Len(b.left) /\ j \in T BY <2>1
    <2>3. t = Bind(b, c, j) BY <1>3 DEF Take
    <2> HIDE DEF k, I
    <2>4. /\ RemoveFirst(b.left, j) \in Seq(CardJobs)
          /\ \A J : Count(RemoveFirst(b.left, j), J) = Count(b.left, J) - IF j \in J THEN 1 ELSE 0
      BY <1>1, <2>2, RemoveOne
    <2> HIDE DEF j, t
    <2>5. t.bound = [b.bound EXCEPT ![c] = j] /\ t.left = RemoveFirst(b.left, j) BY <2>3 DEF Bind
    <2>6. t \in Bindings
      <3>1. [b.bound EXCEPT ![c] = j] \in [Cards -> CardJobs \cup {Unbound}] BY <1>1, <2>2
      <3>2. QED BY <2>3, <2>4, <3>1 DEF Bind, Bindings
    <2>7. t.bound[c] = j /\ \A d \in Cards \ {c} : t.bound[d] = b.bound[d] BY <1>1, <2>5
    <2>8. \A J : Count(t.left, J) = Count(b.left, J) - IF j \in J THEN 1 ELSE 0 BY <2>4, <2>5
    <2>9. j \in T /\ Went(t, b, c, j) BY <2>2, <2>7, <2>8 DEF Went
    <2>10. QED BY <2>6, <2>9 DEF t
  <1>4. QED BY <1>2, <1>3

LEMMA TakeBalances ==
  ASSUME NEW b \in Bindings, Balanced(b), NEW c \in Cards, b.bound[c] = Unbound, NEW T \in SUBSET CardJobs
  PROVE  Balanced(Take(b, c, T))
  <1> DEFINE t == Take(b, c, T)
  <1>1. /\ t \in Bindings
        /\ t = b \/ \E j \in T : Went(t, b, c, j)
    BY TakeCases
  <1> HIDE DEF t
  <1>2. CASE t = b BY <1>2 DEF t
  <1>3. ASSUME NEW j \in T, Went(t, b, c, j) PROVE Balanced(t)
    <2> SUFFICES ASSUME NEW J \in SUBSET CardJobs
                 PROVE  Count(t.left, J) + SizeOf(t.bound, J) = SizeOf(holds, J)
      BY DEF Balanced
    <2>0. j \in CardJobs /\ t.bound[c] = j /\ \A d \in Cards \ {c} : t.bound[d] = b.bound[d] BY <1>3 DEF Went
    <2>1. SizeOf(t.bound, J) = SizeOf(b.bound, J) + IF j \in J THEN 1 ELSE 0 BY <2>0, SizeGrows
    <2>2. Count(t.left, J) = Count(b.left, J) - IF j \in J THEN 1 ELSE 0 BY <1>3 DEF Went
    <2>3. Count(b.left, J) \in Nat /\ SizeOf(b.bound, J) \in Nat BY PlacesAreFinite, SizeType DEF Bindings
    <2>4. Count(b.left, J) + SizeOf(b.bound, J) = SizeOf(holds, J) BY DEF Balanced
    <2> DEFINE n == Count(b.left, J)
               m == SizeOf(b.bound, J)
    <2>5. CASE j \in J
      <3>1. Count(t.left, J) = n - 1 /\ SizeOf(t.bound, J) = m + 1 BY <2>1, <2>2, <2>5
      <3> HIDE DEF n, m
      <3>2. n \in Nat /\ m \in Nat /\ n + m = SizeOf(holds, J) BY <2>3, <2>4 DEF n, m
      <3>3. (n - 1) + (m + 1) = n + m BY <3>2
      <3>4. QED BY <3>1, <3>2, <3>3
    <2>6. CASE j \notin J
      <3>1. Count(t.left, J) = n - 0 /\ SizeOf(t.bound, J) = m + 0 BY <2>1, <2>2, <2>6
      <3> HIDE DEF n, m
      <3>2. n \in Nat /\ m \in Nat /\ n + m = SizeOf(holds, J) BY <2>3, <2>4 DEF n, m
      <3>3. (n - 0) + (m + 0) = n + m BY <3>2
      <3>4. QED BY <3>1, <3>2, <3>3
    <2>7. QED BY <2>5, <2>6
  <1>4. QED BY <1>1, <1>2, <1>3 DEF t

LEMMA HintCases ==
  ASSUME NEW b \in Bindings, NEW j \in CardJobs
  PROVE  LET t == ByHint(b, j)
             free == {c \in Cards : b.bound[c] = Unbound /\ Users(c) = {}} IN
         /\ t \in Bindings /\ t.left = b.left
         /\ \/ free = {} /\ t = b
            \/ \E c \in free : /\ t.bound[c] = j /\ \A d \in Cards \ {c} : t.bound[d] = b.bound[d]
                               /\ free \cap Indices(j) # {} => c \in Indices(j)
  <1> DEFINE t == ByHint(b, j)
             free == {c \in Cards : b.bound[c] = Unbound /\ Users(c) = {}}
             hinted == {c \in free : c \in Indices(j)}
             best == IF hinted # {} THEN hinted ELSE free
             c == CHOOSE c \in best : \A d \in best : c <= d
  <1>1. b.left \in Seq(CardJobs) /\ b.bound \in [Cards -> CardJobs \cup {Unbound}] BY DEF Bindings
  <1>2. t = IF best = {} THEN b ELSE [b EXCEPT !.bound[c] = j] BY DEF ByHint
  <1>3. best \in SUBSET free /\ (best = {} => free = {}) /\ (free \cap Indices(j) # {} => best \in SUBSET Indices(j))
    OBVIOUS
  <1>4. free \in SUBSET Cards /\ Cards \in SUBSET Nat BY DEF Cards
  <1>5. CASE best = {} BY <1>2, <1>3, <1>5
  <1>6. CASE best # {}
    <2> HIDE DEF best, free
    <2>1. c \in best
      <3>1. best \in SUBSET Nat BY <1>3, <1>4
      <3>2. \E x \in best : \A y \in best : x <= y BY <1>6, <3>1, SmallestOf
      <3>3. QED BY <3>2
    <2> HIDE DEF c, t
    <2>2. t = [b EXCEPT !.bound[c] = j] BY <1>2, <1>6
    <2>3. c \in free /\ c \in Cards BY <1>3, <1>4, <2>1
    <2>4. t.bound = [b.bound EXCEPT ![c] = j] /\ t.left = b.left BY <2>2 DEF Bindings
    <2>5. t \in Bindings BY <1>1, <2>2, <2>3 DEF Bindings
    <2>6. t.bound[c] = j /\ \A d \in Cards \ {c} : t.bound[d] = b.bound[d] BY <1>1, <2>3, <2>4
    <2>7. free \cap Indices(j) # {} => c \in Indices(j) BY <1>3, <2>1
    <2>8. QED BY <2>3, <2>4, <2>5, <2>6, <2>7 DEF t, free
  <1>7. QED BY <1>5, <1>6

LEMMA FirstOnes ==
  ASSUME NEW n \in Nat, NEW i \in Nat, i + 1 \in 1..n
  PROVE  /\ 1..(i + 1) \in SUBSET (1..n) /\ 1..(i + 1) # {} /\ Max(1..(i + 1)) = i + 1
         /\ (1..(i + 1)) \ {i + 1} = 1..i
  <1>1. i + 1 <= n BY SMT
  <1>2. \A k \in 1..(i + 1) : k \in 1..n BY <1>1
  <1>3. i + 1 \in 1..(i + 1) OBVIOUS
  <1>4. 1..(i + 1) \in SUBSET (1..n) /\ 1..(i + 1) # {} BY <1>2, <1>3
  <1>5. Max(1..(i + 1)) = i + 1 BY <1>3, LargestIsLast
  <1>6. (1..(i + 1)) \ {i + 1} = 1..i OBVIOUS
  <1>7. QED BY <1>4, <1>5, <1>6

\* What the passes are given.
Told == FoldLeft(ByCgroup, Start, CardList)
Sure == FoldLeft(ByUser, Told, CardList)

CgroupWalk(walk) ==
  /\ walk[0] = Start /\ walk[NCards] = Told
  /\ \A i \in Nat : i + 1 \in 1..NCards => walk[i + 1] = ByCgroup(walk[i], CardList[i + 1])
UserWalk(walk) ==
  /\ walk[0] = Told /\ walk[NCards] = Sure
  /\ \A i \in Nat : i + 1 \in 1..NCards => walk[i + 1] = ByUser(walk[i], CardList[i + 1])
HintWalk(walk) ==
  /\ walk[0] = Sure /\ walk[Len(Sure.left)] = FoldLeft(ByHint, Sure, Sure.left)
  /\ \A i \in Nat : i + 1 \in 1..Len(Sure.left) => walk[i + 1] = ByHint(walk[i], Sure.left[i + 1])

LEMMA JobIdsAre ==
  ASSUME NodeInv, NEW c \in Cards
  PROVE  JobIds(c) \in SUBSET CardJobs /\ (shows[c] = "cgroup" => JobIds(c) = {holds[c]})
  BY DEF NodeInv, NodeTypes, JobIds, Procs

LEMMA StartTypes == ASSUME NodeInv PROVE Start \in Bindings /\ Balanced(Start)
  <1>1. Entries \in Seq(CardJobs) /\ \A J \in SUBSET CardJobs : Count(Entries, J) = SizeOf(holds, J)
    BY EntriesAreHeld
  <1>2. Start \in Bindings BY <1>1 DEF Start, Bindings
  <1>3. Start.left = Entries /\ \A c \in Cards : Start.bound[c] = Unbound BY DEF Start
  <1>4. ASSUME NEW J \in SUBSET CardJobs PROVE SizeOf(Start.bound, J) = 0
    <2>1. CardsIn(Start.bound, J) = {} BY <1>3, CardsAssumption DEF CardsIn
    <2>2. QED BY <2>1, FS_EmptySet DEF SizeOf
  <1>5. ASSUME NEW J \in SUBSET CardJobs PROVE Count(Start.left, J) + SizeOf(Start.bound, J) = SizeOf(holds, J)
    BY <1>1, <1>3, <1>4, SizeType
  <1>6. QED BY <1>2, <1>5 DEF Balanced

LEMMA ByCgroupType == ASSUME NodeInv, NEW b \in Bindings, NEW c \in Cards PROVE ByCgroup(b, c) \in Bindings
  BY JobIdsAre, CgroupTakes, TakeCases

LEMMA ByUserType == ASSUME NEW b \in Bindings, NEW c \in Cards PROVE ByUser(b, c) \in Bindings
  <1>1. JobsOf(c) \in SUBSET CardJobs BY DEF JobsOf
  <1>2. QED BY <1>1, UserTakes, TakeCases

LEMMA CgroupStepwise == ASSUME NodeInv PROVE \E walk : CgroupWalk(walk)
  <1> DEFINE n == NCards
             D == Bindings
             step == [x \in D \X (1..n) |-> ByCgroup(x[1], CardList[x[2]])]
             Unfolds(iter) == iter = [r \in SUBSET (1..n) |->
                                IF r = {} THEN Start ELSE ByCgroup(iter[r \ {Max(r)}], CardList[Max(r)])]
  <1>1. n \in Nat /\ DOMAIN CardList = 1..n /\ Start \in D BY CardsAssumption, StartTypes DEF CardList, Cards
  <1>2. step \in [D \X (1..n) -> D]
    <2>1. ASSUME NEW w \in D, NEW i \in 1..n PROVE ByCgroup(w, CardList[i]) \in D BY ByCgroupType DEF Cards, CardList
    <2> HIDE DEF D
    <2>2. QED BY <2>1
  <1>3. PICK iter \in [SUBSET (1..n) -> D] : Iterates(iter, 1..n, Start, step)
    <2> HIDE DEF D, step, n
    <2>1. QED BY <1>1, <1>2, IteratesExist
  <1>4. Unfolds(iter)
    <2>1. ASSUME NEW r \in SUBSET (1..n), r # {}
          PROVE  step[<<iter[r \ {Max(r)}], Max(r)>>] = ByCgroup(iter[r \ {Max(r)}], CardList[Max(r)])
      <3>1. Max(r) \in 1..n BY <1>1, <2>1, LargestOf
      <3>2. iter[r \ {Max(r)}] \in D OBVIOUS
      <3> HIDE DEF D, n
      <3>3. QED BY <3>1, <3>2
    <2> HIDE DEF step, D, n
    <2>2. QED BY <1>3, <2>1 DEF Iterates
  <1> DEFINE chosen == CHOOSE f : Unfolds(f)
  <1>5. Unfolds(chosen) BY <1>4
  <1>6. Told = chosen[1..n] BY <1>1 DEF Told, FoldLeft, MapThenFoldSet
  <1> HIDE DEF chosen, n, step
  <1>7. chosen[{}] = Start BY <1>5
  <1>8. ASSUME NEW i \in Nat, i + 1 \in 1..n
        PROVE  chosen[1..(i + 1)] = ByCgroup(chosen[1..i], CardList[i + 1])
    <2>1. 1..(i + 1) \in SUBSET (1..n) /\ 1..(i + 1) # {} /\ Max(1..(i + 1)) = i + 1
            /\ (1..(i + 1)) \ {i + 1} = 1..i
      BY <1>1, <1>8, FirstOnes
    <2>2. QED BY <1>5, <2>1
  <1> DEFINE walk == [i \in 0..n |-> chosen[1..i]]
  <1>9. walk[0] = Start /\ walk[n] = Told
    <2>1. 1..0 = {} OBVIOUS
    <2>2. QED BY <1>1, <1>6, <1>7, <2>1
  <1>10. ASSUME NEW i \in Nat, i + 1 \in 1..n PROVE walk[i + 1] = ByCgroup(walk[i], CardList[i + 1])
    <2>1. i \in 0..n /\ i + 1 \in 0..n BY <1>1, <1>10
    <2>2. QED BY <1>8, <1>10, <2>1
  <1> HIDE DEF walk
  <1>11. QED BY <1>9, <1>10 DEF CgroupWalk, n

LEMMA UserStepwise == ASSUME NodeInv, Told \in Bindings PROVE \E walk : UserWalk(walk)
  <1> DEFINE n == NCards
             D == Bindings
             step == [x \in D \X (1..n) |-> ByUser(x[1], CardList[x[2]])]
             Unfolds(iter) == iter = [r \in SUBSET (1..n) |->
                                IF r = {} THEN Told ELSE ByUser(iter[r \ {Max(r)}], CardList[Max(r)])]
  <1>1. n \in Nat /\ DOMAIN CardList = 1..n /\ Told \in D BY CardsAssumption DEF CardList, Cards
  <1>2. step \in [D \X (1..n) -> D]
    <2>1. ASSUME NEW w \in D, NEW i \in 1..n PROVE ByUser(w, CardList[i]) \in D BY ByUserType DEF Cards, CardList
    <2> HIDE DEF D
    <2>2. QED BY <2>1
  <1>3. PICK iter \in [SUBSET (1..n) -> D] : Iterates(iter, 1..n, Told, step)
    <2> HIDE DEF D, step, n
    <2>1. QED BY <1>1, <1>2, IteratesExist
  <1>4. Unfolds(iter)
    <2>1. ASSUME NEW r \in SUBSET (1..n), r # {}
          PROVE  step[<<iter[r \ {Max(r)}], Max(r)>>] = ByUser(iter[r \ {Max(r)}], CardList[Max(r)])
      <3>1. Max(r) \in 1..n BY <1>1, <2>1, LargestOf
      <3>2. iter[r \ {Max(r)}] \in D OBVIOUS
      <3> HIDE DEF D, n
      <3>3. QED BY <3>1, <3>2
    <2> HIDE DEF step, D, n
    <2>2. QED BY <1>3, <2>1 DEF Iterates
  <1> DEFINE chosen == CHOOSE f : Unfolds(f)
  <1>5. Unfolds(chosen) BY <1>4
  <1>6. Sure = chosen[1..n] BY <1>1 DEF Sure, FoldLeft, MapThenFoldSet
  <1> HIDE DEF chosen, n, step
  <1>7. chosen[{}] = Told BY <1>5
  <1>8. ASSUME NEW i \in Nat, i + 1 \in 1..n
        PROVE  chosen[1..(i + 1)] = ByUser(chosen[1..i], CardList[i + 1])
    <2>1. 1..(i + 1) \in SUBSET (1..n) /\ 1..(i + 1) # {} /\ Max(1..(i + 1)) = i + 1
            /\ (1..(i + 1)) \ {i + 1} = 1..i
      BY <1>1, <1>8, FirstOnes
    <2>2. QED BY <1>5, <2>1
  <1> DEFINE walk == [i \in 0..n |-> chosen[1..i]]
  <1>9. walk[0] = Told /\ walk[n] = Sure
    <2>1. 1..0 = {} OBVIOUS
    <2>2. QED BY <1>1, <1>6, <1>7, <2>1
  <1>10. ASSUME NEW i \in Nat, i + 1 \in 1..n PROVE walk[i + 1] = ByUser(walk[i], CardList[i + 1])
    <2>1. i \in 0..n /\ i + 1 \in 0..n BY <1>1, <1>10
    <2>2. QED BY <1>8, <1>10, <2>1
  <1> HIDE DEF walk
  <1>11. QED BY <1>9, <1>10 DEF UserWalk, n

LEMMA HintStepwise == ASSUME NodeInv, Sure \in Bindings PROVE \E walk : HintWalk(walk)
  <1> DEFINE n == Len(Sure.left)
             D == Bindings
             step == [x \in D \X (1..n) |-> ByHint(x[1], Sure.left[x[2]])]
             Unfolds(iter) == iter = [r \in SUBSET (1..n) |->
                                IF r = {} THEN Sure ELSE ByHint(iter[r \ {Max(r)}], Sure.left[Max(r)])]
  <1>1. n \in Nat /\ DOMAIN Sure.left = 1..n /\ Sure \in D 
    <2>1. Sure.left \in Seq(CardJobs) BY DEF Bindings
    <2>2. QED BY <2>1
  <1>2. step \in [D \X (1..n) -> D]
    <2>1. ASSUME NEW w \in D, NEW i \in 1..n PROVE ByHint(w, Sure.left[i]) \in D 
      <3>1. Sure.left \in Seq(CardJobs) BY DEF Bindings
      <3>2. Sure.left[i] \in CardJobs BY <3>1
      <3>3. QED BY <3>2, HintCases
    <2> HIDE DEF D
    <2>2. QED BY <2>1
  <1>3. PICK iter \in [SUBSET (1..n) -> D] : Iterates(iter, 1..n, Sure, step)
    <2> HIDE DEF D, step, n
    <2>1. QED BY <1>1, <1>2, IteratesExist
  <1>4. Unfolds(iter)
    <2>1. ASSUME NEW r \in SUBSET (1..n), r # {}
          PROVE  step[<<iter[r \ {Max(r)}], Max(r)>>] = ByHint(iter[r \ {Max(r)}], Sure.left[Max(r)])
      <3>1. Max(r) \in 1..n BY <1>1, <2>1, LargestOf
      <3>2. iter[r \ {Max(r)}] \in D OBVIOUS
      <3> HIDE DEF D, n
      <3>3. QED BY <3>1, <3>2
    <2> HIDE DEF step, D, n
    <2>2. QED BY <1>3, <2>1 DEF Iterates
  <1> DEFINE chosen == CHOOSE f : Unfolds(f)
  <1>5. Unfolds(chosen) BY <1>4
  <1>6. FoldLeft(ByHint, Sure, Sure.left) = chosen[1..n] BY <1>1 DEF FoldLeft, MapThenFoldSet
  <1> HIDE DEF chosen, n, step
  <1>7. chosen[{}] = Sure BY <1>5
  <1>8. ASSUME NEW i \in Nat, i + 1 \in 1..n
        PROVE  chosen[1..(i + 1)] = ByHint(chosen[1..i], Sure.left[i + 1])
    <2>1. 1..(i + 1) \in SUBSET (1..n) /\ 1..(i + 1) # {} /\ Max(1..(i + 1)) = i + 1
            /\ (1..(i + 1)) \ {i + 1} = 1..i
      BY <1>1, <1>8, FirstOnes
    <2>2. QED BY <1>5, <2>1
  <1> DEFINE walk == [i \in 0..n |-> chosen[1..i]]
  <1>9. walk[0] = Sure /\ walk[n] = FoldLeft(ByHint, Sure, Sure.left)
    <2>1. 1..0 = {} OBVIOUS
    <2>2. QED BY <1>1, <1>6, <1>7, <2>1
  <1>10. ASSUME NEW i \in Nat, i + 1 \in 1..n PROVE walk[i + 1] = ByHint(walk[i], Sure.left[i + 1])
    <2>1. i \in 0..n /\ i + 1 \in 0..n BY <1>1, <1>10
    <2>2. QED BY <1>8, <1>10, <2>1
  <1> HIDE DEF walk
  <1>11. QED BY <1>9, <1>10 DEF HintWalk, n

-----------------------------------------------------------------------------
(* The first pass: a card whose process names its job is that job's.       *)

ToldTo(b, k) ==
  /\ b \in Bindings /\ Balanced(b)
  /\ \A c \in Cards : b.bound[c] = IF c <= k /\ shows[c] = "cgroup" THEN holds[c] ELSE Unbound

LEMMA ToldStep ==
  ASSUME NodeInv, NEW k \in Nat, k + 1 \in Cards, NEW b, ToldTo(b, k)
  PROVE  ToldTo(ByCgroup(b, k + 1), k + 1)
  <1> DEFINE c == k + 1
             t == ByCgroup(b, c)
  <1>1. /\ b \in Bindings /\ Balanced(b) /\ c \in Cards /\ b.bound[c] = Unbound
        /\ \A d \in Cards : b.bound[d] = Unbound \/ b.bound[d] = holds[d]
    BY DEF ToldTo
  <1>2. JobIds(c) \in SUBSET CardJobs /\ t = Take(b, c, JobIds(c)) BY <1>1, JobIdsAre, CgroupTakes
  <1> HIDE DEF c, t
  <1>3. t \in Bindings /\ Balanced(t) BY <1>1, <1>2, TakeCases, TakeBalances
  <1>4. CASE shows[c] = "cgroup"
    <2> DEFINE j == holds[c]
    <2>1. JobIds(c) = {j} /\ j \in CardJobs BY <1>1, <1>2, <1>4, JobIdsAre
    <2> HIDE DEF j
    <2>2. SizeOf(b.bound, {j}) < SizeOf(holds, {j})
      <3>1. holds[c] \in {j} /\ b.bound[c] \notin {j} /\ \A d \in Cards : b.bound[d] \in {j} => holds[d] \in {j}
        BY <1>1, <2>1, CardsAssumption DEF j
      <3>2. QED BY <1>1, <3>1, SizeIsLess
    <2>3. Count(b.left, {j}) # 0
      <3>1. Count(b.left, {j}) + SizeOf(b.bound, {j}) = SizeOf(holds, {j}) BY <1>1, <2>1 DEF Balanced
      <3>2. SizeOf(b.bound, {j}) \in Nat /\ SizeOf(holds, {j}) \in Nat BY SizeType
      <3>3. QED BY <2>2, <3>1, <3>2
    <2>4. \E i \in {j} : Went(t, b, c, i) BY <1>1, <1>2, <2>1, <2>3, TakeCases
    <2>5. t.bound[c] = holds[c] /\ \A d \in Cards \ {c} : t.bound[d] = b.bound[d] BY <2>4 DEF Went, j
    <2>6. ASSUME NEW d \in Cards
          PROVE  t.bound[d] = IF d <= k + 1 /\ shows[d] = "cgroup" THEN holds[d] ELSE Unbound
      <3>1. CASE d = c BY <1>4, <2>5, <3>1 DEF c, Cards
      <3>2. CASE d # c
        <4>1. d <= k <=> d <= k + 1 BY <3>2 DEF c, Cards
        <4>2. t.bound[d] = b.bound[d] BY <2>5, <3>2
        <4>3. QED BY <4>1, <4>2 DEF ToldTo
      <3>3. QED BY <3>1, <3>2
    <2>7. ToldTo(t, k + 1) BY <1>3, <2>6 DEF ToldTo
    <2>8. QED BY <2>7 DEF t, c
  <1>5. CASE shows[c] # "cgroup"
    <2>1. JobIds(c) = {} BY <1>5 DEF JobIds
    <2>2. t = b BY <1>1, <1>2, <2>1, TakeCases
    <2>3. ASSUME NEW d \in Cards
          PROVE  b.bound[d] = IF d <= k + 1 /\ shows[d] = "cgroup" THEN holds[d] ELSE Unbound
      <3>1. CASE d = c BY <1>1, <1>5, <3>1
      <3>2. CASE d # c
        <4>1. d <= k <=> d <= k + 1 BY <3>2 DEF c, Cards
        <4>2. QED BY <4>1 DEF ToldTo
      <3>3. QED BY <3>1, <3>2
    <2>4. ToldTo(t, k + 1) BY <1>1, <2>2, <2>3 DEF ToldTo
    <2>5. QED BY <2>4 DEF t, c
  <1>6. QED BY <1>4, <1>5

LEMMA AllNamed == ASSUME NodeInv PROVE ToldTo(Told, NCards)
  <1>1. PICK walk : CgroupWalk(walk) BY CgroupStepwise
  <1> DEFINE Q(m) == m <= NCards => ToldTo(walk[m], m)
             S == {m \in Nat : Q(m)}
  <1>2. Q(0)
    <2>1. walk[0] = Start /\ \A c \in Cards : ~(c <= 0) /\ Start.bound[c] = Unbound
      BY <1>1 DEF CgroupWalk, Start, Cards
    <2>2. QED BY <2>1, StartTypes DEF ToldTo
  <1>3. ASSUME NEW m \in Nat, Q(m), m + 1 <= NCards PROVE Q(m + 1)
    <2>1. m + 1 \in 1..NCards /\ m <= NCards BY <1>3, CardsAssumption
    <2>2. walk[m + 1] = ByCgroup(walk[m], m + 1) BY <1>1, <2>1 DEF CgroupWalk, CardList, Cards
    <2>3. QED BY <1>3, <2>1, <2>2, ToldStep DEF Cards
  <1>4. \A m \in Nat : Q(m) => Q(m + 1)
    <2> SUFFICES ASSUME NEW m \in Nat, Q(m) PROVE Q(m + 1) OBVIOUS
    <2>1. CASE m + 1 <= NCards BY <1>3, <2>1
    <2>2. CASE ~(m + 1 <= NCards) BY <2>2
    <2>3. QED BY <2>1, <2>2
  <1> HIDE DEF Q
  <1>5. 0 \in S /\ \A m \in Nat : m \in S => m + 1 \in S BY <1>2, <1>4
  <1> HIDE DEF S
  <1>6. NCards \in S BY <1>5, Upwards, CardsAssumption
  <1>7. Q(NCards) BY <1>6 DEF S
  <1>8. NCards <= NCards BY CardsAssumption
  <1>9. QED BY <1>1, <1>7, <1>8 DEF Q, CgroupWalk

-----------------------------------------------------------------------------
(* The second pass: with no one outside the scheduler a user's card goes to *)
(* a job of that user.                                                     *)

OwnUser(b, c) == holds[c] # Unbound /\ CardUser[b.bound[c]] = CardUser[holds[c]]

UserTo(b, k) ==
  /\ b \in Bindings /\ Balanced(b)
  /\ \A c \in Cards : shows[c] = "cgroup" => b.bound[c] = holds[c]
  /\ \A c \in Cards : shows[c] # "cgroup" /\ b.bound[c] # Unbound => Users(c) # {}
  /\ Alone => \A c \in Cards : c <= k /\ shows[c] = "user" => b.bound[c] # Unbound
  /\ Alone => \A c \in Cards : b.bound[c] # Unbound => OwnUser(b, c)

\* Who uses a card that is nobody's else.
LEMMA UsersAlone ==
  ASSUME NodeInv, NEW c \in Cards
  PROVE  /\ shows[c] # "none" => holds[c] \in CardJobs /\ holds[c] # Unbound /\ CardUser[holds[c]] \in Users(c)
         /\ Alone => Users(c) = IF shows[c] # "none" THEN {CardUser[holds[c]]} ELSE {}
  <1>1. shows[c] # "none" => holds[c] \in CardJobs /\ holds[c] # Unbound BY DEF NodeInv, NodeTypes
  <1>2. QED BY <1>1 DEF Users, Alone

LEMMA NamedIsUser == ASSUME NodeInv, NEW b, ToldTo(b, NCards) PROVE UserTo(b, 0)
  <1>1. /\ b \in Bindings /\ Balanced(b)
        /\ \A c \in Cards : b.bound[c] = IF shows[c] = "cgroup" THEN holds[c] ELSE Unbound
    BY CardsAssumption DEF ToldTo, Cards
  <1>2. \A c \in Cards : ~(c <= 0) BY DEF Cards
  <1>3. \A c \in Cards : shows[c] = "cgroup" => holds[c] # Unbound BY UsersAlone
  <1>4. \A c \in Cards : b.bound[c] # Unbound => OwnUser(b, c) BY <1>1, <1>3 DEF OwnUser
  <1>5. QED BY <1>1, <1>2, <1>4 DEF UserTo

LEMMA UserStep ==
  ASSUME NodeInv, NEW k \in Nat, k + 1 \in Cards, NEW b, UserTo(b, k)
  PROVE  UserTo(ByUser(b, k + 1), k + 1)
  <1> DEFINE c == k + 1
             t == ByUser(b, c)
             U == JobsOf(c)
  <1>1. b \in Bindings /\ Balanced(b) /\ c \in Cards BY DEF UserTo
  <1>2. t = IF b.bound[c] # Unbound THEN b ELSE Take(b, c, U) BY <1>1, UserTakes
  <1>3. U \in SUBSET CardJobs BY DEF JobsOf
  <1>4. \A d \in Cards : d <= k + 1 <=> d <= k \/ d = c BY DEF Cards
  <1> HIDE DEF c, t, U
  <1>5. ASSUME t = b, Alone /\ shows[c] = "user" => b.bound[c] # Unbound PROVE UserTo(t, k + 1)
    BY <1>4, <1>5 DEF UserTo
  <1>6. CASE b.bound[c] # Unbound BY <1>2, <1>5, <1>6 DEF t, c
  <1>7. CASE b.bound[c] = Unbound
    <2>1. t = Take(b, c, U) BY <1>2, <1>7
    <2>2. /\ t \in Bindings /\ Balanced(t)
          /\ \/ Count(b.left, U) = 0 /\ t = b
             \/ \E j \in U : Went(t, b, c, j)
      BY <1>1, <1>3, <1>7, <2>1, TakeCases, TakeBalances
    <2>3. CASE Count(b.left, U) = 0 /\ t = b
      <3> SUFFICES ASSUME Alone, shows[c] = "user" PROVE FALSE BY <1>5, <2>3 DEF t, c
      <3>1. holds[c] \in U BY <1>1, UsersAlone DEF U, JobsOf
      <3>2. ASSUME NEW d \in Cards, b.bound[d] \in U PROVE holds[d] \in U
        <4>1. b.bound[d] # Unbound BY <1>3, <3>2, CardsAssumption
        <4>2. OwnUser(b, d) BY <4>1 DEF UserTo
        <4>3. holds[d] \in CardJobs BY <4>2 DEF OwnUser, NodeInv, NodeTypes
        <4>4. QED BY <3>2, <4>2, <4>3 DEF OwnUser, U, JobsOf
      <3>3. b.bound[c] \notin U BY <1>3, <1>7, CardsAssumption
      <3>4. SizeOf(b.bound, U) < SizeOf(holds, U) BY <1>1, <3>1, <3>2, <3>3, SizeIsLess
      <3>5. Count(b.left, U) + SizeOf(b.bound, U) = SizeOf(holds, U) BY <1>1, <1>3 DEF Balanced
      <3>6. SizeOf(b.bound, U) \in Nat BY SizeType
      <3>7. Count(b.left, U) = 0 BY <2>3
      <3>8. QED BY <3>4, <3>5, <3>6, <3>7
    <2>4. ASSUME NEW j \in U, Went(t, b, c, j) PROVE UserTo(t, k + 1)
      <3>1. t.bound[c] = j /\ \A d \in Cards \ {c} : t.bound[d] = b.bound[d] BY <2>4 DEF Went
      <3>2. CardUser[j] \in Users(c) BY DEF U, JobsOf
      <3>3. j # Unbound BY <1>3, CardsAssumption
      <3>4. shows[c] # "cgroup" BY <1>1, <1>7, UsersAlone DEF UserTo
      <3>5. Alone => OwnUser(t, c)
        <4>1. Alone => shows[c] # "none" BY <1>1, <3>2, UsersAlone
        <4>2. Alone => CardUser[j] = CardUser[holds[c]] BY <1>1, <3>2, UsersAlone
        <4>3. QED BY <1>1, <3>1, <4>1, <4>2, UsersAlone DEF OwnUser
      <3>6. \A d \in Cards \ {c} : OwnUser(b, d) <=> OwnUser(t, d) BY <3>1 DEF OwnUser
      <3>7. \A d \in Cards : shows[d] = "cgroup" => t.bound[d] = holds[d] BY <3>1, <3>4 DEF UserTo
      <3>8. \A d \in Cards : shows[d] # "cgroup" /\ t.bound[d] # Unbound => Users(d) # {}
        BY <3>1, <3>2 DEF UserTo
      <3>9. Alone => \A d \in Cards : d <= k + 1 /\ shows[d] = "user" => t.bound[d] # Unbound
        BY <1>4, <3>1, <3>3 DEF UserTo
      <3>10. Alone => \A d \in Cards : t.bound[d] # Unbound => OwnUser(t, d) BY <3>1, <3>5, <3>6 DEF UserTo
      <3>11. QED BY <2>2, <3>7, <3>8, <3>9, <3>10 DEF UserTo
    <2>5. QED BY <2>2, <2>3, <2>4 DEF t, c
  <1>8. QED BY <1>6, <1>7

LEMMA AllUsers == ASSUME NodeInv PROVE UserTo(Sure, NCards)
  <1>0. ToldTo(Told, NCards) BY AllNamed
  <1>1. PICK walk : UserWalk(walk) BY <1>0, UserStepwise DEF ToldTo
  <1> DEFINE Q(m) == m <= NCards => UserTo(walk[m], m)
             S == {m \in Nat : Q(m)}
  <1>2. Q(0)
    <2>1. walk[0] = Told BY <1>1 DEF UserWalk
    <2>2. QED BY <1>0, <2>1, NamedIsUser
  <1>3. ASSUME NEW m \in Nat, Q(m), m + 1 <= NCards PROVE Q(m + 1)
    <2>1. m + 1 \in 1..NCards /\ m <= NCards BY <1>3, CardsAssumption
    <2>2. walk[m + 1] = ByUser(walk[m], m + 1) BY <1>1, <2>1 DEF UserWalk, CardList, Cards
    <2>3. QED BY <1>3, <2>1, <2>2, UserStep DEF Cards
  <1>4. \A m \in Nat : Q(m) => Q(m + 1)
    <2> SUFFICES ASSUME NEW m \in Nat, Q(m) PROVE Q(m + 1) OBVIOUS
    <2>1. CASE m + 1 <= NCards BY <1>3, <2>1
    <2>2. CASE ~(m + 1 <= NCards) BY <2>2
    <2>3. QED BY <2>1, <2>2
  <1> HIDE DEF Q
  <1>5. 0 \in S /\ \A m \in Nat : m \in S => m + 1 \in S BY <1>2, <1>4
  <1> HIDE DEF S
  <1>6. NCards \in S BY <1>5, Upwards, CardsAssumption
  <1>7. Q(NCards) BY <1>6 DEF S
  <1>8. NCards <= NCards BY CardsAssumption
  <1>9. QED BY <1>1, <1>7, <1>8 DEF Q, UserWalk

-----------------------------------------------------------------------------
(* The third pass: what is left goes to cards that nobody uses.            *)

HintTo(b, k) ==
  /\ b \in Bindings /\ b.left = Sure.left
  /\ \A c \in Cards : Sure.bound[c] # Unbound => b.bound[c] = Sure.bound[c]
  /\ \A c \in Cards : Sure.bound[c] = Unbound /\ b.bound[c] # Unbound => Users(c) = {}
  /\ \A J \in SUBSET CardJobs : SizeOf(b.bound, J) <= SizeOf(Sure.bound, J) + CountTo(Sure.left, k, J)
  /\ Alone => \A J \in SUBSET CardJobs : SizeOf(b.bound, J) = SizeOf(Sure.bound, J) + CountTo(Sure.left, k, J)
  /\ Traced /\ Alone /\ Exact => \A c \in Cards : b.bound[c] \in {Unbound, holds[c]}

LEMMA SureIsHint == ASSUME NodeInv PROVE HintTo(Sure, 0)
  <1>1. UserTo(Sure, NCards) BY AllUsers
  <1>2. Sure \in Bindings /\ Sure.left \in Seq(CardJobs) BY <1>1 DEF UserTo, Bindings
  <1>3. ASSUME NEW J PROVE SizeOf(Sure.bound, J) + CountTo(Sure.left, 0, J) = SizeOf(Sure.bound, J)
    <2>1. CountTo(Sure.left, 0, J) = 0 BY <1>2, CountToEnds
    <2>2. SizeOf(Sure.bound, J) \in Nat BY SizeType
    <2>3. QED BY <2>1, <2>2
  <1>4. ASSUME Traced, Alone, NEW c \in Cards, Sure.bound[c] # Unbound PROVE Sure.bound[c] = holds[c]
    <2>1. shows[c] = "cgroup" => Sure.bound[c] = holds[c] BY <1>1 DEF UserTo
    <2>2. shows[c] # "cgroup" => Users(c) # {} BY <1>1, <1>4 DEF UserTo
    <2>3. shows[c] \in {"none", "cgroup"} BY <1>4 DEF Traced, NodeInv, NodeTypes, Procs
    <2>4. shows[c] = "none" => Users(c) = {} BY <1>4, UsersAlone
    <2>5. QED BY <2>1, <2>2, <2>3, <2>4
  <1>5. \A J \in SUBSET CardJobs : SizeOf(Sure.bound, J) <= SizeOf(Sure.bound, J) + CountTo(Sure.left, 0, J)
    <2>1. \A J : SizeOf(Sure.bound, J) \in Nat BY SizeType
    <2>2. QED BY <1>3, <2>1
  <1>6. QED BY <1>2, <1>3, <1>4, <1>5 DEF HintTo

\* With no one outside the scheduler a card that is not bound has no user.
LEMMA UnboundIsFree ==
  ASSUME NodeInv, NEW k, NEW b, HintTo(b, k), Alone, NEW c \in Cards, b.bound[c] = Unbound
  PROVE  Users(c) = {}
  <1>1. UserTo(Sure, NCards) BY AllUsers
  <1>2. Sure.bound[c] = Unbound BY DEF HintTo
  <1>3. c <= NCards BY CardsAssumption DEF Cards
  <1>4. shows[c] # "user" BY <1>1, <1>2, <1>3 DEF UserTo
  <1>5. shows[c] # "cgroup"
    <2>1. shows[c] = "cgroup" => holds[c] = Unbound BY <1>1, <1>2 DEF UserTo
    <2>2. QED BY <2>1, UsersAlone
  <1>6. shows[c] = "none" BY <1>4, <1>5 DEF NodeInv, NodeTypes, Procs
  <1>7. QED BY <1>6, UsersAlone

\* Then a job with an entry left has a card that is not bound.
LEMMA EntryHasCard ==
  ASSUME NodeInv, NEW k \in Nat, k + 1 <= Len(Sure.left), NEW b, HintTo(b, k), Alone,
         NEW J \in SUBSET CardJobs, Sure.left[k + 1] \in J
  PROVE  \E c \in Cards : holds[c] \in J /\ b.bound[c] \notin J
  <1>1. Sure.left \in Seq(CardJobs) /\ Balanced(Sure)
    BY AllUsers DEF UserTo, Bindings
  <1> DEFINE n == CountTo(Sure.left, k, J)
             m == CountTo(Sure.left, k + 1, J)
             p == SizeOf(Sure.bound, J)
  <1>2. n \in Nat /\ m = n + 1
    <2>1. CountTo(Sure.left, k, J) \in Nat
          /\ CountTo(Sure.left, k + 1, J) = CountTo(Sure.left, k, J) + IF Sure.left[k + 1] \in J THEN 1 ELSE 0
      BY <1>1, CountToStep
    <2>2. QED BY <2>1
  <1>3. k + 1 \in Nat OBVIOUS
  <1>4. m <= Count(Sure.left, J) BY <1>1, <1>3, CountToIsLess
  <1>5. Count(Sure.left, J) \in Nat BY <1>1, PlacesAreFinite
  <1>6. Count(Sure.left, J) + p = SizeOf(holds, J) BY <1>1 DEF Balanced
  <1>7. p \in Nat /\ SizeOf(b.bound, J) = p + n BY SizeType DEF HintTo
  <1> HIDE DEF n, m, p
  <1>8. SizeOf(b.bound, J) < SizeOf(holds, J) BY <1>2, <1>4, <1>5, <1>6, <1>7
  <1>9. QED BY <1>8, SizeIsMore

LEMMA HintStep ==
  ASSUME NodeInv, NEW k \in Nat, k + 1 <= Len(Sure.left), NEW b, HintTo(b, k)
  PROVE  HintTo(ByHint(b, Sure.left[k + 1]), k + 1)
  <1> DEFINE j == Sure.left[k + 1]
             t == ByHint(b, j)
             free == {c \in Cards : b.bound[c] = Unbound /\ Users(c) = {}}
  <1>1. Sure.left \in Seq(CardJobs) /\ b \in Bindings /\ k <= Len(Sure.left)
    BY AllUsers DEF UserTo, Bindings, HintTo
  <1>2. j \in CardJobs BY <1>1
  <1>3. /\ t \in Bindings /\ t.left = b.left
        /\ \/ free = {} /\ t = b
           \/ \E c \in free : /\ t.bound[c] = j /\ \A d \in Cards \ {c} : t.bound[d] = b.bound[d]
                              /\ free \cap Indices(j) # {} => c \in Indices(j)
    BY <1>1, <1>2, HintCases
  <1>4. ASSUME NEW J
        PROVE  /\ CountTo(Sure.left, k, J) \in Nat
               /\ CountTo(Sure.left, k + 1, J) = CountTo(Sure.left, k, J) + IF j \in J THEN 1 ELSE 0
    BY <1>1, CountToStep
  <1> HIDE DEF t, j
  <1>5. CASE free = {} /\ t = b
    <2>1. ~Alone
      <3> SUFFICES ASSUME Alone PROVE FALSE OBVIOUS
      <3>1. PICK c \in Cards : holds[c] \in CardJobs /\ b.bound[c] \notin CardJobs
        <4>1. CardJobs \in SUBSET CardJobs /\ Sure.left[k + 1] \in CardJobs BY <1>2 DEF j
        <4>2. QED BY <4>1, EntryHasCard
      <3>2. b.bound[c] = Unbound BY <1>1, <3>1 DEF Bindings
      <3>3. Users(c) = {} BY <3>2, UnboundIsFree
      <3>4. QED BY <1>5, <3>2, <3>3
    <2>2. ASSUME NEW J \in SUBSET CardJobs
          PROVE  SizeOf(t.bound, J) <= SizeOf(Sure.bound, J) + CountTo(Sure.left, k + 1, J)
      <3> DEFINE n == CountTo(Sure.left, k, J)
                 m == CountTo(Sure.left, k + 1, J)
                 p == SizeOf(Sure.bound, J)
                 q == SizeOf(b.bound, J)
      <3>1. n \in Nat /\ m = n + IF j \in J THEN 1 ELSE 0 BY <1>4
      <3>2. p \in Nat /\ q \in Nat /\ q <= p + n BY SizeType DEF HintTo
      <3>3. t = b BY <1>5
      <3> HIDE DEF n, m, p, q
      <3>4. m \in Nat /\ n <= m
        <4>1. m = n + 1 \/ m = n + 0 BY <3>1
        <4>2. QED BY <3>1, <4>1
      <3>5. q <= p + m BY <3>1, <3>2, <3>4
      <3>6. QED BY <3>3, <3>5 DEF m, p, q
    <2>3. HintTo(t, k + 1) BY <1>5, <2>1, <2>2 DEF HintTo
    <2>4. QED BY <2>3 DEF t, j
  <1>6. ASSUME NEW c \in free, t.bound[c] = j, \A d \in Cards \ {c} : t.bound[d] = b.bound[d],
               free \cap Indices(j) # {} => c \in Indices(j)
        PROVE  HintTo(t, k + 1)
    <2>1. c \in Cards /\ b.bound[c] = Unbound /\ Users(c) = {} OBVIOUS
    <2>2. Sure.bound[c] = Unbound BY <2>1 DEF HintTo
    <2>3. \A d \in Cards : Sure.bound[d] # Unbound => t.bound[d] = Sure.bound[d] BY <1>6, <2>2 DEF HintTo
    <2>4. \A d \in Cards : Sure.bound[d] = Unbound /\ t.bound[d] # Unbound => Users(d) = {}
      BY <1>6, <2>1 DEF HintTo
    <2>5. ASSUME NEW J \in SUBSET CardJobs
          PROVE  LET most == SizeOf(Sure.bound, J) + CountTo(Sure.left, k + 1, J) IN
                 SizeOf(t.bound, J) <= most /\ (Alone => SizeOf(t.bound, J) = most)
      <3> DEFINE n == CountTo(Sure.left, k, J)
                 m == CountTo(Sure.left, k + 1, J)
                 p == SizeOf(Sure.bound, J)
                 q == SizeOf(b.bound, J)
                 r == SizeOf(t.bound, J)
      <3>1. n \in Nat /\ m = n + IF j \in J THEN 1 ELSE 0 BY <1>4
      <3>2. p \in Nat /\ q \in Nat /\ q <= p + n /\ (Alone => q = p + n) BY SizeType DEF HintTo
      <3>3. r = q + IF j \in J THEN 1 ELSE 0
        <4>1. j \in CardJobs /\ c \in Cards BY <1>2, <2>1 DEF j
        <4>2. b.bound[c] = Unbound /\ t.bound[c] = j BY <1>6, <2>1
        <4>3. \A d \in Cards \ {c} : t.bound[d] = b.bound[d] BY <1>6
        <4> HIDE DEF free
        <4>4. QED BY <4>1, <4>2, <4>3, SizeGrows
      <3> HIDE DEF n, m, p, q, r
      <3>4. PICK a \in {0, 1} : m = n + a /\ r = q + a
        <4>1. CASE j \in J BY <3>1, <3>3, <4>1
        <4>2. CASE j \notin J BY <3>1, <3>3, <4>2
        <4>3. QED BY <4>1, <4>2
      <3>5. r <= p + m BY <3>1, <3>2, <3>4
      <3>6. q = p + n => r = p + m BY <3>1, <3>2, <3>4
      <3>7. QED BY <3>2, <3>5, <3>6 DEF r, p, m
    <2>6. ASSUME Traced, Alone, Exact PROVE j = holds[c]
      <3>1. PICK d \in Cards : holds[d] = j /\ b.bound[d] # j
        <4>1. {j} \in SUBSET CardJobs /\ Sure.left[k + 1] \in {j} BY <1>2 DEF j
        <4>2. \E d \in Cards : holds[d] \in {j} /\ b.bound[d] \notin {j} BY <2>6, <4>1, EntryHasCard
        <4>3. QED BY <4>2
      <3>2. b.bound[d] = Unbound BY <2>6, <3>1 DEF HintTo
      <3>3. Users(d) = {} BY <2>6, <3>2, UnboundIsFree
      <3>4. d \in Indices(j) BY <2>6, <3>1 DEF Indices, Exact
      <3>5. c \in Indices(j) BY <1>6, <3>2, <3>3, <3>4
      <3>6. QED BY <2>6, <3>5 DEF Indices, Exact
    <2>7. ASSUME Traced, Alone, Exact, NEW d \in Cards PROVE t.bound[d] \in {Unbound, holds[d]}
      <3>1. b.bound[d] \in {Unbound, holds[d]} BY <2>7 DEF HintTo
      <3>2. t.bound[d] = IF d = c THEN j ELSE b.bound[d] BY <1>6
      <3>3. QED BY <2>6, <2>7, <3>1, <3>2
    <2>8. t.left = Sure.left BY <1>3 DEF HintTo
    <2>9. QED BY <1>3, <2>3, <2>4, <2>5, <2>7, <2>8 DEF HintTo
  <1>7. QED BY <1>3, <1>5, <1>6 DEF t, j

LEMMA AllHinted ==
  ASSUME NodeInv PROVE HintTo(FoldLeft(ByHint, Sure, Sure.left), Len(Sure.left))
  <1>0. Sure \in Bindings /\ Len(Sure.left) \in Nat BY AllUsers DEF UserTo, Bindings
  <1>1. PICK walk : HintWalk(walk) BY <1>0, HintStepwise
  <1> DEFINE n == Len(Sure.left)
             Q(m) == m <= n => HintTo(walk[m], m)
             S == {m \in Nat : Q(m)}
  <1>2. Q(0)
    <2>1. walk[0] = Sure BY <1>1 DEF HintWalk
    <2>2. QED BY <2>1, SureIsHint
  <1>3. ASSUME NEW m \in Nat, Q(m), m + 1 <= n PROVE Q(m + 1)
    <2>1. m + 1 \in 1..n /\ m <= n BY <1>0, <1>3
    <2>2. walk[m + 1] = ByHint(walk[m], Sure.left[m + 1]) BY <1>1, <2>1 DEF HintWalk
    <2>3. QED BY <1>3, <2>1, <2>2, HintStep
  <1>4. \A m \in Nat : Q(m) => Q(m + 1)
    <2> SUFFICES ASSUME NEW m \in Nat, Q(m) PROVE Q(m + 1) OBVIOUS
    <2>1. CASE m + 1 <= n BY <1>3, <2>1
    <2>2. CASE ~(m + 1 <= n) BY <2>2
    <2>3. QED BY <2>1, <2>2
  <1> HIDE DEF Q
  <1>5. 0 \in S /\ \A m \in Nat : m \in S => m + 1 \in S BY <1>2, <1>4
  <1> HIDE DEF S
  <1>6. n \in S BY <1>0, <1>5, Upwards
  <1>7. Q(n) BY <1>6 DEF S
  <1>8. n <= n BY <1>0
  <1>9. QED BY <1>1, <1>7, <1>8 DEF Q, HintWalk

-----------------------------------------------------------------------------
LEMMA CardsBound == ASSUME NodeInv PROVE CardsAreRight
  <1> DEFINE b == FoldLeft(ByHint, Sure, Sure.left)
             bound == b.bound
             n == Len(Sure.left)
  <1>1. HintTo(b, n) BY AllHinted
  <1>2. UserTo(Sure, NCards) BY AllUsers
  <1>3. Reconciled = bound BY DEF Reconciled, Sure, Told
  <1> HIDE DEF b
  <1>4. bound \in [Cards -> CardJobs \cup {Unbound}] BY <1>1 DEF HintTo, Bindings
  <1>5. ASSUME NEW J \in SUBSET CardJobs
        PROVE  SizeOf(bound, J) <= SizeOf(holds, J) /\ (Alone => SizeOf(bound, J) = SizeOf(holds, J))
    <2>1. Sure.left \in Seq(CardJobs) /\ Balanced(Sure) BY <1>2 DEF UserTo, Bindings
    <2>2. CountTo(Sure.left, n, J) = Count(Sure.left, J) BY <2>1, CountToEnds
    <2>3. Count(Sure.left, J) + SizeOf(Sure.bound, J) = SizeOf(holds, J) BY <2>1 DEF Balanced
    <2>4. Count(Sure.left, J) \in Nat /\ SizeOf(Sure.bound, J) \in Nat BY <2>1, PlacesAreFinite, SizeType
    <2>5. SizeOf(Sure.bound, J) + CountTo(Sure.left, n, J) = SizeOf(holds, J) BY <2>2, <2>3, <2>4
    <2>6. QED BY <1>1, <2>5 DEF HintTo
  <1>6. \A f : \A j : CardsOf(f, j) = CardsIn(f, {j}) BY DEF CardsOf, CardsIn
  <1>7. ASSUME NEW j \in CardJobs
        PROVE  /\ Cardinality(CardsOf(bound, j)) <= Cardinality(CardsOf(holds, j))
               /\ Alone => Cardinality(CardsOf(bound, j)) = Cardinality(CardsOf(holds, j))
    <2>1. Cardinality(CardsOf(bound, j)) = SizeOf(bound, {j}) /\ Cardinality(CardsOf(holds, j)) = SizeOf(holds, {j})
      BY <1>6 DEF SizeOf
    <2>2. QED BY <1>5, <2>1
  <1>8. ASSUME NEW c \in Cards, shows[c] = "cgroup" PROVE bound[c] = holds[c] /\ holds[c] # Unbound
    <2>1. Sure.bound[c] = holds[c] /\ holds[c] # Unbound BY <1>2, <1>8, UsersAlone DEF UserTo
    <2>2. QED BY <1>1, <2>1 DEF HintTo
  <1>9. ASSUME Alone, NEW c \in Cards, bound[c] = Unbound PROVE Users(c) = {}
    BY <1>1, <1>9, UnboundIsFree
  <1>10. ASSUME Alone, NEW c \in Cards, shows[c] = "user" PROVE CardUser[bound[c]] = CardUser[holds[c]]
    <2>1. c <= NCards BY CardsAssumption DEF Cards
    <2>2. Sure.bound[c] # Unbound BY <1>2, <1>10, <2>1 DEF UserTo
    <2>3. CardUser[Sure.bound[c]] = CardUser[holds[c]] BY <1>2, <1>10, <2>2 DEF UserTo, OwnUser
    <2>4. bound[c] = Sure.bound[c] BY <1>1, <2>2 DEF HintTo
    <2>5. QED BY <2>3, <2>4
  <1>11. ASSUME Traced, NEW c \in RogueCards(bound) PROVE outside[c] # Unbound
    <2>1. c \in Cards /\ Users(c) # {} /\ bound[c] = Unbound BY DEF RogueCards
    <2>2. shows[c] # "cgroup" BY <1>8, <2>1
    <2>3. shows[c] = "none" BY <1>11, <2>1, <2>2 DEF Traced, NodeInv, NodeTypes, Procs
    <2>4. QED BY <2>1, <2>3 DEF Users
  <1>12. ASSUME Traced, Alone, Exact PROVE bound = holds
    <2>1. \A d \in Cards : bound[d] \in {Unbound, holds[d]} BY <1>1, <1>12 DEF HintTo
    <2>2. ASSUME NEW c \in Cards PROVE bound[c] = holds[c]
      <3> SUFFICES ASSUME bound[c] # holds[c] PROVE FALSE OBVIOUS
      <3> DEFINE j == holds[c]
      <3>1. bound[c] = Unbound /\ j \in CardJobs BY <2>1 DEF NodeInv, NodeTypes
      <3>2. holds[c] \in {j} /\ bound[c] \notin {j} /\ \A d \in Cards : bound[d] \in {j} => holds[d] \in {j}
        BY <2>1, <3>1, CardsAssumption
      <3> HIDE DEF j, bound
      <3>3. SizeOf(bound, {j}) < SizeOf(holds, {j}) BY <3>2, SizeIsLess
      <3>4. SizeOf(bound, {j}) = SizeOf(holds, {j}) BY <1>5, <1>12, <3>1
      <3>5. SizeOf(bound, {j}) \in Nat /\ SizeOf(holds, {j}) \in Nat BY SizeType
      <3>6. QED BY <3>3, <3>4, <3>5
    <2>3. holds \in [Cards -> CardJobs \cup {Unbound}] BY DEF NodeInv, NodeTypes
    <2>4. QED BY <1>4, <2>2, <2>3
  <1>13. ASSUME Alone PROVE RogueCards(bound) = {} BY <1>9, <1>13 DEF RogueCards
  <1> HIDE DEF bound
  <1>14. QED BY <1>3, <1>7, <1>8, <1>10, <1>11, <1>12, <1>13 DEF CardsAreRight

\* No job is given more cards than it has, and a card whose process names its job is that
\* job's; with no one outside the scheduler none is lost, called rogue or another user's,
\* whichever jobs came first and whatever the indices are (common.py:1868).
THEOREM RightCards == NodeSpec => []CardsAreRight
  <1>1. NodeInit => NodeInv BY InitNode
  <1>2. NodeInv /\ [NodeNext]_nodeVars => NodeInv' BY NextNode
  <1>3. NodeInv => CardsAreRight BY CardsBound
  <1>4. QED BY <1>1, <1>2, <1>3, PTL DEF NodeSpec
=============================================================================
