-------------------------- MODULE JobOutcomesProofs ---------------------------
(***************************************************************************)
(* For every set of jobs and every size of batch and queue: the types, and *)
(* the promises of the outcome queue that do not depend on fairness.       *)
(***************************************************************************)
EXTENDS JobOutcomes, TLAPS

-----------------------------------------------------------------------------
(* The inductive invariant.                                                *)

Waiting == InQueue \cup work

\* A run number anywhere in the notifier is that of a run that was started.
RunsKnown ==
  /\ \A j \in Jobs :
       /\ current[j] <= run[j] /\ tracked[j] <= run[j] /\ saved[j] <= run[j]
       /\ fresh[j] \in {0, current[j]} /\ sources[j] \in {0, tracked[j]}
  /\ \A e \in Waiting : e.run <= run[e.job] /\ e.source \in {0, e.run}
  /\ \A s \in judged : s[2] <= run[s[1]]

\* What is reported, or about to be, has ended.
Over(j, r) == run[j] > r \/ j \notin running

AllOver ==
  /\ \A j \in gone : tracked[j] # 0 /\ Over(j, tracked[j])
  /\ \A e \in Waiting : Over(e.job, e.run)
  /\ \A s \in judged : Over(s[1], s[2])

\* Every end waits at most once.
Same(e, f) == e.job = f.job /\ e.run = f.run

WaitingOnce ==
  /\ \A e, f \in work : Same(e, f) => e = f
  /\ \A i \in DOMAIN queue : \A e \in queue[i] :
       /\ \A f \in work : ~Same(e, f)
       /\ \A k \in DOMAIN queue : \A f \in queue[k] : Same(e, f) => i = k /\ e = f

\* The memory and the lists of a cycle name no end that waits already, nor one
\* that was judged, unless a restart brought it back.
Unheard(j, r) == \A e \in Waiting : ~(e.job = j /\ e.run = r)

MemoryIsNew ==
  /\ gone \cap deferred = {}
  /\ deferred # {} => phase = "offer"
  /\ \A j \in gone \cup deferred : tracked[j] # 0
  /\ \A j \in Jobs : current[j] # 0 =>
       j \notin gone \cup deferred /\ Unheard(j, current[j]) /\ <<j, current[j]>> \notin judged
  /\ \A j \in Jobs : tracked[j] # 0 /\ (phase = "offer" => j \in gone \cup deferred) =>
       Unheard(j, tracked[j]) /\ <<j, tracked[j]>> \notin judged \ doubtful

\* What waits was not judged, unless a restart brought it back.
WaitingIsNew == \A e \in Waiting : EndOf(e) \notin judged \ doubtful

Inv == TypeOK /\ RunsKnown /\ AllOver /\ WaitingOnce /\ MemoryIsNew /\ WaitingIsNew

-----------------------------------------------------------------------------
(* Batches in the queue.                                                   *)

\* What a queue of batches holds once a batch is put at its end.
LEMMA Appended ==
  ASSUME NEW q \in Seq(SUBSET Entries), NEW b \in SUBSET Entries
  PROVE  LET p == Append(q, b) IN
         /\ p \in Seq(SUBSET Entries) /\ Len(p) = Len(q) + 1
         /\ DOMAIN q = 1..Len(q) /\ DOMAIN p = 1..Len(q) + 1
         /\ p[Len(q) + 1] = b
         /\ \A i \in 1..Len(q) : p[i] = q[i]
         /\ UNION {p[i] : i \in DOMAIN p} = (UNION {q[i] : i \in DOMAIN q}) \cup b
<1> DEFINE p == Append(q, b)
<1>1. /\ p \in Seq(SUBSET Entries) /\ Len(p) = Len(q) + 1 /\ Len(q) \in Nat
      /\ DOMAIN q = 1..Len(q) /\ DOMAIN p = 1..Len(q) + 1
      /\ p[Len(q) + 1] = b
      /\ \A i \in 1..Len(q) : p[i] = q[i]
  OBVIOUS
<1> HIDE DEF p
<1>2. 1..Len(q) + 1 = 1..Len(q) \cup {Len(q) + 1}
  BY <1>1
<1>3. UNION {p[i] : i \in DOMAIN p} = (UNION {q[i] : i \in DOMAIN q}) \cup b
  BY <1>1, <1>2
<1>4. QED
  BY <1>1, <1>3 DEF p

\* What is left once the first batch is taken.
LEMMA Taken ==
  ASSUME NEW q \in Seq(SUBSET Entries), q # <<>>
  PROVE  /\ Tail(q) \in Seq(SUBSET Entries) /\ Len(q) \in Nat \ {0} /\ Len(Tail(q)) = Len(q) - 1
         /\ DOMAIN q = 1..Len(q) /\ DOMAIN Tail(q) = 1..Len(q) - 1
         /\ Head(q) = q[1] /\ Head(q) \in SUBSET Entries
         /\ \A i \in 1..Len(q) - 1 : Tail(q)[i] = q[i + 1]
         /\ UNION {q[i] : i \in DOMAIN q} = (UNION {Tail(q)[i] : i \in DOMAIN Tail(q)}) \cup Head(q)
<1> DEFINE t == Tail(q)
<1>1. /\ t \in Seq(SUBSET Entries) /\ Len(q) \in Nat \ {0} /\ Len(t) = Len(q) - 1
      /\ DOMAIN q = 1..Len(q) /\ DOMAIN t = 1..Len(q) - 1
      /\ Head(q) = q[1] /\ Head(q) \in SUBSET Entries
      /\ \A i \in 1..Len(q) - 1 : t[i] = q[i + 1]
  OBVIOUS
<1> HIDE DEF t
<1>2. \A i \in 1..Len(q) : i = 1 \/ (i - 1 \in 1..Len(q) - 1 /\ q[i] = t[i - 1])
  BY <1>1
<1>3. \A i \in 1..Len(q) - 1 : i + 1 \in 1..Len(q)
  BY <1>1
<1>4. UNION {q[i] : i \in DOMAIN q} \subseteq (UNION {t[i] : i \in DOMAIN t}) \cup q[1]
  BY <1>1, <1>2
<1>5. 1 \in DOMAIN q
  BY <1>1
<1>6. (UNION {t[i] : i \in DOMAIN t}) \cup q[1] \subseteq UNION {q[i] : i \in DOMAIN q}
  BY <1>1, <1>3, <1>5
<1>7. QED
  BY <1>1, <1>4, <1>6 DEF t

\* What a batch of the memory says.
LEMMA Batched ==
  ASSUME TypeOK, NEW b \in SUBSET Jobs, \A j \in b : tracked[j] # 0
  PROVE  /\ Batch(b) \in SUBSET Entries
         /\ \A e \in Batch(b) : e.job \in b /\ e.run = tracked[e.job] /\ e.source = sources[e.job]
         /\ \A e, f \in Batch(b) : Same(e, f) => e = f
<1>1. tracked \in [Jobs -> Nat] /\ sources \in [Jobs -> Nat]
  BY DEF TypeOK
<1>2. \A j \in b : [job |-> j, run |-> tracked[j], source |-> sources[j]] \in Entries
  BY <1>1 DEF Entries
<1>3. QED
  BY <1>2 DEF Batch, Same

-----------------------------------------------------------------------------
(* Every step keeps the invariant.  First the steps that leave the queue    *)
(* and the worker alone.                                                    *)

LEMMA InvInit == Init => Inv
<1> SUFFICES ASSUME Init PROVE Inv
  OBVIOUS
<1>1. TypeOK
  BY SizesAssumption DEF Init, TypeOK, Nothing
<1>2. Waiting = {}
  BY DEF Init, Waiting, InQueue
<1>3. RunsKnown /\ AllOver /\ MemoryIsNew /\ WaitingIsNew
  BY <1>2 DEF Init, Nothing, RunsKnown, AllOver, MemoryIsNew, WaitingIsNew
<1>4. WaitingOnce
  BY DEF Init, WaitingOnce
<1>5. QED
  BY <1>1, <1>3, <1>4 DEF Inv

\* Jobs start and end.
LEMMA SchedulerKeeps == Inv /\ Scheduler => Inv'
<1> SUFFICES ASSUME Inv, NEW j \in Jobs, Start(j) \/ Leave(j) PROVE Inv'
  BY DEF Scheduler
<1>1. /\ UNCHANGED <<locals, memory, worker, saved, history>>
      /\ Waiting' = Waiting
  BY DEF Start, Leave, Waiting, InQueue, worker
<1>2. run \in [Jobs -> Nat] /\ run' \in [Jobs -> Nat] /\ running \subseteq Jobs /\ running' \subseteq Jobs
  BY DEF Inv, TypeOK, Start, Leave
<1>3. \A i \in Jobs : run[i] <= run'[i] /\ (i \in running' => i \in running \/ run'[i] > run[i])
  BY <1>2 DEF Start, Leave
<1>4. TypeOK'
  BY <1>1, <1>2 DEF Inv, TypeOK, locals, memory, worker, history
<1>5. /\ Waiting \subseteq Entries /\ judged \subseteq Ends
      /\ current \in [Jobs -> Nat] /\ tracked \in [Jobs -> Nat] /\ saved \in [Jobs -> Nat]
      /\ gone \subseteq Jobs
  BY DEF Inv, TypeOK, Waiting, InQueue
<1>6. RunsKnown'
  <2>1. \A i \in Jobs : current[i] <= run'[i] /\ tracked[i] <= run'[i] /\ saved[i] <= run'[i]
    BY <1>2, <1>3, <1>5 DEF Inv, RunsKnown
  <2>2. \A e \in Waiting : e.run <= run'[e.job] /\ e.source \in {0, e.run}
    BY <1>2, <1>3, <1>5 DEF Inv, RunsKnown, Entries
  <2>3. \A s \in judged : s[2] <= run'[s[1]]
    BY <1>2, <1>3, <1>5 DEF Inv, RunsKnown, Ends
  <2>4. QED
    BY <1>1, <2>1, <2>2, <2>3 DEF Inv, RunsKnown, locals, memory, history
<1>7. AllOver'
  <2>1. \A i \in Jobs, r \in Nat : Over(i, r) /\ r <= run[i] => Over(i, r)'
    BY <1>2, <1>3 DEF Over
  <2>2. \A i \in gone : tracked[i] # 0 /\ Over(i, tracked[i])'
    BY <1>1, <1>5, <2>1 DEF Inv, AllOver, RunsKnown, memory
  <2>3. \A e \in Waiting : Over(e.job, e.run)'
    BY <1>5, <2>1 DEF Inv, AllOver, RunsKnown, Entries
  <2>4. \A s \in judged : Over(s[1], s[2])'
    BY <1>5, <2>1 DEF Inv, AllOver, RunsKnown, Ends
  <2>5. QED
    BY <1>1, <2>2, <2>3, <2>4 DEF AllOver, Over, locals, memory, history
<1>8. WaitingOnce' /\ MemoryIsNew' /\ WaitingIsNew'
  BY <1>1 DEF Inv, WaitingOnce, MemoryIsNew, WaitingIsNew, Unheard, locals, memory, worker, history
<1>9. QED
  BY <1>4, <1>6, <1>7, <1>8 DEF Inv

\* A cycle compares a snapshot with the memory.  What it finds running has not
\* been declared over before.
LEMMA DiffKeeps == ASSUME Inv, NEW known \in SUBSET Jobs, Diff(known) PROVE Inv'
<1>1. /\ phase = "idle" /\ phase' = "offer"
      /\ current' = [j \in Jobs |-> IF j \in running THEN run[j] ELSE 0]
      /\ fresh' = [j \in Jobs |-> IF j \in running \cap known THEN run[j] ELSE 0]
      /\ gone' = Present(tracked) \ running /\ deferred' = {}
      /\ seen' = seen \cup EndsOf(current')
      /\ UNCHANGED <<scheduler, memory, worker, saved, judged, posts, lost, doubtful>>
      /\ Waiting' = Waiting
  BY DEF Diff, Waiting, InQueue, worker
<1>2. /\ run \in [Jobs -> Nat] /\ tracked \in [Jobs -> Nat] /\ running \subseteq Jobs
      /\ Waiting \subseteq Entries /\ judged \subseteq Ends
  BY DEF Inv, TypeOK, Waiting, InQueue
<1>3. TypeOK'
  <2>1. current' \in [Jobs -> Nat] /\ fresh' \in [Jobs -> Nat] /\ gone' \subseteq Jobs
    BY <1>1, <1>2 DEF Present
  <2>2. seen' \subseteq Ends
    BY <1>1, <2>1 DEF Inv, TypeOK, EndsOf, Present, Ends
  <2>3. QED
    BY <1>1, <2>1, <2>2 DEF Inv, TypeOK, scheduler, memory, worker
<1>4. RunsKnown'
  BY <1>1, <1>2 DEF Inv, RunsKnown, scheduler, memory
<1>5. AllOver'
  BY <1>1, <1>2 DEF Inv, AllOver, Over, Present, scheduler, memory
<1>6. MemoryIsNew'
  <2>1. ASSUME NEW j \in Jobs, current'[j] # 0
        PROVE  /\ j \notin gone' \cup deferred'
               /\ Unheard(j, current'[j]) /\ <<j, current'[j]>> \notin judged
    <3>1. j \in running /\ current'[j] = run[j]
      BY <1>1, <2>1
    <3>2. ~Over(j, run[j])
      BY <1>2, <3>1 DEF Over
    <3>3. \A e \in Waiting : Over(e.job, e.run)
      BY DEF Inv, AllOver
    <3>4. \A s \in judged : Over(s[1], s[2])
      BY DEF Inv, AllOver
    <3>5. QED
      BY <1>1, <3>1, <3>2, <3>3, <3>4 DEF Unheard
  <2>2. \A j \in Jobs : tracked[j] # 0 => Unheard(j, tracked[j]) /\ <<j, tracked[j]>> \notin judged \ doubtful
    BY <1>1 DEF Inv, MemoryIsNew
  <2>3. QED
    BY <1>1, <2>1, <2>2 DEF MemoryIsNew, Unheard, Present, memory
<1>7. WaitingOnce' /\ WaitingIsNew'
  BY <1>1 DEF Inv, WaitingOnce, WaitingIsNew, worker
<1>8. QED
  BY <1>3, <1>4, <1>5, <1>6, <1>7 DEF Inv

\* The memory is rebuilt.
LEMMA RememberKeeps == Inv /\ Remember => Inv'
<1> SUFFICES ASSUME Inv, Remember PROVE Inv'
  OBVIOUS
<1>1. /\ phase = "offer" /\ phase' = "save" /\ gone = {} /\ gone' = {}
      /\ tracked' = Kept(tracked, current) /\ sources' = Kept(sources, fresh)
      /\ deferred' = {} /\ current' = Nothing /\ fresh' = Nothing
      /\ UNCHANGED <<scheduler, worker, saved, history>>
      /\ Waiting' = Waiting
  BY DEF Remember, Waiting, InQueue, worker
<1>2. \A j \in Jobs :
        /\ current'[j] = 0 /\ fresh'[j] = 0
        /\ j \in deferred => tracked'[j] = tracked[j] /\ sources'[j] = sources[j]
        /\ j \notin deferred => tracked'[j] = current[j] /\ sources'[j] = fresh[j]
  BY <1>1 DEF Kept, Nothing
<1>3. TypeOK'
  <2>1. {current', fresh', tracked', sources'} \subseteq [Jobs -> Nat]
    BY <1>1 DEF Inv, TypeOK, Kept, Nothing
  <2>2. QED
    BY <1>1, <2>1 DEF Inv, TypeOK, scheduler, worker, history
<1>4. RunsKnown'
  BY <1>1, <1>2 DEF Inv, RunsKnown, TypeOK, scheduler, history
<1>5. AllOver' /\ WaitingOnce' /\ WaitingIsNew'
  BY <1>1 DEF Inv, AllOver, Over, WaitingOnce, WaitingIsNew, scheduler, worker, history
<1>6. MemoryIsNew'
  BY <1>1, <1>2 DEF Inv, MemoryIsNew, Unheard, history
<1>7. QED
  BY <1>3, <1>4, <1>5, <1>6 DEF Inv

\* A snapshot with errors, and the end of a cycle.
LEMMA SaveKeeps == Inv /\ (SkipDiff \/ Save \/ SaveFails) => Inv'
<1> SUFFICES ASSUME Inv, SkipDiff \/ Save \/ SaveFails PROVE Inv'
  OBVIOUS
<1>1. /\ phase # "offer" /\ phase' \in {"save", "idle"}
      /\ saved' \in {saved, tracked} /\ sources' \in {sources, Nothing}
      /\ UNCHANGED <<scheduler, current, fresh, gone, deferred, tracked, worker, history>>
      /\ Waiting' = Waiting
  BY DEF SkipDiff, Save, SaveFails, memory, Waiting, InQueue, worker
<1>2. TypeOK'
  <2>1. Nothing \in [Jobs -> Nat]
    BY DEF Nothing
  <2>2. QED
    BY <1>1, <2>1 DEF Inv, TypeOK, scheduler, worker, history
<1>3. RunsKnown'
  <2>1. \A j \in Jobs : Nothing[j] = 0
    BY DEF Nothing
  <2>2. QED
    BY <1>1, <2>1 DEF Inv, RunsKnown, scheduler, history
<1>4. AllOver' /\ WaitingOnce' /\ WaitingIsNew'
  BY <1>1 DEF Inv, AllOver, Over, WaitingOnce, WaitingIsNew, scheduler, worker, history
<1>5. MemoryIsNew'
  BY <1>1 DEF Inv, MemoryIsNew, Unheard, history
<1>6. QED
  BY <1>2, <1>3, <1>4, <1>5 DEF Inv

-----------------------------------------------------------------------------
(* The steps on the queue.                                                 *)

\* A full queue defers the batch.
LEMMA DeferKeeps ==
  ASSUME Inv, NEW b \in SUBSET gone, Offer(b), ~(Len(queue) < QueueSize) PROVE Inv'
<1>1. /\ phase = "offer" /\ gone' = gone \ b
      /\ queue' = queue /\ deferred' = deferred \cup b
      /\ UNCHANGED <<scheduler, phase, current, fresh, memory, work, saved, history>>
      /\ Waiting' = Waiting
  BY DEF Offer, Waiting, InQueue
<1>2. TypeOK'
  BY <1>1 DEF Inv, TypeOK, scheduler, memory, history
<1>3. RunsKnown' /\ AllOver' /\ WaitingOnce' /\ WaitingIsNew'
  BY <1>1 DEF Inv, RunsKnown, AllOver, Over, WaitingOnce, WaitingIsNew, scheduler, memory, history
<1>4. MemoryIsNew'
  BY <1>1 DEF Inv, MemoryIsNew, Unheard, memory, history
<1>5. QED
  BY <1>2, <1>3, <1>4 DEF Inv

\* A batch enters the queue: its ends are over, and none of them waits already.
LEMMA OfferKeeps ==
  ASSUME Inv, NEW b \in SUBSET gone, Offer(b), Len(queue) < QueueSize PROVE Inv'
<1> DEFINE new == Batch(b)
<1>1. /\ phase = "offer" /\ gone' = gone \ b
      /\ queue' = Append(queue, new) /\ deferred' = deferred
      /\ UNCHANGED <<scheduler, phase, current, fresh, memory, work, saved, history>>
  BY DEF Offer
<1>2. TypeOK /\ queue \in Seq(SUBSET Entries) /\ b \subseteq Jobs /\ \A j \in b : tracked[j] # 0
  BY DEF Inv, TypeOK, AllOver
<1>3. /\ new \in SUBSET Entries
      /\ \A e \in new : e.job \in b /\ e.run = tracked[e.job] /\ e.source = sources[e.job]
      /\ \A e, f \in new : Same(e, f) => e = f
  BY <1>2, Batched
<1> HIDE DEF new
<1>4. /\ queue' \in Seq(SUBSET Entries) /\ Len(queue') = Len(queue) + 1 /\ Len(queue) \in Nat
      /\ DOMAIN queue = 1..Len(queue) /\ DOMAIN queue' = 1..Len(queue) + 1
      /\ queue'[Len(queue) + 1] = new
      /\ \A i \in 1..Len(queue) : queue'[i] = queue[i]
      /\ InQueue' = InQueue \cup new
  BY <1>1, <1>2, <1>3, Appended DEF InQueue
<1>5. Waiting' = Waiting \cup new
  BY <1>1, <1>4 DEF Waiting
<1>6. TypeOK'
  <2>1. Len(queue') <= QueueSize
    BY <1>4, SizesAssumption
  <2>2. QED
    BY <1>1, <1>4, <2>1 DEF Inv, TypeOK, scheduler, memory, history
<1>7. \A e \in new : e.job \in Jobs /\ Unheard(e.job, e.run) /\ EndOf(e) \notin judged \ doubtful
  BY <1>1, <1>2, <1>3 DEF Inv, MemoryIsNew, EndOf
<1>8. RunsKnown'
  BY <1>1, <1>2, <1>3, <1>5 DEF Inv, RunsKnown, scheduler, memory, history
<1>9. AllOver'
  BY <1>1, <1>2, <1>3, <1>5 DEF Inv, AllOver, Over, scheduler, memory, history
<1>10. WaitingOnce'
  <2>1. \A i \in 1..Len(queue) : \A e \in queue[i] : e \in Waiting
    BY <1>4 DEF Waiting, InQueue
  <2>2. \A e \in new, f \in Waiting : ~Same(e, f) /\ ~Same(f, e)
    BY <1>7 DEF Unheard, Same
  <2>3. \A i \in DOMAIN queue' :
          \/ i \in DOMAIN queue /\ queue'[i] = queue[i]
          \/ i = Len(queue) + 1 /\ queue'[i] = new
    BY <1>4
  <2>4. \A i \in DOMAIN queue' : \A e \in queue'[i], f \in work : ~Same(e, f)
    BY <2>2, <2>3 DEF Inv, WaitingOnce, Waiting
  <2>5. ASSUME NEW i \in DOMAIN queue', NEW e \in queue'[i],
               NEW k \in DOMAIN queue', NEW f \in queue'[k], Same(e, f)
        PROVE  i = k /\ e = f
    <3>1. CASE i \in DOMAIN queue /\ k \in DOMAIN queue
      BY <1>4, <2>5, <3>1 DEF Inv, WaitingOnce
    <3>2. CASE i = Len(queue) + 1 /\ k = Len(queue) + 1
      BY <1>3, <1>4, <2>5, <3>2
    <3>3. CASE i = Len(queue) + 1 /\ k \in DOMAIN queue
      BY <1>4, <2>1, <2>2, <2>5, <3>3
    <3>4. CASE i \in DOMAIN queue /\ k = Len(queue) + 1
      BY <1>4, <2>1, <2>2, <2>5, <3>4
    <3>5. QED
      BY <2>3, <3>1, <3>2, <3>3, <3>4
  <2>6. QED
    BY <1>1, <2>4, <2>5 DEF Inv, WaitingOnce, Same
<1>11. MemoryIsNew'
  <2>1. \A j \in Jobs, r \in Nat : Unheard(j, r) /\ (\A e \in new : ~(e.job = j /\ e.run = r)) => Unheard(j, r)'
    BY <1>5 DEF Unheard
  <2>2. \A j \in Jobs \ b, r \in Nat : Unheard(j, r) => Unheard(j, r)'
    BY <1>3, <2>1
  <2>3. \A j \in Jobs : current[j] # 0 => j \notin b
    BY DEF Inv, MemoryIsNew
  <2>4. \A j \in deferred : j \notin b
    BY DEF Inv, MemoryIsNew
  <2>5. \A j \in Jobs : current[j] # 0 =>
          /\ j \notin gone' \cup deferred'
          /\ Unheard(j, current[j])' /\ <<j, current[j]>> \notin judged
    BY <1>1, <2>2, <2>3 DEF Inv, TypeOK, MemoryIsNew, memory
  <2>6. \A j \in Jobs : tracked[j] # 0 /\ j \in gone' \cup deferred' =>
          Unheard(j, tracked[j])' /\ <<j, tracked[j]>> \notin judged \ doubtful
    BY <1>1, <2>2, <2>4 DEF Inv, TypeOK, MemoryIsNew, memory
  <2>7. QED
    BY <1>1, <2>5, <2>6 DEF Inv, MemoryIsNew, Unheard, memory, history
<1>12. WaitingIsNew'
  BY <1>1, <1>5, <1>7 DEF Inv, WaitingIsNew, history
<1>13. QED
  BY <1>6, <1>8, <1>9, <1>10, <1>11, <1>12 DEF Inv

\* The worker takes a batch: what waits stays the same.
LEMMA TakeKeeps == Inv /\ Take => Inv'
<1> SUFFICES ASSUME Inv, Take PROVE Inv'
  OBVIOUS
<1>1. /\ work = {} /\ queue # <<>> /\ work' = Head(queue) /\ queue' = Tail(queue)
      /\ UNCHANGED <<scheduler, locals, memory, saved, history>>
  BY DEF Take
<1>2. queue \in Seq(SUBSET Entries)
  BY DEF Inv, TypeOK
<1>3. /\ queue' \in Seq(SUBSET Entries) /\ Len(queue) \in Nat \ {0} /\ Len(queue') = Len(queue) - 1
      /\ DOMAIN queue = 1..Len(queue) /\ DOMAIN queue' = 1..Len(queue) - 1
      /\ work' = queue[1] /\ work' \in SUBSET Entries
      /\ \A i \in 1..Len(queue) - 1 : queue'[i] = queue[i + 1]
      /\ InQueue = InQueue' \cup work'
  BY <1>1, <1>2, Taken DEF InQueue
<1>4. Waiting' = Waiting
  BY <1>1, <1>3 DEF Waiting
<1>5. TypeOK'
  BY <1>1, <1>3, SizesAssumption DEF Inv, TypeOK, scheduler, locals, memory, history
<1>6. RunsKnown' /\ AllOver'
  BY <1>1, <1>4 DEF Inv, RunsKnown, AllOver, Over, scheduler, locals, memory, history
<1>7. MemoryIsNew' /\ WaitingIsNew'
  BY <1>1, <1>4 DEF Inv, MemoryIsNew, WaitingIsNew, Unheard, locals, memory, history
<1>8. WaitingOnce'
  <2>1. /\ 1 \in DOMAIN queue
        /\ \A i \in DOMAIN queue' : i + 1 \in DOMAIN queue /\ i + 1 # 1 /\ queue'[i] = queue[i + 1]
    BY <1>3
  <2>2. \A i, k \in DOMAIN queue : \A e \in queue[i], f \in queue[k] : Same(e, f) => i = k /\ e = f
    BY DEF Inv, WaitingOnce
  <2>3. \A e, f \in work' : Same(e, f) => e = f
    BY <1>3, <2>1, <2>2
  <2>4. \A i \in DOMAIN queue' : \A e \in queue'[i], f \in work' : ~Same(e, f)
    BY <1>3, <2>1, <2>2
  <2>5. ASSUME NEW i \in DOMAIN queue', NEW k \in DOMAIN queue',
               NEW e \in queue'[i], NEW f \in queue'[k], Same(e, f)
        PROVE  i = k /\ e = f
    <3>1. i + 1 = k + 1 /\ e = f
      BY <2>1, <2>2, <2>5
    <3>2. QED
      BY <1>3, <3>1
  <2>6. QED
    BY <2>3, <2>4, <2>5 DEF WaitingOnce, Same
<1>9. QED
  BY <1>5, <1>6, <1>7, <1>8 DEF Inv

\* The worker judges an end: it does not wait any more.
LEMMA TellKeeps == ASSUME Inv, NEW e \in work, NEW failed \in BOOLEAN, Tell(e, failed) PROVE Inv'
<1>1. /\ work' = work \ {e} /\ queue' = queue
      /\ judged' = judged \cup {EndOf(e)} /\ posts' \in {posts, posts \cup {EndOf(e)}}
      /\ UNCHANGED <<scheduler, locals, memory, saved, seen, lost, doubtful>>
      /\ InQueue' = InQueue
  BY DEF Tell, InQueue
<1>2. Waiting' \subseteq Waiting /\ e \in Waiting
  BY <1>1 DEF Waiting
<1>3. e \in Entries /\ EndOf(e) = <<e.job, e.run>> /\ EndOf(e) \in Ends
  BY DEF Inv, TypeOK, Entries, Ends, EndOf
<1>4. TypeOK'
  BY <1>1, <1>3 DEF Inv, TypeOK, scheduler, locals, memory
<1>5. RunsKnown' /\ AllOver'
  <2>1. \A s \in judged' : s \in judged \/ s = <<e.job, e.run>>
    BY <1>1, <1>3
  <2>2. RunsKnown'
    BY <1>1, <1>2, <2>1 DEF Inv, RunsKnown, scheduler, locals, memory
  <2>3. AllOver'
    BY <1>1, <1>2, <2>1 DEF Inv, AllOver, Over, scheduler, locals, memory
  <2>4. QED
    BY <2>2, <2>3
<1>6. \A f \in Waiting' : ~Same(e, f) /\ ~Same(f, e)
  <2>1. \A f \in work' : ~Same(e, f) /\ ~Same(f, e)
    BY <1>1 DEF Inv, WaitingOnce
  <2>2. \A f \in InQueue : ~Same(f, e)
    BY DEF Inv, WaitingOnce, InQueue
  <2>3. \A f : Same(f, e) <=> Same(e, f)
    BY DEF Same
  <2>4. QED
    BY <1>1, <2>1, <2>2, <2>3 DEF Waiting
<1>7. WaitingIsNew'
  <2>1. \A f \in Waiting' : EndOf(f) # EndOf(e)
    BY <1>6 DEF EndOf, Same
  <2>2. QED
    BY <1>1, <1>2, <2>1 DEF Inv, WaitingIsNew
<1>8. WaitingOnce'
  BY <1>1 DEF Inv, WaitingOnce
<1>9. MemoryIsNew'
  <2>1. \A j \in Jobs, r \in Nat : Unheard(j, r) => Unheard(j, r)' /\ <<j, r>> # EndOf(e)
    BY <1>2, <1>3 DEF Unheard
  <2>2. QED
    BY <1>1, <2>1 DEF Inv, TypeOK, MemoryIsNew, locals, memory
<1>10. QED
  BY <1>4, <1>5, <1>7, <1>8, <1>9 DEF Inv

\* A batch dies.
LEMMA BatchFailsKeeps == Inv /\ BatchFails => Inv'
<1> SUFFICES ASSUME Inv, BatchFails PROVE Inv'
  OBVIOUS
<1>1. /\ work' = {} /\ queue' = queue
      /\ lost' = lost \cup {EndOf(e) : e \in work}
      /\ UNCHANGED <<scheduler, locals, memory, saved, seen, judged, posts, doubtful>>
      /\ Waiting' \subseteq Waiting
  BY DEF BatchFails, Waiting, InQueue
<1>2. TypeOK'
  <2>1. {EndOf(e) : e \in work} \subseteq Ends
    BY DEF Inv, TypeOK, Entries, Ends, EndOf
  <2>2. QED
    BY <1>1, <2>1 DEF Inv, TypeOK, scheduler, locals, memory
<1>3. RunsKnown' /\ AllOver'
  BY <1>1 DEF Inv, RunsKnown, AllOver, Over, scheduler, locals, memory
<1>4. WaitingOnce' /\ MemoryIsNew' /\ WaitingIsNew'
  BY <1>1 DEF Inv, WaitingOnce, MemoryIsNew, WaitingIsNew, Unheard, locals, memory
<1>5. QED
  BY <1>2, <1>3, <1>4 DEF Inv

-----------------------------------------------------------------------------
(* A restart: nothing waits, and whatever the memory names is doubtful.    *)

LEMMA RestartKeeps == Inv /\ Restart => Inv'
<1> SUFFICES ASSUME Inv, Restart PROVE Inv'
  OBVIOUS
<1>1. /\ phase' = "idle" /\ current' = Nothing /\ fresh' = Nothing
      /\ gone' = {} /\ deferred' = {} /\ tracked' = saved /\ sources' = Nothing
      /\ queue' = <<>> /\ work' = {} /\ Waiting' = {}
      /\ lost' = lost \cup (seen \ (judged \cup EndsOf(saved))) /\ doubtful' = EndsOf(saved)
      /\ UNCHANGED <<scheduler, saved, seen, judged, posts>>
  BY DEF Restart, Waiting, InQueue
<1>2. /\ Nothing \in [Jobs -> Nat] /\ \A j \in Jobs : Nothing[j] = 0
      /\ saved \in [Jobs -> Nat] /\ run \in [Jobs -> Nat]
  BY DEF Nothing, Inv, TypeOK
<1>3. /\ \A j \in Jobs : saved[j] # 0 => <<j, saved[j]>> \in EndsOf(saved)
      /\ EndsOf(saved) \subseteq Ends
  BY <1>2 DEF EndsOf, Present, Ends
<1>4. TypeOK'
  BY <1>1, <1>2, <1>3, SizesAssumption DEF Inv, TypeOK, scheduler
<1>5. RunsKnown' /\ AllOver'
  BY <1>1, <1>2 DEF Inv, RunsKnown, AllOver, Over, scheduler
<1>6. WaitingOnce' /\ MemoryIsNew' /\ WaitingIsNew'
  BY <1>1, <1>2, <1>3 DEF WaitingOnce, MemoryIsNew, WaitingIsNew, Unheard
<1>7. QED
  BY <1>4, <1>5, <1>6 DEF Inv

LEMMA InvNext == Inv /\ [Next]_vars => Inv'
<1> SUFFICES ASSUME Inv, [Next]_vars PROVE Inv'
  OBVIOUS
<1>1. CASE Process
  <2>1. CASE \E b \in SUBSET gone : Offer(b)
    BY <2>1, DeferKeeps, OfferKeeps
  <2>2. QED
    BY <1>1, <2>1, DiffKeeps, RememberKeeps, SaveKeeps DEF Process
<1>2. CASE Worker
  BY <1>2, TakeKeeps, TellKeeps DEF Worker
<1>3. CASE UNCHANGED vars
  <2>1. Waiting' = Waiting
    BY <1>3 DEF vars, worker, Waiting, InQueue
  <2>2. TypeOK' /\ RunsKnown' /\ AllOver'
    BY <1>3, <2>1 DEF Inv, TypeOK, RunsKnown, AllOver, Over, vars, scheduler, locals, memory, worker, history
  <2>3. WaitingOnce' /\ MemoryIsNew' /\ WaitingIsNew'
    BY <1>3, <2>1 DEF Inv, WaitingOnce, MemoryIsNew, WaitingIsNew, Unheard, vars, locals, memory, worker, history
  <2>4. QED
    BY <2>2, <2>3 DEF Inv
<1>4. QED
  BY <1>1, <1>2, <1>3, SchedulerKeeps, BatchFailsKeeps, RestartKeeps DEF Next

-----------------------------------------------------------------------------
(* The theorems.                                                           *)

\* The inductive invariant holds in every reachable state, for any jobs and any
\* sizes of batch and queue (notify.py:406-442).
THEOREM OutcomeInvariance == Spec => []Inv
  BY InvInit, InvNext, PTL DEF Spec

\* Every variable keeps its type, and the outcome queue its bound (notify.py:256).
THEOREM OutcomeTypes == Spec => []TypeOK
<1>1. Inv => TypeOK
  BY DEF Inv
<1>2. QED
  BY <1>1, OutcomeInvariance, PTL

\* No job is reported as ended while that run of it goes on (notify.py:406-409).
THEOREM OnlyEnds == Spec => []OnlyEndsAreReported
<1>1. Inv => OnlyEndsAreReported
  <2>1. ASSUME Inv, NEW s \in Held PROVE run[s[1]] > s[2] \/ s[1] \notin running
    BY <2>1 DEF Held, Waiting, EndOf, Inv, AllOver, Over
  <2>2. ASSUME Inv, NEW s \in judged PROVE run[s[1]] > s[2] \/ s[1] \notin running
    BY <2>2 DEF Inv, AllOver, Over
  <2>3. QED
    BY <2>1, <2>2 DEF OnlyEndsAreReported
<1>2. QED
  BY <1>1, OutcomeInvariance, PTL

\* No end waits for the worker that was judged, or is remembered as running,
\* except what an interrupted cycle had not saved (notify.py:437-439).
THEOREM NoRepetition == Spec => []NoEndIsRepeated
<1>1. ASSUME Inv, NEW s \in Held \ doubtful PROVE s \notin judged
  BY <1>1 DEF Held, Waiting, Inv, WaitingIsNew
<1>2. ASSUME Inv, NEW s \in Held \ doubtful, phase # "offer" PROVE tracked[s[1]] # s[2]
  <2>1. PICK e \in Waiting : s = <<e.job, e.run>>
    BY DEF Held, Waiting, EndOf
  <2>2. e.job \in Jobs /\ e.run \in Nat \ {0}
    BY <1>2 DEF Waiting, InQueue, Inv, TypeOK, Entries
  <2>3. tracked[e.job] # e.run
    BY <1>2, <2>2 DEF Inv, MemoryIsNew, Unheard
  <2>4. QED
    BY <2>1, <2>3
<1>3. Inv => NoEndIsRepeated
  BY <1>1, <1>2 DEF NoEndIsRepeated
<1>4. QED
  BY <1>3, OutcomeInvariance, PTL

\* A log tail is only ever read from the source of the run it is sent for
\* (notify.py:440-442).
THEOREM OwnTail == Spec => []TailOfTheRun
<1>1. Inv => TailOfTheRun
  BY DEF Inv, RunsKnown, TailOfTheRun, Waiting
<1>2. QED
  BY <1>1, OutcomeInvariance, PTL

-----------------------------------------------------------------------------
(* Nothing is dropped.  A second invariant follows an end through a cycle:  *)
(* what was remembered is in the snapshot, or came back, or is still in the *)
(* lists of the cycle, or has reached the worker.                           *)

Heard == Held \cup judged \cup lost

Followed ==
  /\ \A j \in Jobs : current[j] # 0 =>
       phase = "offer" /\ tracked[j] <= current[j] /\ <<j, current[j]>> \in seen
  /\ \A j \in Jobs : phase = "offer" /\ tracked[j] # 0 /\ current[j] = 0 =>
       j \in gone \cup deferred \/ <<j, tracked[j]>> \in Heard

\* An end s that was seen is accounted for.
Accounted(s) ==
  \/ s[2] \in {tracked[s[1]], current[s[1]]}
  \/ \E t \in seen : t[1] = s[1] /\ t[2] > s[2]
  \/ s \in Heard

\* The worker never forgets an end.
LEMMA WorkerHears ==
  Inv /\ (Worker \/ BatchFails) =>
    Heard \subseteq Heard' /\ UNCHANGED <<locals, memory, seen>>
<1> SUFFICES ASSUME Inv, Worker \/ BatchFails
             PROVE  Heard \subseteq Heard' /\ UNCHANGED <<locals, memory, seen>>
  OBVIOUS
<1>1. CASE Take
  <2>1. InQueue = InQueue' \cup work'
    BY <1>1, Taken DEF Take, InQueue, Inv, TypeOK
  <2>2. QED
    BY <1>1, <2>1 DEF Take, Heard, Held, EndOf, history
<1>2. ASSUME NEW e \in work, NEW failed \in BOOLEAN, Tell(e, failed)
      PROVE  Heard \subseteq Heard' /\ UNCHANGED <<locals, memory, seen>>
  BY <1>2 DEF Tell, Heard, Held, EndOf, InQueue
<1>3. CASE BatchFails
  BY <1>3 DEF BatchFails, Heard, Held, EndOf, InQueue
<1>4. QED
  BY <1>1, <1>2, <1>3 DEF Worker

\* What is put into the queue is heard of.
LEMMA OfferHears ==
  ASSUME Inv, NEW b \in SUBSET gone, Offer(b)
  PROVE  /\ Heard \subseteq Heard'
         /\ \A j \in b : j \in deferred' \/ <<j, tracked[j]>> \in Heard'
<1>1. UNCHANGED <<work, judged, lost>>
  BY DEF Offer, history
<1>2. CASE ~(Len(queue) < QueueSize)
  BY <1>1, <1>2 DEF Offer, Heard, Held, EndOf, InQueue
<1>3. CASE Len(queue) < QueueSize
  <2> DEFINE new == Batch(b)
  <2>1. queue' = Append(queue, new) /\ queue \in Seq(SUBSET Entries)
    BY <1>3 DEF Offer, Inv, TypeOK
  <2>2. new \in SUBSET Entries
    BY Batched DEF Inv, TypeOK, AllOver
  <2>3. InQueue' = InQueue \cup new
    <3> HIDE DEF new
    <3>1. QED
      BY <2>1, <2>2, Appended DEF InQueue
  <2>4. ASSUME NEW j \in b PROVE <<j, tracked[j]>> \in Heard'
    <3> DEFINE e == [job |-> j, run |-> tracked[j], source |-> sources[j]]
    <3>1. e \in new /\ EndOf(e) = <<j, tracked[j]>>
      BY DEF Batch, EndOf
    <3>2. e \in InQueue'
      BY <2>3, <3>1
    <3> HIDE DEF e
    <3>3. QED
      BY <3>1, <3>2 DEF Heard, Held
  <2>5. Heard \subseteq Heard'
    BY <1>1, <2>3 DEF Heard, Held, EndOf
  <2>6. QED
    BY <2>4, <2>5
<1>4. QED
  BY <1>2, <1>3

LEMMA FollowedNext ==
  ASSUME Inv, Followed, NoEndIsDropped, [Next]_vars PROVE Followed' /\ NoEndIsDropped'
<1> USE DEF NoEndIsDropped, Accounted, Heard
<1>1. /\ seen \subseteq Ends /\ tracked \in [Jobs -> Nat] /\ current \in [Jobs -> Nat]
      /\ saved \in [Jobs -> Nat] /\ run \in [Jobs -> Nat]
  BY DEF Inv, TypeOK
<1>2. CASE Scheduler \/ UNCHANGED vars
  <2>1. UNCHANGED <<locals, memory, worker, history>>
    BY <1>2 DEF Scheduler, Start, Leave, vars
  <2>2. Heard' = Heard
    BY <2>1 DEF Heard, Held, EndOf, InQueue, worker, history
  <2>3. QED
    BY <2>1, <2>2 DEF Followed, Accounted, locals, memory, history
<1>3. ASSUME NEW known \in SUBSET Jobs, Diff(known) PROVE Followed' /\ NoEndIsDropped'
  <2>1. /\ phase = "idle" /\ current' = [j \in Jobs |-> IF j \in running THEN run[j] ELSE 0]
        /\ phase' = "offer" /\ gone' = Present(tracked) \ running
        /\ seen' = seen \cup EndsOf(current')
        /\ UNCHANGED <<tracked, worker, judged, lost>>
    BY <1>3 DEF Diff, memory
  <2>2. Heard' = Heard
    BY <2>1 DEF Heard, Held, EndOf, InQueue, worker
  <2>3. \A j \in Jobs : current[j] = 0
    BY <2>1 DEF Followed
  <2>4. \A j \in Jobs : current'[j] # 0 =>
          tracked[j] <= current'[j] /\ <<j, current'[j]>> \in seen'
    BY <1>1, <2>1 DEF Inv, RunsKnown, EndsOf, Present
  <2>5. \A j \in Jobs : tracked[j] # 0 /\ current'[j] = 0 => j \in gone'
    <3>1. \A j \in running : tracked[j] <= run[j]
      BY DEF Inv, TypeOK, RunsKnown
    <3>2. QED
      BY <1>1, <2>1, <3>1 DEF Present
  <2>6. Followed'
    BY <2>1, <2>4, <2>5 DEF Followed
  <2>7. \A s \in seen : Accounted(s)'
    BY <1>1, <2>1, <2>2, <2>3 DEF Accounted, Ends
  <2>8. \A s \in EndsOf(current') : Accounted(s)'
    BY DEF EndsOf, Present, Accounted
  <2>9. QED
    BY <2>1, <2>6, <2>7, <2>8 DEF Accounted, NoEndIsDropped, Heard
<1>4. ASSUME NEW b \in SUBSET gone, Offer(b) PROVE Followed' /\ NoEndIsDropped'
  <2>1. /\ UNCHANGED <<phase, current, tracked, seen>> /\ gone' = gone \ b
        /\ deferred \subseteq deferred'
    BY <1>4 DEF Offer, memory, history
  <2>2. Heard \subseteq Heard' /\ \A j \in b : j \in deferred' \/ <<j, tracked[j]>> \in Heard'
    BY <1>4, OfferHears
  <2>3. QED
    BY <2>1, <2>2 DEF Followed, Accounted, NoEndIsDropped, Heard
<1>5. CASE Remember
  <2>1. /\ phase = "offer" /\ gone = {}
        /\ tracked' = [j \in Jobs |-> IF j \in deferred THEN tracked[j] ELSE current[j]]
        /\ current' = [j \in Jobs |-> 0] /\ phase' = "save"
        /\ UNCHANGED <<worker, seen, judged, lost>>
    BY <1>5 DEF Remember, Kept, Nothing, history
  <2>2. Heard' = Heard
    BY <2>1 DEF Heard, Held, EndOf, InQueue, worker
  <2>3. Followed'
    BY <2>1 DEF Followed
  <2>4. ASSUME NEW s \in seen PROVE Accounted(s)'
    <3>1. s[1] \in Jobs /\ s[2] \in Nat \ {0} /\ s = <<s[1], s[2]>>
      BY <1>1 DEF Ends
    <3>2. CASE s[2] = current[s[1]]
      <4>1. s[1] \notin deferred
        BY <3>1, <3>2 DEF Inv, MemoryIsNew
      <4>2. QED
        BY <2>1, <3>1, <3>2, <4>1 DEF Accounted
    <3>3. CASE s[2] = tracked[s[1]] /\ current[s[1]] = 0 /\ s[1] \notin deferred
      BY <2>1, <2>2, <3>1, <3>3 DEF Followed, Accounted
    <3>4. CASE s[2] = tracked[s[1]] /\ s[1] \in deferred
      BY <2>1, <3>1, <3>4 DEF Accounted
    <3>5. CASE s[2] = tracked[s[1]] /\ current[s[1]] \notin {0, s[2]}
      <4>1. <<s[1], current[s[1]]>> \in seen /\ current[s[1]] > s[2]
        BY <1>1, <3>1, <3>5 DEF Followed
      <4>2. QED
        BY <2>1, <4>1 DEF Accounted
    <3>6. CASE s[2] \notin {tracked[s[1]], current[s[1]]}
      BY <2>1, <2>2, <3>6 DEF Accounted, NoEndIsDropped, Heard
    <3>7. QED
      BY <3>2, <3>3, <3>4, <3>5, <3>6
  <2>5. QED
    BY <2>1, <2>3, <2>4 DEF Accounted, NoEndIsDropped, Heard
<1>6. CASE SkipDiff \/ Save \/ SaveFails
  <2>1. /\ phase # "offer" /\ phase' # "offer"
        /\ UNCHANGED <<current, tracked, worker, seen, judged, lost>>
    BY <1>6 DEF SkipDiff, Save, SaveFails, memory, history
  <2>2. Heard' = Heard
    BY <2>1 DEF Heard, Held, EndOf, InQueue, worker
  <2>3. QED
    BY <2>1, <2>2 DEF Followed, Accounted, NoEndIsDropped, Heard
<1>7. CASE Worker \/ BatchFails
  <2>1. Heard \subseteq Heard' /\ UNCHANGED <<locals, memory, seen>>
    BY <1>7, WorkerHears
  <2>2. QED
    BY <2>1 DEF Followed, Accounted, NoEndIsDropped, Heard, locals, memory
<1>8. CASE Restart
  <2>1. /\ current' = Nothing /\ tracked' = saved /\ phase' = "idle"
        /\ seen' = seen /\ judged' = judged
        /\ lost' = lost \cup (seen \ (judged \cup EndsOf(saved)))
    BY <1>8 DEF Restart
  <2>2. Followed'
    BY <2>1 DEF Followed, Nothing
  <2>3. \A s \in EndsOf(saved) : s[2] = saved[s[1]]
    BY DEF EndsOf
  <2>4. \A s \in seen : s \in judged' \cup lost' \/ s[2] = tracked'[s[1]]
    BY <2>1, <2>3
  <2>5. QED
    BY <2>1, <2>2, <2>4 DEF NoEndIsDropped
<1>9. QED
  BY <1>2, <1>3, <1>4, <1>5, <1>6, <1>7, <1>8 DEF Next, Process

\* However full the queue is, an end the notifier has seen is still remembered,
\* waits, or was judged, unless the job came back or a process or batch died
\* with it (notify.py:419-439).
THEOREM NothingIsDropped == Spec => []NoEndIsDropped
<1>1. Init => Followed /\ NoEndIsDropped
  BY DEF Init, Followed, NoEndIsDropped, Nothing
<1>2. Inv /\ Followed /\ NoEndIsDropped /\ [Next]_vars => Followed' /\ NoEndIsDropped'
  BY FollowedNext
<1>3. QED
  BY <1>1, <1>2, InvInit, InvNext, PTL DEF Spec

=============================================================================
