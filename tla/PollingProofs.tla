----------------------------- MODULE PollingProofs -----------------------------
(***************************************************************************)
(* Theorems about Polling for any nodes, pool and times: the bookkeeping   *)
(* of the polls in flight, that good data are not lost, and that rows that *)
(* look fresh are.                                                         *)
(***************************************************************************)
EXTENDS Polling, FiniteSetTheorems, TLAPS

Answers == [kind : {"none", "error", "good"}, stale : BOOLEAN, age : Nat]

DataTypes == file \in [Nodes -> Nat] /\ result \in [Nodes -> Answers]

\* The mark of a poll and the thread that runs it are one; the pool is bounded.
PollsAreMarked ==
  /\ threads \in [Nodes -> Nat]
  /\ inflight \subseteq Nodes /\ IsFiniteSet(inflight)
  /\ OnePollPerNode

\* A node is held for absent only when it missed the latest roster, and only once.
AbsencesAreRecent ==
  /\ absent \in [Nodes -> 0..1]
  /\ \A n \in Nodes : n \in roster => absent[n] = 0

-----------------------------------------------------------------------------
(* The polls in flight.                                                    *)

LEMMA InitMarked == Init => PollsAreMarked
  <1> SUFFICES ASSUME Init PROVE PollsAreMarked OBVIOUS
  <1>1. IsFiniteSet(inflight) /\ Cardinality(inflight) = 0 BY FS_EmptySet DEF Init
  <1>2. QED
    BY <1>1, PendingAssumption, SMT DEF Init, PollsAreMarked, OnePollPerNode

LEMMA SubmitMarks ==
  ASSUME PollsAreMarked, NEW n \in Nodes, Submit(n)
  PROVE  PollsAreMarked'
  <1>1. n \notin inflight /\ ~(Cardinality(inflight) >= MaxPending)
    BY DEF Submit, Busy
  <1>2. IsFiniteSet(inflight) BY DEF PollsAreMarked
  <1>3. /\ IsFiniteSet(inflight \cup {n})
        /\ Cardinality(inflight \cup {n}) = Cardinality(inflight) + 1
        /\ Cardinality(inflight) \in Nat
    BY <1>1, <1>2, FS_AddElement, FS_CardinalityType
  <1>4. /\ inflight' = inflight \cup {n}
        /\ threads' = [threads EXCEPT ![n] = @ + 1]
    BY DEF Submit
  <1>5. Cardinality(inflight') <= MaxPending
    BY <1>1, <1>3, <1>4, PendingAssumption, SMT
  <1>6. threads' \in [Nodes -> Nat] /\ inflight' \subseteq Nodes
    BY <1>4, SMT DEF PollsAreMarked
  <1>7. \A m \in Nodes : threads'[m] = IF m \in inflight' THEN 1 ELSE 0
    BY <1>1, <1>4, SMT DEF PollsAreMarked, OnePollPerNode
  <1>8. QED BY <1>3, <1>4, <1>5, <1>6, <1>7 DEF PollsAreMarked, OnePollPerNode

LEMMA AnswerMarks ==
  ASSUME PollsAreMarked, NEW n \in Nodes, NEW ok \in BOOLEAN, NEW cold \in BOOLEAN,
         Answer(n, ok, cold)
  PROVE  PollsAreMarked'
  <1>1. /\ threads[n] > 0
        /\ inflight' = inflight \ {n}
        /\ threads' = [threads EXCEPT ![n] = @ - 1]
    BY DEF Answer
  <1>2. n \in inflight BY <1>1, SMT DEF PollsAreMarked, OnePollPerNode
  <1>3. IsFiniteSet(inflight) BY DEF PollsAreMarked
  <1>4. /\ IsFiniteSet(inflight \ {n})
        /\ Cardinality(inflight \ {n}) = Cardinality(inflight) - 1
        /\ Cardinality(inflight) \in Nat
    BY <1>2, <1>3, FS_RemoveElement, FS_CardinalityType
  <1>5. Cardinality(inflight') <= MaxPending
    BY <1>1, <1>4, PendingAssumption, SMT DEF PollsAreMarked, OnePollPerNode
  <1>6. threads' \in [Nodes -> Nat] /\ inflight' \subseteq Nodes
    BY <1>1, SMT DEF PollsAreMarked
  <1>7. \A m \in Nodes : threads'[m] = IF m \in inflight' THEN 1 ELSE 0
    BY <1>1, <1>2, SMT DEF PollsAreMarked, OnePollPerNode
  <1>8. QED BY <1>1, <1>4, <1>5, <1>6, <1>7 DEF PollsAreMarked, OnePollPerNode

LEMMA NextMarks == PollsAreMarked /\ [Next]_vars => PollsAreMarked'
  <1> SUFFICES ASSUME PollsAreMarked, [Next]_vars PROVE PollsAreMarked' OBVIOUS
  <1>1. ASSUME UNCHANGED <<inflight, threads>> PROVE PollsAreMarked'
    BY <1>1 DEF PollsAreMarked, OnePollPerNode
  <1>2. ASSUME NEW n \in Nodes, Submit(n) PROVE PollsAreMarked'
    BY <1>2, SubmitMarks
  <1>3. ASSUME NEW n \in Nodes, Reply(n) PROVE PollsAreMarked'
    BY <1>3, AnswerMarks DEF Reply
  <1>4. CASE Tick \/ Begin \/ Publish \/ UNCHANGED vars
    BY <1>4, <1>1 DEF Tick, Begin, BeginCycle, Prune, Publish, vars, nodeState
  <1>5. ASSUME NEW n \in Nodes,
               \/ \E cold \in BOOLEAN : ReadPayload(n, cold)
               \/ Skip(n)
               \/ Refuse(n)
               \/ \E payload \in Contents : WriteFile(n, payload)
        PROVE  PollsAreMarked'
    BY <1>5, <1>1 DEF ReadPayload, Skip, Refuse, WriteFile, nodeState
  <1>6. AgentNodes \subseteq Nodes BY KindsAssumption
  <1>7. QED BY <1>2, <1>3, <1>4, <1>5, <1>6 DEF Next, Visit

\* A node never has two polls at once and the pool never exceeds its bound, whatever
\* nodes are forgotten and come back while their polls are out (collector.py:1256).
THEOREM PollsAreBounded == Spec => []OnePollPerNode
  <1>1. PollsAreMarked => OnePollPerNode BY DEF PollsAreMarked
  <1>2. QED BY <1>1, InitMarked, NextMarks, PTL DEF Spec

-----------------------------------------------------------------------------
(* What is known of the nodes.                                             *)

LEMMA LowerIsNat ==
  ASSUME NEW a \in Nat, NEW b \in Nat PROVE Lower(a, b) \in Nat /\ Higher(a, b) \in Nat
  BY SMT DEF Lower, Higher

LEMMA AnswerChanges ==
  ASSUME NEW a \in Answers, NEW n \in Nat
  PROVE  /\ [a EXCEPT !.age = n] \in Answers /\ [a EXCEPT !.age = n].kind = a.kind
         /\ [a EXCEPT !.stale = TRUE] \in Answers /\ [a EXCEPT !.stale = TRUE].kind = a.kind
         /\ Good(n) \in Answers /\ Good(n).kind = "good"
  BY Zenon DEF Answers, Good

LEMMA NoAnswers == Nothing \in Answers /\ Failed \in Answers /\ Nothing.kind = "none"
  <1>1. 0 \in Nat BY SMT
  <1>2. QED BY <1>1, Zenon DEF Nothing, Failed, Answers

LEMMA AgesAreNat ==
  /\ FreshAge + 1 \in Nat /\ Old \in Nat
  /\ \A a \in Nat, limit \in Nat : Aged(a, limit) \in Nat
  BY TimesAssumption, SMT DEF Old, Aged, Lower, Higher

LEMMA InitKnown == Init => DataTypes /\ AbsencesAreRecent
  <1> SUFFICES ASSUME Init PROVE DataTypes /\ AbsencesAreRecent OBVIOUS
  <1>1. DataTypes BY AgesAreNat, NoAnswers, Zenon DEF Init, DataTypes
  <1>2. AbsencesAreRecent BY SMT DEF Init, AbsencesAreRecent
  <1>3. QED BY <1>1, <1>2

LEMMA TickKeepsTypes == ASSUME DataTypes, Tick PROVE DataTypes'
  <1>1. \A n \in Nodes : file'[n] \in Nat /\ result'[n] \in Answers
    <2> SUFFICES ASSUME NEW n \in Nodes PROVE file'[n] \in Nat /\ result'[n] \in Answers
      OBVIOUS
    <2>1. file[n] \in Nat /\ result[n] \in Answers BY DEF DataTypes
    <2>2. result[n].age \in Nat BY <2>1 DEF Answers
    <2>3. Aged(result[n].age, Old) \in Nat /\ Aged(file[n], FreshAge + 1) \in Nat
      BY <2>1, <2>2, AgesAreNat
    <2>4. [result[n] EXCEPT !.age = Aged(@, Old)] \in Answers
      BY <2>1, <2>3, AnswerChanges
    <2>5. /\ file'[n] = Aged(file[n], FreshAge + 1)
          /\ \/ result'[n] = [result[n] EXCEPT !.age = Aged(@, Old)]
             \/ result'[n] = result[n]
      BY Zenon DEF Tick
    <2>6. QED BY <2>1, <2>3, <2>4, <2>5
  <1>2. file' = [n \in Nodes |-> file'[n]] /\ result' = [n \in Nodes |-> result'[n]]
    BY Zenon DEF Tick
  <1>3. QED BY <1>1, <1>2, Zenon DEF DataTypes

\* One node's result changes.
LEMMA ResultKeepsTypes ==
  ASSUME DataTypes, NEW n \in Nodes, NEW a \in Answers,
         result' = [result EXCEPT ![n] = a], file' = file
  PROVE  DataTypes'
  BY Zenon DEF DataTypes

LEMMA AnswerIsAnswer ==
  ASSUME DataTypes, NEW n \in Nodes, NEW ok \in BOOLEAN
  PROVE  /\ (IF ok THEN Good(0) ELSE Failure(n)) \in Answers
         /\ result[n].kind = "good" => (IF ok THEN Good(0) ELSE Failure(n)).kind = "good"
  <1>1. result[n] \in Answers /\ 0 \in Nat BY SMT DEF DataTypes
  <1>2. Good(0) \in Answers /\ Good(0).kind = "good" BY <1>1, AnswerChanges
  <1>3. /\ [result[n] EXCEPT !.stale = TRUE] \in Answers
        /\ [result[n] EXCEPT !.stale = TRUE].kind = result[n].kind
    BY <1>1, AnswerChanges
  <1>4. QED BY <1>2, <1>3, NoAnswers, Zenon DEF Failure

LEMMA PruneKeeps ==
  ASSUME DataTypes, AbsencesAreRecent, NEW r \in SUBSET Nodes,
         Prune(r), roster' = r, file' = file
  PROVE  /\ DataTypes' /\ AbsencesAreRecent'
         /\ \A n \in Nodes : result'[n] = result[n]
                             \/ (result'[n] = Nothing /\ n \notin roster \cup roster')
  <1> DEFINE retired == {n \in Nodes : Misses(r)[n] >= 2}
  <1>1. \A n \in Nodes :
          /\ Misses(r)[n] \in Nat
          /\ n \in r => Misses(r)[n] = 0
          /\ n \in retired => n \notin r /\ absent[n] = 1
          /\ n \notin retired => Misses(r)[n] \in 0..1
    BY SMT DEF Misses, AbsencesAreRecent
  <1>2. \A n \in retired : n \notin roster \cup roster'
    BY <1>1, SMT DEF AbsencesAreRecent
  <1>3. /\ result' = [n \in Nodes |-> IF n \in retired THEN Nothing ELSE result[n]]
        /\ absent' = [n \in Nodes |-> IF n \in retired THEN 0 ELSE Misses(r)[n]]
    BY DEF Prune
  <1> HIDE DEF retired
  <1>4. DataTypes' BY <1>3, NoAnswers, Zenon DEF DataTypes
  <1>5. AbsencesAreRecent' BY <1>1, <1>3, SMT DEF AbsencesAreRecent
  <1>6. QED BY <1>2, <1>3, <1>4, <1>5, Zenon

\* What a step does to what is known, for every step.
LEMMA NextKnown ==
  ASSUME DataTypes, AbsencesAreRecent, [Next]_vars
  PROVE  /\ DataTypes' /\ AbsencesAreRecent'
         /\ \A n \in Nodes : result[n].kind = "good" /\ result'[n].kind # "good" =>
              result'[n].kind = "none" /\ n \notin roster \cup roster'
  <1> DEFINE Kept == \A n \in Nodes : result[n].kind = "good" /\ result'[n].kind # "good" =>
                       result'[n].kind = "none" /\ n \notin roster \cup roster'
  <1> DEFINE Goal == DataTypes' /\ AbsencesAreRecent' /\ Kept
  <1>1. ASSUME UNCHANGED <<file, result, absent, roster>> PROVE Goal
    BY <1>1 DEF DataTypes, AbsencesAreRecent
  <1>2. ASSUME NEW n \in Nodes, NEW a \in Answers, result[n].kind = "good" => a.kind = "good",
               result' = [result EXCEPT ![n] = a], UNCHANGED <<file, absent, roster>>
        PROVE  Goal
    <2>1. DataTypes' BY <1>2, ResultKeepsTypes
    <2>2. AbsencesAreRecent' BY <1>2 DEF AbsencesAreRecent
    <2>3. \A m \in Nodes : result'[m] = IF m = n THEN a ELSE result[m]
      BY <1>2, Zenon DEF DataTypes
    <2>4. Kept BY <1>2, <2>3
    <2>5. QED BY <2>1, <2>2, <2>4
  <1>3. ASSUME Tick PROVE Goal
    <2>1. DataTypes' BY <1>3, TickKeepsTypes
    <2>2. AbsencesAreRecent' BY <1>3 DEF Tick, walk, AbsencesAreRecent
    <2>3. ASSUME NEW n \in Nodes PROVE result'[n].kind = result[n].kind
      <3>1. result[n] \in Answers BY DEF DataTypes
      <3>2. Aged(result[n].age, Old) \in Nat BY <3>1, AgesAreNat DEF Answers
      <3>3. \/ result'[n] = [result[n] EXCEPT !.age = Aged(@, Old)]
            \/ result'[n] = result[n]
        BY <1>3, Zenon DEF Tick
      <3>4. [result[n] EXCEPT !.age = Aged(@, Old)].kind = result[n].kind
        BY <3>1, <3>2, AnswerChanges
      <3>5. QED BY <3>3, <3>4, Zenon
    <2>4. Kept BY <2>3, Zenon
    <2>5. QED BY <2>1, <2>2, <2>4
  <1>4. ASSUME NEW n \in Nodes, NEW payload \in Contents, WriteFile(n, payload) PROVE Goal
    <2>1. file' \in [Nodes -> Nat]
      BY <1>4, AgesAreNat, SMT DEF WriteFile, DataTypes
    <2>2. QED BY <1>4, <2>1 DEF WriteFile, nodeState, walk, DataTypes, AbsencesAreRecent
  <1>5. ASSUME NEW r \in Rosters, BeginCycle(r) PROVE Goal
    <2>1. r \in SUBSET Nodes /\ roster' = r /\ file' = file
      BY <1>5 DEF BeginCycle, Rosters
    <2>2. CASE r = {}
      <3>1. UNCHANGED <<result, absent>> BY <1>5, <2>2 DEF BeginCycle, nodeState
      <3>2. DataTypes' BY <2>1, <3>1 DEF DataTypes
      <3>3. AbsencesAreRecent' BY <2>1, <2>2, <3>1 DEF AbsencesAreRecent
      <3>4. QED BY <3>1, <3>2, <3>3
    <2>3. CASE r # {}
      <3>1. Prune(r) BY <1>5, <2>3 DEF BeginCycle
      <3>2. QED BY <2>1, <3>1, PruneKeeps, NoAnswers
    <2>4. QED BY <2>2, <2>3
  <1>6. ASSUME NEW n \in Nodes, NEW cold \in BOOLEAN, ReadPayload(n, cold) PROVE Goal
    <2>1. Good(file[n]) \in Answers /\ Good(file[n]).kind = "good"
      BY AnswerChanges DEF DataTypes
    <2>2. QED BY <1>2, <1>6, <2>1 DEF ReadPayload
  <1>7. ASSUME NEW n \in Nodes, NEW ok \in BOOLEAN, NEW cold \in BOOLEAN, Answer(n, ok, cold)
        PROVE  Goal
    BY <1>2, <1>7, AnswerIsAnswer DEF Answer, walk
  <1>8. ASSUME NEW n \in Nodes, Submit(n) \/ Skip(n) \/ Refuse(n) PROVE Goal
    BY <1>1, <1>8 DEF Submit, Skip, Refuse, nodeState
  <1>9. ASSUME Tick \/ Publish \/ UNCHANGED vars PROVE Goal
    BY <1>1, <1>3, <1>9 DEF Publish, vars, nodeState, walk
  <1>10. AgentNodes \subseteq Nodes BY KindsAssumption
  <1> HIDE DEF Goal
  <1>11. Goal
    <2>1. CASE \E n \in Nodes : Reply(n) BY <1>7, <2>1 DEF Reply
    <2>2. CASE Visit BY <1>6, <1>8, <2>2 DEF Visit
    <2>3. CASE Begin BY <1>5, <2>3 DEF Begin
    <2>4. CASE \E n \in AgentNodes, payload \in Contents : WriteFile(n, payload)
      BY <1>4, <1>10, <2>4
    <2>5. CASE \E n \in Nodes : Refuse(n) BY <1>8, <2>5
    <2>6. QED BY <1>9, <2>1, <2>2, <2>3, <2>4, <2>5 DEF Next
  <1>12. QED BY <1>11 DEF Goal

\* Good data give way only to nothing, and only for a node that missed the latest
\* roster and the one before, whatever polls, agents and rosters do (collector.py:1270,
\* 1319).
THEOREM GoodDataStay == Spec => GoodDataAreKept
  <1>1. DataTypes /\ AbsencesAreRecent /\ [Next]_vars => DataTypes' /\ AbsencesAreRecent'
    BY NextKnown
  <1>2. DataTypes /\ AbsencesAreRecent /\ [Next]_vars =>
          [\A n \in Nodes : result[n].kind = "good" /\ result'[n].kind # "good" =>
             /\ result'[n].kind = "none"
             /\ n \notin roster \cup roster']_vars
    BY NextKnown
  <1>3. QED BY <1>1, <1>2, InitKnown, PTL DEF Spec, GoodDataAreKept

-----------------------------------------------------------------------------
(* How old the rows are.                                                   *)

\* The subsets of 1..n are as many.
LEMMA PowerIsNat == ASSUME NEW n \in Nat PROVE 2 ^ n \in Nat
  <1> DEFINE S == 1..n
  <1>1. IsFiniteSet(S) /\ Cardinality(S) = n BY FS_Interval
  <1> HIDE DEF S
  <1>2. IsFiniteSet(SUBSET S) /\ Cardinality(SUBSET S) = 2 ^ n BY <1>1, FS_SUBSET
  <1>3. QED BY <1>2, FS_CardinalityType

PollRecords == [age : Nat, interval : {i \in Int : i <= Down}, failures : Nat]

\* No node rests longer than one that is down, however often its polls failed.
RestsAreBounded == poll \in [Nodes -> PollRecords] /\ roster \subseteq Nodes

LEMMA BackOffIsBounded == ASSUME NEW f \in Nat PROVE BackOff(f) \in Int /\ BackOff(f) <= Down
  <1>1. Hot \in Nat /\ Down \in Nat BY TimesAssumption
  <1>2. 2 ^ f \in Nat BY PowerIsNat
  <1>3. ASSUME NEW h \in Nat, NEW x \in Nat PROVE Lower(Down, h * x) \in Int /\ Lower(Down, h * x) <= Down
    <2>1. h * x \in Int OBVIOUS
    <2>2. QED BY <1>1, <2>1 DEF Lower
  <1>4. QED BY <1>1, <1>2, <1>3 DEF BackOff

LEMMA UnpolledRests == Unpolled \in PollRecords
  BY TimesAssumption DEF Unpolled, PollRecords

LEMMA PolledRests ==
  ASSUME RestsAreBounded, NEW n \in Nodes, NEW ok \in BOOLEAN, NEW cold \in BOOLEAN
  PROVE  Polled(n, ok, cold) \in PollRecords
  <1> DEFINE f == poll[n].failures
             Record(i, k) == [age |-> 0, interval |-> i, failures |-> k]
  <1>1. f \in Nat BY DEF RestsAreBounded, PollRecords
  <1>2. Hot <= Down /\ Cold <= Down /\ {Hot, Cold, Down} \subseteq Nat BY TimesAssumption
  <1>3. f + 1 \in Nat /\ BackOff(f + 1) \in Int /\ BackOff(f + 1) <= Down BY <1>1, BackOffIsBounded
  <1> HIDE DEF f
  <1>4. ASSUME NEW i \in Int, i <= Down, NEW k \in Nat PROVE Record(i, k) \in PollRecords
    BY <1>4 DEF PollRecords
  <1> HIDE DEF Record
  <1>5. CASE n \in Drained
    <2>1. Polled(n, ok, cold) = Record(Down, f) BY <1>5 DEF Polled, Record, f
    <2>2. QED BY <1>1, <1>2, <1>4, <2>1
  <1>6. CASE n \notin Drained /\ ~ok
    <2>1. \/ Polled(n, ok, cold) = Record(BackOff(f + 1), f)
          \/ Polled(n, ok, cold) = Record(BackOff(f + 1), f + 1)
      BY <1>6 DEF Polled, Record, f
    <2>2. QED BY <1>1, <1>3, <1>4, <2>1
  <1>7. CASE n \notin Drained /\ ok
    <2>1. Polled(n, ok, cold) = Record(Cold, 0) \/ Polled(n, ok, cold) = Record(Hot, 0)
      BY <1>7 DEF Polled, Record
    <2>2. Record(Cold, 0) \in PollRecords /\ Record(Hot, 0) \in PollRecords BY <1>2, <1>4
    <2>3. QED BY <2>1, <2>2
  <1>8. QED BY <1>5, <1>6, <1>7

LEMMA InitRests == Init => RestsAreBounded
  BY UnpolledRests DEF Init, RestsAreBounded

LEMMA NextRests == RestsAreBounded /\ [Next]_vars => RestsAreBounded'
  <1> SUFFICES ASSUME RestsAreBounded, [Next]_vars PROVE RestsAreBounded' OBVIOUS
  <1>1. ASSUME UNCHANGED <<poll, roster>> PROVE RestsAreBounded' BY <1>1 DEF RestsAreBounded
  <1>2. ASSUME NEW n \in Nodes, NEW ok \in BOOLEAN, NEW cold \in BOOLEAN, roster' = roster,
               poll' = [poll EXCEPT ![n] = Polled(n, ok, cold)]
        PROVE  RestsAreBounded'
    BY <1>2, PolledRests DEF RestsAreBounded
  <1>3. CASE Tick
    <2>1. \A n \in Nodes : [poll[n] EXCEPT !.age = Aged(@, Down)] \in PollRecords
      <3> SUFFICES ASSUME NEW n \in Nodes PROVE [poll[n] EXCEPT !.age = Aged(@, Down)] \in PollRecords
        OBVIOUS
      <3>1. poll[n] \in PollRecords BY DEF RestsAreBounded
      <3>2. PICK a \in Nat : a = Aged(poll[n].age, Down)
        BY <3>1, AgesAreNat, TimesAssumption DEF PollRecords
      <3>3. [poll[n] EXCEPT !.age = a] \in PollRecords BY <3>1, Zenon DEF PollRecords
      <3>4. QED BY <3>2, <3>3
    <2>2. /\ poll' = [n \in Nodes |-> [poll[n] EXCEPT !.age = Aged(@, Down)]]
          /\ roster' = roster
      BY <1>3 DEF Tick, walk
    <2>3. QED BY <2>1, <2>2 DEF RestsAreBounded
  <1>4. ASSUME NEW r \in Rosters, BeginCycle(r) PROVE RestsAreBounded'
    <2>1. r \subseteq Nodes /\ roster' = r BY <1>4 DEF BeginCycle, Rosters
    <2>2. CASE r = {} BY <1>4, <2>1, <2>2 DEF BeginCycle, nodeState, RestsAreBounded
    <2>3. CASE r # {}
      <3>1. \E retired : poll' = [n \in Nodes |-> IF n \in retired THEN Unpolled ELSE poll[n]]
        BY <1>4, <2>3 DEF BeginCycle, Prune
      <3>2. QED BY <2>1, <3>1, UnpolledRests DEF RestsAreBounded
    <2>4. QED BY <2>2, <2>3
  <1>5. ASSUME NEW n \in Nodes, NEW cold \in BOOLEAN, ReadPayload(n, cold) PROVE RestsAreBounded'
    BY <1>2, <1>5 DEF ReadPayload
  <1>6. ASSUME NEW n \in Nodes, Reply(n) PROVE RestsAreBounded'
    BY <1>2, <1>6 DEF Reply, Answer, walk
  <1>7. ASSUME NEW n \in Nodes,
               \/ Submit(n) \/ Skip(n) \/ Refuse(n)
               \/ \E payload \in Contents : WriteFile(n, payload)
        PROVE  RestsAreBounded'
    BY <1>1, <1>7 DEF Submit, Skip, Refuse, WriteFile, nodeState, walk
  <1>8. CASE Publish \/ UNCHANGED vars BY <1>1, <1>8 DEF Publish, vars, nodeState, walk
  <1>9. AgentNodes \subseteq Nodes BY KindsAssumption
  <1>10. QED
    BY <1>3, <1>4, <1>5, <1>6, <1>7, <1>8, <1>9 DEF Next, Visit, Begin

\* What is not marked stale is no older than its limit, and no limit is longer than that of
\* a node that is down.
LEMMA RowIsRecent ==
  ASSUME DataTypes, RestsAreBounded, NEW n \in roster, Row(n).measured, ~Row(n).stale
  PROVE  Row(n).age <= Higher(FreshAge, PollTime + Down)
  <1>1. n \in Nodes /\ poll[n] \in PollRecords /\ result[n] \in Answers
    BY DEF RestsAreBounded, DataTypes
  <1>2. result[n].age \in Nat /\ poll[n].interval \in Int /\ poll[n].interval <= Down
    BY <1>1 DEF PollRecords, Answers
  <1>3. ~Expired(n) /\ result[n].kind = "good" BY DEF Row
  <1>4. ~(result[n].age > Higher(FreshAge, PollTime + poll[n].interval)) BY <1>3 DEF Expired
  <1>5. FreshAge \in Nat /\ PollTime \in Nat /\ Down \in Nat BY TimesAssumption
  <1>6. result[n].age <= Higher(FreshAge, PollTime + Down) BY <1>2, <1>4, <1>5 DEF Higher
  <1>7. QED BY <1>6 DEF Row

\* A row that shows measurements and is not marked stale shows recent ones, however long
\* polls and agents have been silent and however often the node failed (collector.py:1463).
THEOREM FreshRowsAreRecent == Spec => RowsAreRecent
  <1>1. DataTypes /\ AbsencesAreRecent /\ [Next]_vars => DataTypes' /\ AbsencesAreRecent'
    BY NextKnown
  <1>2. DataTypes /\ RestsAreBounded /\ [Next]_vars =>
          [Publish => \A n \in roster :
             Row(n).measured /\ ~Row(n).stale => Row(n).age <= Higher(FreshAge, PollTime + Down)]_vars
    BY RowIsRecent
  <1>3. QED BY <1>1, <1>2, InitKnown, InitRests, NextRests, PTL DEF Spec, RowsAreRecent
================================================================================
