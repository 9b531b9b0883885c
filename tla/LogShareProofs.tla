---------------------------- MODULE LogShareProofs ----------------------------
(***************************************************************************)
(* Theorems about LogShare, for any sets of jobs, records and threads and  *)
(* any bounds.                                                             *)
(***************************************************************************)
EXTENDS LogShare, TLAPS

-----------------------------------------------------------------------------
(* The inductive invariant, part by part *)

Mirroring == {"stream", "skip", "stat", "read", "status", "withdraw", "keep",
              "republish", "write", "install", "after"}

\* A busy thread has a job, and one past its checks has a seed of that job.
WorkerShape ==
  \A w \in Workers :
    /\ at[w] # "idle" => job[w] \in Jobs
    /\ at[w] \in Mirroring => seed[w] \in Seeds
    /\ at[w] \in {"idle", "taken"} => seed[w] = NoSeed
    /\ seed[w] # NoSeed => token[w] \in Tokens /\ job[w] \in Jobs

\* What the collect thread has left to do fits where it is.
CyclePhase ==
  /\ pc \in {"boot", "idle"} => resets = {} /\ gone = {} /\ dropping = {}
  /\ pc = "cycle" => dropping = {}
  /\ pc \in {"forget", "drop", "unlink"} => resets = {}
  /\ gone \cap live = {}

\* A job that is being dropped has no paths left, and no thread holds its token.
Forgotten ==
  \A d \in dropping :
    /\ d[1] \in gone
    /\ paths[d[1]] = NoSeed
    /\ \A e \in dropping : e[1] = d[1]
    /\ pc \in {"drop", "unlink"} =>
         \A w \in Workers : job[w] = d[1] /\ seed[w] # NoSeed => token[w] # tokens[d[1]]

\* Paths are only remembered for a listed job, or one about to be forgotten.
PathsKept == \A j \in Jobs : paths[j] # NoSeed => j \in live \cup gone

\* A thread whose token is the job's token read the seed the job still has,
\* unless the job is being forgotten.
TokenMeansSeed ==
  \A w \in Workers :
    seed[w] # NoSeed /\ tokens[job[w]] = token[w] =>
      Trusted(job[w], seed[w]) \/ job[w] \in gone

\* What a thread holds was read from its own seed, the data no earlier than the
\* fingerprint.
ReadInOrder ==
  \A w \in Workers :
    /\ at[w] \in {"idle", "taken", "refuse", "stream", "skip", "stat", "read"}
         => data[w] = Nothing
    /\ at[w] = "read" =>
         /\ fp[w].seed = seed[w]
         /\ fp[w].ver <= source[seed[w]][stream[w]].ver
    /\ at[w] \in {"status", "write", "install"} /\ data[w] # Nothing /\ fp[w] # Nothing =>
         /\ fp[w].seed = seed[w]
         /\ data[w].seed = seed[w]
         /\ fp[w].ver <= data[w].ver
    /\ at[w] \in {"write", "install"} => data[w] # Nothing /\ fp[w] # Nothing

\* Only the thread that holds the lock is between the temporary file and the
\* rename, and nothing it checked has changed since.
WriteLocked ==
  \A w \in Workers : at[w] = "install" =>
    /\ lock = w
    /\ Current(w)
    /\ Trusted(job[w], seed[w])
    /\ temp[job[w]][stream[w]] = data[w]

IInv == /\ TypeOK /\ WorkerShape /\ CyclePhase /\ Forgotten /\ PathsKept /\ TokenMeansSeed
        /\ ReadInOrder /\ WriteLocked /\ SpoolBacked /\ FingerprintHonest


-----------------------------------------------------------------------------
(* The types of data and of updates *)

\* The minted token is not one that a thread or the token map still references.
LEMMA TokenFresh == ASSUME NEW j \in Jobs, CanMint(j)
                    PROVE  NewToken(j) \in Tokens /\ NewToken(j) \notin InUse(j)
  BY DEF CanMint, NewToken

\* Building and taking apart what a thread read.
LEMMA DataTypes ==
  /\ Nothing \in MaybeTails
  /\ \A s \in Seeds, n \in Nat : [seed |-> s, ver |-> n] \in MaybeTails
  /\ \A t \in MaybeTails : t # Nothing => t.seed \in Seeds /\ t.ver \in Nat
  BY DEF MaybeTails, Tails, Nothing

\* Also the absent tail carries a number.
LEMMA VersionType == \A t \in MaybeTails : t.ver \in Nat
  BY DEF MaybeTails, Tails, Nothing

\* Replacing the entry of one stream of one job keeps a map of tails one.
LEMMA UpdateType ==
  ASSUME NEW f \in [Jobs -> [Streams -> MaybeTails]],
         NEW j \in Jobs, NEW x \in Streams, NEW t \in MaybeTails
  PROVE  [f EXCEPT ![j][x] = t] \in [Jobs -> [Streams -> MaybeTails]]
  OBVIOUS

\* _unpublish_log_stream leaves maps and spool well typed.
LEMMA UnpublishType ==
  ASSUME MemoryType, DiskType, NEW j \in Jobs, NEW x \in Streams, Unpublish(j, x)
  PROVE  /\ published' \in [Jobs -> SUBSET Streams]
         /\ fingerprint' \in [Jobs -> [Streams -> MaybeTails]]
         /\ spool' \in [Jobs -> [Streams -> MaybeTails]]
<1>1. published' \in [Jobs -> SUBSET Streams]
  BY DEF Unpublish, MemoryType
<1>2. fingerprint' \in [Jobs -> [Streams -> MaybeTails]]
  BY UpdateType, DataTypes DEF Unpublish, MemoryType
<1>3. spool' \in [Jobs -> [Streams -> MaybeTails]]
  BY UpdateType, DataTypes DEF Unpublish, DiskType
<1>4. QED
  BY <1>1, <1>2, <1>3

LogFile == [ver : Nat, health : ReadFailures \cup {"ok"}]

\* Replacing one log file keeps the map of log files one.
LEMMA SourceType ==
  ASSUME NEW f \in [Seeds -> [Streams -> LogFile]],
         NEW s \in Seeds, NEW x \in Streams, NEW new \in LogFile
  PROVE  [f EXCEPT ![s][x] = new] \in [Seeds -> [Streams -> LogFile]]
  OBVIOUS

\* The streams a record names a path for are streams.
LEMMA ConfiguredType == \A s \in Seeds : Configured[s] \subseteq Streams
  BY SeedAssumption

\* What a thread sees of its stream has the type of what it keeps.
LEMMA ObservedType ==
  ASSUME DiskType, NEW w \in Workers, seed[w] \in Seeds, stream[w] \in Streams
  PROVE  Observed(w) \in MaybeTails /\ Health(w) \in ReadFailures \cup {"ok"}
<1>1. source[seed[w]][stream[w]].ver \in Nat /\ Health(w) \in ReadFailures \cup {"ok"}
  BY DEF DiskType, Health
<1>2. QED
  BY <1>1, DataTypes DEF Observed

-----------------------------------------------------------------------------
(* Type correctness *)

TypeInv == TypeOK /\ WorkerShape

\* A collector starts with empty maps, idle threads and typed variables.
LEMMA TypeInit == Init => TypeInv
<1> SUFFICES ASSUME Init PROVE TypeInv
  OBVIOUS
<1> USE DataTypes DEF Init, EachJob, EachStream, EachThread
<1>1. MemoryType
  BY DEF MemoryType, Statuses, NoStatus, Streams
<1>2. CollectType
  BY DEF CollectType
<1>3. ThreadType
  BY DEF ThreadType, Places, Statuses, NoStatus, Streams
<1>4. DiskType
  BY DEF DiskType
<1>5. WorkerShape
  BY DEF WorkerShape, Mirroring
<1>6. QED
  BY <1>1, <1>2, <1>3, <1>4, <1>5 DEF TypeInv, TypeOK

\* Every step keeps the types, and a busy thread keeps its job and seed.
LEMMA TypeNext == TypeInv /\ [Next]_vars => TypeInv'
<1> SUFFICES ASSUME TypeInv, [Next]_vars PROVE TypeInv'
  OBVIOUS
<1> USE DataTypes, ConfiguredType, SeedAssumption, ThreadAssumption, BoundAssumption
<1> USE DEF TypeInv, TypeOK, trust, mirror, memory, collectThread, ticket, reading,
            threads, files, others, vars
<1>1. ASSUME NEW now \in SUBSET Jobs, NEW meta \in [now -> Seeds \cup {NoSeed}],
             ShareLocked(meta)
      PROVE TypeInv'
  <2> DEFINE invalid == {j \in now : meta[j] = NoSeed}
             trusted == now \ invalid
             reset == invalid \cup Moved(meta)
             minted == reset \cup {j \in trusted : tokens[j] = NoToken}
  <2>1. /\ now \subseteq Jobs /\ DOMAIN meta = now
        /\ trusted \subseteq Jobs /\ reset \subseteq Jobs /\ minted \subseteq Jobs
        /\ \A j \in trusted : meta[j] \in Seeds
    BY DEF Moved
  <2>2. \A j \in minted : NewToken(j) \in Tokens
    BY <1>1, <2>1, TokenFresh DEF ShareLocked
  <2>3. tokens' \in [Jobs -> Tokens \cup {NoToken}]
    BY <1>1, <2>1, <2>2 DEF ShareLocked, MemoryType
  <2>4. paths' \in [Jobs -> Seeds \cup {NoSeed}]
    BY <1>1, <2>1 DEF ShareLocked, MemoryType
  <2>5. Due(trusted) \subseteq Jobs
    BY <2>1 DEF Due
  <2>6. /\ live' \subseteq Jobs /\ owned' \subseteq Jobs /\ inflight' \subseteq Jobs
        /\ nextCheck' \in [Jobs -> {"none", "later", "due"}]
        /\ todo' \subseteq Jobs
    BY <1>1, <2>1, <2>5 DEF ShareLocked, MemoryType
  <2>7. status' \in [Jobs -> [Streams -> Statuses]]
    <3> DEFINE old(j) == [x \in Streams |-> SeedStatus(meta[j], x,
                           IF j \in Moved(meta) THEN NoStatus ELSE status[j][x])]
    <3>1. \A j \in trusted : old(j) \in [Streams -> Statuses]
      BY <2>1 DEF MemoryType, SeedStatus, Statuses, NoStatus
    <3>2. EachStream("metadata-unavailable") \in [Streams -> Statuses]
      BY DEF EachStream, Statuses
    <3>3. status' = [j \in Jobs |->
                      IF j \in invalid THEN EachStream("metadata-unavailable")
                      ELSE IF j \in trusted THEN old(j) ELSE status[j]]
      BY <1>1, <2>1 DEF ShareLocked
    <3>4. QED
      BY <3>1, <3>2, <3>3 DEF MemoryType
  <2>8. resets' \subseteq Jobs \X Streams \X Tokens
    BY <1>1, <2>1, <2>2 DEF ShareLocked
  <2>9. MemoryType'
    BY <1>1, <2>3, <2>4, <2>6, <2>7 DEF ShareLocked, MemoryType
  <2>10. CollectType'
    BY <1>1, <2>6, <2>8 DEF ShareLocked, CollectType, Known
  <2>11. ThreadType' /\ DiskType' /\ WorkerShape'
    BY <1>1 DEF ShareLocked, ThreadType, DiskType, WorkerShape
  <2>12. QED
    BY <2>9, <2>10, <2>11
<1>2. CASE ResetStream
  <2> USE <1>2 DEF ResetStream
  <2>1. PICK r \in resets :
            IF tokens[r[1]] = r[3] THEN Unpublish(r[1], r[2])
            ELSE UNCHANGED <<published, fingerprint, spool>>
    OBVIOUS
  <2>2. r[1] \in Jobs /\ r[2] \in Streams
    BY DEF CollectType
  <2>3. MemoryType'
    BY <2>1, <2>2, UnpublishType DEF MemoryType
  <2>4. CollectType'
    BY DEF CollectType
  <2>5. DiskType'
    BY <2>1, <2>2, UnpublishType DEF DiskType
  <2>6. ThreadType' /\ WorkerShape'
    BY DEF ThreadType, WorkerShape
  <2>7. QED
    BY <2>3, <2>4, <2>5, <2>6
<1>3. CASE ForgetPaths
  <2> USE <1>3 DEF ForgetPaths
  <2>1. MemoryType'
    BY DEF MemoryType, CollectType, ThreadType, WorkerShape, Mirroring,
       Statuses, NoStatus, ReadFailures, Streams
  <2>2. CollectType'
    BY DEF CollectType
  <2>3. ThreadType' /\ DiskType' /\ WorkerShape'
    BY DEF ThreadType, DiskType, WorkerShape
  <2>4. QED
    BY <2>1, <2>2, <2>3
<1>4. CASE DropMaps
  <2> USE <1>4 DEF DropMaps, EachStream
  <2>1. MemoryType'
    BY DEF MemoryType, CollectType, ThreadType, WorkerShape, Mirroring,
       Statuses, NoStatus, ReadFailures, Streams
  <2>2. CollectType'
    BY DEF CollectType
  <2>3. ThreadType' /\ DiskType' /\ WorkerShape'
    BY DEF ThreadType, DiskType, WorkerShape
  <2>4. QED
    BY <2>1, <2>2, <2>3
<1>5. CASE DropFingerprint
  <2> USE <1>5 DEF DropFingerprint
  <2>1. MemoryType'
    BY DEF MemoryType, CollectType, ThreadType, WorkerShape, Mirroring,
       Statuses, NoStatus, ReadFailures, Streams
  <2>2. CollectType'
    BY DEF CollectType
  <2>3. ThreadType' /\ DiskType' /\ WorkerShape'
    BY DEF ThreadType, DiskType, WorkerShape
  <2>4. QED
    BY <2>1, <2>2, <2>3
<1>6. CASE DropFile
  <2> USE <1>6 DEF DropFile
  <2>1. PICK d \in dropping : spool' = [spool EXCEPT ![d[1]][d[2]] = Nothing]
    OBVIOUS
  <2>2. d[1] \in Jobs /\ d[2] \in Streams
    BY DEF CollectType
  <2>3. CollectType'
    BY DEF CollectType
  <2>4. DiskType'
    BY <2>1, <2>2, UpdateType DEF DiskType
  <2>5. MemoryType' /\ ThreadType' /\ WorkerShape'
    BY DEF MemoryType, ThreadType, WorkerShape
  <2>6. QED
    BY <2>3, <2>4, <2>5
<1>7. CASE Submit
  <2> USE <1>7 DEF Submit
  <2>1. CollectType'
    BY DEF CollectType
  <2>2. MemoryType' /\ ThreadType' /\ DiskType' /\ WorkerShape'
    BY DEF MemoryType, ThreadType, DiskType, WorkerShape
  <2>3. QED
    BY <2>1, <2>2
<1>8. CASE Report
  <2> USE <1>8 DEF Report
  <2>1. CollectType'
    BY DEF CollectType
  <2>2. MemoryType' /\ ThreadType' /\ DiskType' /\ WorkerShape'
    BY DEF MemoryType, ThreadType, DiskType, WorkerShape
  <2>3. QED
    BY <2>1, <2>2
<1>9. CASE Start
  <2> USE <1>9 DEF Start
  <2>1. CollectType'
    BY DEF CollectType
  <2>2. MemoryType' /\ ThreadType' /\ DiskType' /\ WorkerShape'
    BY DEF MemoryType, ThreadType, DiskType, WorkerShape
  <2>3. QED
    BY <2>1, <2>2
<1>10. ASSUME NEW w \in Workers, Take(w) PROVE TypeInv'
  <2> USE <1>10 DEF Take, Goto
  <2>1. Head(queue) \in Jobs /\ Tail(queue) \in Seq(Jobs)
    BY DEF CollectType
  <2>2. CollectType'
    BY <2>1 DEF CollectType
  <2>3. ThreadType'
    BY <2>1 DEF ThreadType, Places
  <2>4. WorkerShape'
    BY <2>1 DEF WorkerShape, Mirroring, ThreadType
  <2>5. MemoryType' /\ DiskType'
    BY DEF MemoryType, DiskType
  <2>6. QED
    BY <2>2, <2>3, <2>4, <2>5
<1>11. ASSUME NEW w \in Workers, Begin(w) PROVE TypeInv'
  <2> USE <1>11 DEF Begin, Goto
  <2>1. job[w] \in Jobs /\ seed[w] = NoSeed
    BY DEF WorkerShape
  <2>2. tokens' \in [Jobs -> Tokens \cup {NoToken}] /\ tokens'[job[w]] \in Tokens
    <3>1. CASE tokens[job[w]] # NoToken /\ tokens' = tokens
      BY <2>1, <3>1 DEF MemoryType
    <3>2. CASE CanMint(job[w]) /\ tokens' = [tokens EXCEPT ![job[w]] = NewToken(job[w])]
      <4>1. NewToken(job[w]) \in Tokens
        BY <2>1, <3>2, TokenFresh
      <4>2. QED
        BY <2>1, <3>2, <4>1 DEF MemoryType
    <3>3. QED
      BY <3>1, <3>2
  <2>3. paths[job[w]] \in Seeds \cup {NoSeed}
    BY <2>1 DEF MemoryType
  <2>4. MemoryType'
    BY <2>2 DEF MemoryType
  <2>5. ThreadType'
    BY <2>1, <2>2, <2>3 DEF ThreadType, Places, Statuses, NoStatus,
       ReadFailures
  <2>6. WorkerShape'
    BY <2>1, <2>2 DEF WorkerShape, Mirroring, ThreadType, MemoryType
  <2>7. CollectType' /\ DiskType'
    BY DEF CollectType, DiskType
  <2>8. QED
    BY <2>4, <2>5, <2>6, <2>7
<1>12. ASSUME NEW w \in Workers, Refuse(w) PROVE TypeInv'
  <2> USE <1>12 DEF Refuse, SetStatus, Current, Goto
  <2>1. MemoryType'
    BY DEF MemoryType, CollectType, ThreadType, WorkerShape, Mirroring,
       Statuses, NoStatus, ReadFailures, Streams
  <2>2. ThreadType'
    BY DEF ThreadType, MemoryType, WorkerShape, Mirroring, Places, Statuses,
       NoStatus, ReadFailures, Streams
  <2>3. WorkerShape'
    BY DEF WorkerShape, Mirroring, ThreadType, MemoryType, CollectType,
       NoStatus
  <2>4. CollectType' /\ DiskType'
    BY DEF CollectType, DiskType
  <2>5. QED
    BY <2>1, <2>2, <2>3, <2>4
<1>13. ASSUME NEW w \in Workers, ReadPrior(w) PROVE TypeInv'
  <2> USE <1>13 DEF ReadPrior, Goto
  <2>1. ThreadType'
    BY DEF ThreadType, MemoryType, WorkerShape, Mirroring, Places, Statuses,
       NoStatus, ReadFailures, Streams
  <2>2. WorkerShape'
    BY DEF WorkerShape, Mirroring, ThreadType, MemoryType, CollectType,
       NoStatus
  <2>3. MemoryType' /\ CollectType' /\ DiskType'
    BY DEF MemoryType, CollectType, DiskType
  <2>4. QED
    BY <2>1, <2>2, <2>3
<1>14. ASSUME NEW w \in Workers, SkipStream(w) PROVE TypeInv'
  <2> USE <1>14 DEF SkipStream, SetStatus, Current, NextStream, Goto
  <2>1. MemoryType'
    BY DEF MemoryType, CollectType, ThreadType, WorkerShape, Mirroring,
       Statuses, NoStatus, ReadFailures, Streams
  <2>2. ThreadType'
    BY DEF ThreadType, MemoryType, WorkerShape, Mirroring, Places, Statuses,
       NoStatus, ReadFailures, Streams
  <2>3. WorkerShape'
    BY DEF WorkerShape, Mirroring, ThreadType, MemoryType, CollectType,
       NoStatus
  <2>4. CollectType' /\ DiskType'
    BY DEF CollectType, DiskType
  <2>5. QED
    BY <2>1, <2>2, <2>3, <2>4
<1>15. ASSUME NEW w \in Workers, ReadKnown(w) PROVE TypeInv'
  <2> USE <1>15 DEF ReadKnown, KnownTail, Goto
  <2>1. job[w] \in Jobs /\ stream[w] \in Streams
    BY DEF WorkerShape, ThreadType
  <2>2. KnownTail(job[w], stream[w]) \in MaybeTails
    BY <2>1 DEF KnownTail, MemoryType
  <2>3. ThreadType'
    BY <2>2 DEF ThreadType, Places
  <2>4. WorkerShape'
    BY DEF WorkerShape, Mirroring, ThreadType, MemoryType, CollectType,
       NoStatus
  <2>5. MemoryType' /\ CollectType' /\ DiskType'
    BY DEF MemoryType, CollectType, DiskType
  <2>6. QED
    BY <2>3, <2>4, <2>5
<1>16. ASSUME NEW w \in Workers, Stat(w) PROVE TypeInv'
  <2> USE <1>16 DEF Stat, Reject, Goto
  <2>1. Observed(w) \in MaybeTails /\ Health(w) \in ReadFailures \cup {"ok"}
    BY ObservedType DEF WorkerShape, Mirroring, ThreadType
  <2>2. ThreadType'
    <3>1. CASE Reject(w, Health(w))
      BY <2>1, <3>1 DEF ThreadType, Places, Statuses, NoStatus, ReadFailures
    <3>2. CASE ~Reject(w, Health(w))
      <4>1. at'[w] \in {"status", "read"} /\ \E where \in {"status", "read"} :
              at' = [at EXCEPT ![w] = where]
        BY <3>2 DEF ThreadType
      <4>2. QED
        BY <2>1, <3>2, <4>1 DEF ThreadType, Places, Statuses, NoStatus
    <3>3. QED
      BY <3>1, <3>2
  <2>3. WorkerShape'
    BY DEF WorkerShape, Mirroring, ThreadType, MemoryType, CollectType,
       NoStatus
  <2>4. MemoryType' /\ CollectType' /\ DiskType'
    BY DEF MemoryType, CollectType, DiskType
  <2>5. QED
    BY <2>2, <2>3, <2>4
<1>17. ASSUME NEW w \in Workers, ReadAsOwner(w) PROVE TypeInv'
  <2> USE <1>17 DEF ReadAsOwner, Reject, Goto
  <2>1. Observed(w) \in MaybeTails /\ Health(w) \in ReadFailures \cup {"ok"}
    BY ObservedType DEF WorkerShape, Mirroring, ThreadType
  <2>2. ThreadType'
    BY <2>1 DEF ThreadType, Places, Statuses, NoStatus, ReadFailures
  <2>3. WorkerShape'
    BY DEF WorkerShape, Mirroring, ThreadType, MemoryType, CollectType,
       NoStatus
  <2>4. MemoryType' /\ CollectType' /\ DiskType'
    BY DEF MemoryType, CollectType, DiskType
  <2>5. QED
    BY <2>2, <2>3, <2>4
<1>18. ASSUME NEW w \in Workers, ReadTail(w) PROVE TypeInv'
  <2> USE <1>18 DEF ReadTail, Goto
  <2>1. Observed(w) \in MaybeTails /\ Health(w) \in ReadFailures \cup {"ok"}
    BY ObservedType DEF WorkerShape, Mirroring, ThreadType
  <2>2. ThreadType'
    BY <2>1 DEF ThreadType, Places, Statuses, NoStatus, ReadFailures
  <2>3. WorkerShape'
    BY DEF WorkerShape, Mirroring, ThreadType, MemoryType, CollectType,
       NoStatus
  <2>4. MemoryType' /\ CollectType' /\ DiskType'
    BY DEF MemoryType, CollectType, DiskType
  <2>5. QED
    BY <2>2, <2>3, <2>4
<1>19. ASSUME NEW w \in Workers, ReadFails(w) PROVE TypeInv'
  <2> USE <1>19 DEF ReadFails, Reject, Goto
  <2>1. ThreadType'
    BY DEF ThreadType, Places, Statuses, NoStatus, ReadFailures
  <2>2. DiskType'
    BY UpdateType DEF DiskType, ThreadType, WorkerShape, Mirroring
  <2>3. WorkerShape'
    BY DEF WorkerShape, Mirroring, ThreadType, MemoryType, CollectType,
       NoStatus
  <2>4. MemoryType' /\ CollectType'
    BY DEF MemoryType, CollectType
  <2>5. QED
    BY <2>1, <2>2, <2>3, <2>4
<1>20. ASSUME NEW w \in Workers, PublishStatus(w) PROVE TypeInv'
  <2> USE <1>20 DEF PublishStatus, SetStatus, Current, Goto
  <2>1. MemoryType'
    BY DEF MemoryType, CollectType, ThreadType, WorkerShape, Mirroring,
       Statuses, NoStatus, ReadFailures, Streams
  <2>2. ThreadType'
    BY DEF ThreadType, MemoryType, WorkerShape, Mirroring, Places, Statuses,
       NoStatus, ReadFailures, Streams
  <2>3. WorkerShape'
    BY DEF WorkerShape, Mirroring, ThreadType, MemoryType, CollectType,
       NoStatus
  <2>4. CollectType' /\ DiskType'
    BY DEF CollectType, DiskType
  <2>5. QED
    BY <2>1, <2>2, <2>3, <2>4
<1>21. ASSUME NEW w \in Workers, Withdraw(w) PROVE TypeInv'
  <2> USE <1>21 DEF Withdraw, NextStream, Goto
  <2>1. job[w] \in Jobs /\ stream[w] \in Streams
    BY DEF WorkerShape, ThreadType
  <2>2. MemoryType'
    BY <2>1, UnpublishType DEF MemoryType
  <2>3. ThreadType'
    BY DEF ThreadType, Places, Streams, Statuses, NoStatus
  <2>4. DiskType'
    BY <2>1, UnpublishType DEF DiskType
  <2>5. WorkerShape'
    BY DEF WorkerShape, Mirroring, ThreadType, MemoryType, CollectType,
       NoStatus
  <2>6. CollectType'
    BY DEF CollectType
  <2>7. QED
    BY <2>2, <2>3, <2>4, <2>5, <2>6
<1>22. ASSUME NEW w \in Workers, KeepMirror(w) PROVE TypeInv'
  <2> USE <1>22 DEF KeepMirror, NextStream, Goto
  <2>1. ThreadType'
    BY DEF ThreadType, Places, Streams, Statuses, NoStatus
  <2>2. WorkerShape'
    BY DEF WorkerShape, Mirroring, ThreadType, MemoryType, CollectType,
       NoStatus
  <2>3. MemoryType' /\ CollectType' /\ DiskType'
    BY DEF MemoryType, CollectType, DiskType
  <2>4. QED
    BY <2>1, <2>2, <2>3
<1>23. ASSUME NEW w \in Workers, Republish(w) PROVE TypeInv'
  <2> USE <1>23 DEF Republish, Current, NextStream, Goto
  <2>1. job[w] \in Jobs /\ stream[w] \in Streams
    BY DEF WorkerShape, ThreadType
  <2>2. MemoryType'
    BY <2>1 DEF MemoryType
  <2>3. ThreadType'
    BY DEF ThreadType, Places, Streams, Statuses, NoStatus
  <2>4. WorkerShape'
    BY DEF WorkerShape, Mirroring, ThreadType, MemoryType, CollectType,
       NoStatus
  <2>5. CollectType' /\ DiskType'
    BY DEF CollectType, DiskType
  <2>6. QED
    BY <2>2, <2>3, <2>4, <2>5
<1>24. ASSUME NEW w \in Workers, WriteTemp(w) PROVE TypeInv'
  <2> USE <1>24 DEF WriteTemp, Current, NextStream, Goto
  <2>1. job[w] \in Jobs /\ stream[w] \in Streams
    BY DEF WorkerShape, ThreadType
  <2>2. ThreadType'
    BY DEF ThreadType, Places, Streams, Statuses, NoStatus
  <2>3. DiskType'
    <3>1. data[w] \in MaybeTails
      BY DEF ThreadType
    <3>2. temp' \in [Jobs -> [Streams -> MaybeTails]]
      <4>1. CASE temp' = temp
        BY <4>1 DEF DiskType
      <4>2. CASE temp' = [temp EXCEPT ![job[w]][stream[w]] = data[w]]
        BY <2>1, <3>1, <4>2, UpdateType DEF DiskType
      <4>3. QED
        BY <4>1, <4>2
    <3>3. remnants' \subseteq Jobs \X Streams
      BY DEF DiskType
    <3>4. QED
      BY <3>2, <3>3 DEF DiskType
  <2>4. WorkerShape'
    BY DEF WorkerShape, Mirroring, ThreadType, MemoryType, CollectType,
       NoStatus
  <2>5. MemoryType' /\ CollectType'
    BY DEF MemoryType, CollectType
  <2>6. QED
    BY <2>2, <2>3, <2>4, <2>5
<1>25. ASSUME NEW w \in Workers, Install(w) PROVE TypeInv'
  <2> USE <1>25 DEF Install, Copied, NextStream, Goto
  <2>1. job[w] \in Jobs /\ stream[w] \in Streams
    BY DEF WorkerShape, ThreadType
  <2>2. MemoryType'
    BY <2>1, UpdateType DEF MemoryType, ThreadType
  <2>3. ThreadType'
    BY DEF ThreadType, Places, Streams, Statuses, NoStatus
  <2>4. DiskType'
    <3>1. temp[job[w]][stream[w]] \in MaybeTails
      BY <2>1 DEF DiskType
    <3>2. QED
      BY <2>1, <3>1, UpdateType DEF DiskType
  <2>5. WorkerShape'
    BY DEF WorkerShape, Mirroring, ThreadType, MemoryType, CollectType,
       NoStatus
  <2>6. CollectType'
    BY DEF CollectType
  <2>7. QED
    BY <2>2, <2>3, <2>4, <2>5, <2>6
<1>26. ASSUME NEW w \in Workers, WriteFails(w) PROVE TypeInv'
  <2> USE <1>26 DEF WriteFails, OnError, Goto
  <2>1. job[w] \in Jobs /\ stream[w] \in Streams
    BY DEF WorkerShape, ThreadType
  <2>2. ThreadType'
    BY DEF ThreadType, Places
  <2>3. DiskType'
    BY <2>1, UpdateType DEF DiskType
  <2>4. WorkerShape'
    BY DEF WorkerShape, Mirroring, ThreadType, MemoryType, CollectType,
       NoStatus
  <2>5. MemoryType' /\ CollectType'
    BY DEF MemoryType, CollectType
  <2>6. QED
    BY <2>2, <2>3, <2>4, <2>5
<1>27. ASSUME NEW w \in Workers, BackOff(w) PROVE TypeInv'
  <2> USE <1>27 DEF BackOff, Current, Goto
  <2>1. MemoryType'
    BY DEF MemoryType, CollectType, ThreadType, WorkerShape, Mirroring,
       Statuses, NoStatus, ReadFailures, Streams
  <2>2. ThreadType'
    BY DEF ThreadType, MemoryType, WorkerShape, Mirroring, Places, Statuses,
       NoStatus, ReadFailures, Streams
  <2>3. WorkerShape'
    BY DEF WorkerShape, Mirroring, ThreadType, MemoryType, CollectType,
       NoStatus
  <2>4. CollectType' /\ DiskType'
    BY DEF CollectType, DiskType
  <2>5. QED
    BY <2>1, <2>2, <2>3, <2>4
<1>28. ASSUME NEW w \in Workers, Finish(w) PROVE TypeInv'
  <2> USE <1>28 DEF Finish, Goto
  <2>1. MemoryType'
    BY DEF MemoryType, CollectType, ThreadType, WorkerShape, Mirroring,
       Statuses, NoStatus, ReadFailures, Streams
  <2>2. ThreadType'
    BY DEF ThreadType, MemoryType, WorkerShape, Mirroring, Places, Statuses,
       NoStatus, ReadFailures, Streams
  <2>3. WorkerShape'
    BY DEF WorkerShape, Mirroring, ThreadType, MemoryType, CollectType,
       NoStatus
  <2>4. CollectType' /\ DiskType'
    BY DEF CollectType, DiskType
  <2>5. QED
    BY <2>1, <2>2, <2>3, <2>4
<1>29. ASSUME NEW j \in Jobs, Elapse(j) PROVE TypeInv'
  <2> USE <1>29 DEF Elapse
  <2>1. MemoryType'
    BY DEF MemoryType, CollectType, ThreadType, WorkerShape, Mirroring,
       Statuses, NoStatus, ReadFailures, Streams
  <2>2. CollectType' /\ ThreadType' /\ DiskType' /\ WorkerShape'
    BY DEF CollectType, ThreadType, DiskType, WorkerShape
  <2>3. QED
    BY <2>1, <2>2
<1>30. ASSUME NEW s \in Seeds, NEW x \in Configured[s], Grow(s, x) PROVE TypeInv'
  <2> USE <1>30 DEF Grow
  <2>1. source \in [Seeds -> [Streams -> LogFile]] /\ x \in Streams
    BY DEF DiskType, LogFile
  <2>2. source' = [source EXCEPT ![s][x] = [ver |-> source[s][x].ver + 1, health |-> source[s][x].health]]
    OBVIOUS
  <2>3. [ver |-> source[s][x].ver + 1, health |-> source[s][x].health] \in LogFile
    BY <2>1 DEF LogFile
  <2>4. DiskType'
    BY <2>1, <2>2, <2>3, SourceType DEF DiskType, LogFile
  <2>5. MemoryType' /\ CollectType' /\ ThreadType' /\ WorkerShape'
    BY DEF MemoryType, CollectType, ThreadType, WorkerShape
  <2>6. QED
    BY <2>4, <2>5
<1>31. ASSUME NEW s \in Seeds, NEW x \in Configured[s], Break(s, x) PROVE TypeInv'
  <2> USE <1>31 DEF Break
  <2>1. source \in [Seeds -> [Streams -> LogFile]] /\ x \in Streams
    BY DEF DiskType, LogFile
  <2>2. PICK st \in ReadFailures : source' = [source EXCEPT ![s][x] = [ver |-> source[s][x].ver, health |-> st]]
    BY <2>1
  <2>3. [ver |-> source[s][x].ver, health |-> st] \in LogFile
    BY <2>1 DEF LogFile
  <2>4. DiskType'
    BY <2>1, <2>2, <2>3, SourceType DEF DiskType, LogFile
  <2>5. MemoryType' /\ CollectType' /\ ThreadType' /\ WorkerShape'
    BY DEF MemoryType, CollectType, ThreadType, WorkerShape
  <2>6. QED
    BY <2>4, <2>5
<1>32. ASSUME NEW s \in Seeds, NEW x \in Configured[s], Heal(s, x) PROVE TypeInv'
  <2> USE <1>32 DEF Heal
  <2>1. source \in [Seeds -> [Streams -> LogFile]] /\ x \in Streams
    BY DEF DiskType, LogFile
  <2>2. source' = [source EXCEPT ![s][x] = [ver |-> source[s][x].ver, health |-> "ok"]]
    OBVIOUS
  <2>3. [ver |-> source[s][x].ver, health |-> "ok"] \in LogFile
    BY <2>1 DEF LogFile
  <2>4. DiskType'
    BY <2>1, <2>2, <2>3, SourceType DEF DiskType, LogFile
  <2>5. MemoryType' /\ CollectType' /\ ThreadType' /\ WorkerShape'
    BY DEF MemoryType, CollectType, ThreadType, WorkerShape
  <2>6. QED
    BY <2>4, <2>5
<1>33. ASSUME NEW j \in Jobs, NEW x \in Streams, LoseFile(j, x) PROVE TypeInv'
  <2> USE <1>33 DEF LoseFile
  <2>1. DiskType'
    BY UpdateType DEF DiskType
  <2>2. MemoryType' /\ CollectType' /\ ThreadType' /\ WorkerShape'
    BY DEF MemoryType, CollectType, ThreadType, WorkerShape
  <2>3. QED
    BY <2>1, <2>2
<1>34. ASSUME NEW j \in Jobs, NEW x \in Streams, ClearStale(j, x) PROVE TypeInv'
  <2> USE <1>34 DEF ClearStale
  <2>1. DiskType'
    BY UpdateType DEF DiskType
  <2>2. MemoryType' /\ CollectType' /\ ThreadType' /\ WorkerShape'
    BY DEF MemoryType, CollectType, ThreadType, WorkerShape
  <2>3. QED
    BY <2>1, <2>2
<1>35. CASE Crash
  <2> USE <1>35 DEF Crash, EachJob, EachStream, EachThread
  <2>1. MemoryType'
    BY DEF MemoryType, CollectType, ThreadType, WorkerShape, Mirroring,
       Statuses, NoStatus, ReadFailures, Streams
  <2>2. CollectType'
    BY DEF CollectType
  <2>3. ThreadType'
    BY DEF ThreadType, MemoryType, WorkerShape, Mirroring, Places, Statuses,
       NoStatus, ReadFailures, Streams
  <2>4. DiskType'
    BY UpdateType DEF DiskType, ThreadType, WorkerShape, Mirroring
  <2>5. WorkerShape'
    BY DEF WorkerShape, Mirroring, ThreadType, MemoryType, CollectType,
       NoStatus
  <2>6. QED
    BY <2>1, <2>2, <2>3, <2>4, <2>5
<1>36. CASE UNCHANGED vars
  <2> USE <1>36 DEF vars
  <2>1. MemoryType' /\ CollectType' /\ ThreadType' /\ DiskType' /\ WorkerShape'
    BY DEF MemoryType, CollectType, ThreadType, DiskType, WorkerShape
  <2>2. QED
    BY <2>1
<1>37. QED
  BY <1>1, <1>2, <1>3, <1>4, <1>5, <1>6, <1>7, <1>8, <1>9, <1>10, <1>11,
     <1>12, <1>13, <1>14, <1>15, <1>16, <1>17, <1>18, <1>19, <1>20, <1>21,
     <1>22, <1>23, <1>24, <1>25, <1>26, <1>27, <1>28, <1>29, <1>30, <1>31,
     <1>32, <1>33, <1>34, <1>35, <1>36
  DEF Next, CollectThread, ShareLogs, PoolThread, World

-----------------------------------------------------------------------------
(* What each part of the system leaves alone *)

\* The collect thread touches neither a thread's locals nor the users' files.
LEMMA CollectFrame == CollectThread => UNCHANGED <<threads, temp, source>>
<1> USE DEF memory, trust, mirror, collectThread, ticket, reading, threads, files, others
<1>1. ShareLogs => UNCHANGED <<threads, temp, source>>
  BY DEF ShareLogs, ShareLocked
<1>2. ResetStream \/ ForgetPaths \/ DropMaps \/ DropFingerprint \/ DropFile
        => UNCHANGED <<threads, temp, source>>
  BY DEF ResetStream, ForgetPaths, DropMaps, DropFingerprint, DropFile
<1>3. Submit \/ Report \/ Start => UNCHANGED <<threads, temp, source>>
  BY DEF Submit, Report, Start
<1>4. (\E j \in Jobs, x \in Streams : ClearStale(j, x)) => UNCHANGED <<threads, temp, source>>
  BY DEF ClearStale
<1>5. QED
  BY <1>1, <1>2, <1>3, <1>4 DEF CollectThread

\* A pool thread decides neither which jobs are listed nor what they are trusted with.
LEMMA ThreadFrame ==
  ASSUME NEW w \in Workers, PoolThread(w)
  PROVE  UNCHANGED <<live, paths, owned, collectThread>>
<1> USE DEF memory, trust, mirror, collectThread, ticket, reading, threads, files, others
<1>1. Take(w) \/ Begin(w) \/ Refuse(w) \/ ReadPrior(w) \/ SkipStream(w) \/ ReadKnown(w)
        => UNCHANGED <<live, paths, owned, collectThread>>
  BY DEF Take, Begin, Refuse, ReadPrior, SkipStream, ReadKnown
<1>2. (\/ Stat(w) \/ ReadAsOwner(w) \/ ReadTail(w) \/ ReadFails(w) \/ PublishStatus(w)
       \/ Withdraw(w) \/ KeepMirror(w))
        => UNCHANGED <<live, paths, owned, collectThread>>
  BY DEF Stat, ReadAsOwner, ReadTail, ReadFails, Reject, PublishStatus, Withdraw, KeepMirror
<1>3. Republish(w) \/ WriteTemp(w) \/ Install(w) \/ WriteFails(w) \/ BackOff(w) \/ Finish(w)
        => UNCHANGED <<live, paths, owned, collectThread>>
  BY DEF Republish, WriteTemp, Install, WriteFails, BackOff, Finish
<1>4. QED
  BY <1>1, <1>2, <1>3 DEF PoolThread

\* Between Begin and Finish a thread keeps its job, its token and its seed.
LEMMA TicketFrame ==
  ASSUME NEW w \in Workers, PoolThread(w), ~Take(w), ~Begin(w), ~Finish(w)
  PROVE  UNCHANGED <<tokens, ticket>>
<1> USE DEF memory, trust, mirror, collectThread, ticket, reading, threads, files, others
<1>1. (\/ Refuse(w) \/ ReadPrior(w) \/ SkipStream(w) \/ ReadKnown(w) \/ Stat(w)
       \/ ReadAsOwner(w) \/ ReadTail(w))
        => UNCHANGED <<tokens, ticket>>
  BY DEF Refuse, ReadPrior, SkipStream, ReadKnown, Stat, ReadAsOwner, ReadTail, Reject
<1>2. ReadFails(w) \/ PublishStatus(w) \/ Withdraw(w) \/ KeepMirror(w) \/ Republish(w)
        => UNCHANGED <<tokens, ticket>>
  BY DEF ReadFails, PublishStatus, Withdraw, KeepMirror, Republish
<1>3. WriteTemp(w) \/ Install(w) \/ WriteFails(w) \/ BackOff(w)
        => UNCHANGED <<tokens, ticket>>
  BY DEF WriteTemp, Install, WriteFails, BackOff
<1>4. QED
  BY <1>1, <1>2, <1>3 DEF PoolThread

\* Only Withdraw and Install change the spool among the steps of a thread.
LEMMA SpoolFrame ==
  ASSUME NEW w \in Workers, PoolThread(w), ~Withdraw(w), ~Install(w)
  PROVE  UNCHANGED <<spool, fingerprint>>
<1> USE DEF memory, trust, mirror, collectThread, ticket, reading, threads, files, others
<1>1. Take(w) \/ Begin(w) \/ Refuse(w) \/ ReadPrior(w) \/ SkipStream(w) \/ ReadKnown(w)
        => UNCHANGED <<spool, fingerprint>>
  BY DEF Take, Begin, Refuse, ReadPrior, SkipStream, ReadKnown
<1>2. Stat(w) \/ ReadAsOwner(w) \/ ReadTail(w) \/ ReadFails(w) \/ PublishStatus(w) \/ KeepMirror(w)
        => UNCHANGED <<spool, fingerprint>>
  BY DEF Stat, ReadAsOwner, ReadTail, ReadFails, Reject, PublishStatus, KeepMirror
<1>3. Republish(w) \/ WriteTemp(w) \/ WriteFails(w) \/ BackOff(w) \/ Finish(w)
        => UNCHANGED <<spool, fingerprint>>
  BY DEF Republish, WriteTemp, WriteFails, BackOff, Finish
<1>4. QED
  BY <1>1, <1>2, <1>3 DEF PoolThread

\* Users, files and time change nothing the collector remembers but a deadline.
LEMMA WorldFrame ==
  World => \/ Crash
           \/ UNCHANGED <<trust, mirror, inflight, collectThread, queue, threads, lock, temp>>
<1> USE DEF memory, trust, mirror, collectThread, ticket, reading, threads, files, others
<1>1. (\E j \in Jobs : Elapse(j)) =>
        UNCHANGED <<trust, mirror, inflight, collectThread, queue, threads, lock, temp>>
  BY DEF Elapse
<1>2. (\E s \in Seeds : \E x \in Configured[s] : Grow(s, x) \/ Break(s, x) \/ Heal(s, x)) =>
        UNCHANGED <<trust, mirror, inflight, collectThread, queue, threads, lock, temp>>
  BY DEF Grow, Break, Heal
<1>3. (\E j \in Jobs, x \in Streams : LoseFile(j, x)) =>
        UNCHANGED <<trust, mirror, inflight, collectThread, queue, threads, lock, temp>>
  BY DEF LoseFile
<1>4. QED
  BY <1>1, <1>2, <1>3 DEF World

\* The world adds no file to the spool.
LEMMA WorldSpool ==
  World => spool' = spool \/ \E j \in Jobs, x \in Streams : spool' = [spool EXCEPT ![j][x] = Nothing]
<1> USE DEF memory, trust, mirror, collectThread, ticket, reading, threads, files, others
<1>1. (\E j \in Jobs, x \in Streams : LoseFile(j, x)) =>
        \E j \in Jobs, x \in Streams : spool' = [spool EXCEPT ![j][x] = Nothing]
  BY DEF LoseFile
<1>2. Crash \/ (\E j \in Jobs : Elapse(j)) => spool' = spool
  BY DEF Crash, Elapse
<1>3. (\E s \in Seeds : \E x \in Configured[s] : Grow(s, x) \/ Break(s, x) \/ Heal(s, x))
        => spool' = spool
  BY DEF Grow, Break, Heal
<1>4. QED
  BY <1>1, <1>2, <1>3 DEF World

\* Only Take and Finish touch the backlog, the in-flight marks and what a thread
\* works on.
LEMMA JobFrame ==
  ASSUME NEW w \in Workers, TypeOK, PoolThread(w), ~Take(w), ~Finish(w)
  PROVE  /\ UNCHANGED <<inflight, queue, job>>
         /\ \A v \in Workers : at'[v] = "idle" => at[v] = "idle"
<1> USE DEF memory, trust, mirror, collectThread, ticket, reading, threads, files, others
<1>1. UNCHANGED <<inflight, queue, job>>
  <2>1. Begin(w) \/ Refuse(w) \/ ReadPrior(w) \/ SkipStream(w) \/ ReadKnown(w) \/ Stat(w)
          => UNCHANGED <<inflight, queue, job>>
    BY DEF Begin, Refuse, ReadPrior, SkipStream, ReadKnown, Stat, Reject
  <2>2. (\/ ReadAsOwner(w) \/ ReadTail(w) \/ ReadFails(w) \/ PublishStatus(w) \/ Withdraw(w)
         \/ KeepMirror(w))
          => UNCHANGED <<inflight, queue, job>>
    BY DEF ReadAsOwner, ReadTail, ReadFails, Reject, PublishStatus, Withdraw, KeepMirror
  <2>3. Republish(w) \/ WriteTemp(w) \/ Install(w) \/ WriteFails(w) \/ BackOff(w)
          => UNCHANGED <<inflight, queue, job>>
    BY DEF Republish, WriteTemp, Install, WriteFails, BackOff
  <2>4. QED
    BY <2>1, <2>2, <2>3 DEF PoolThread
<1>2. \E where \in Places \ {"idle"} : at' = [at EXCEPT ![w] = where]
  <2> USE DEF Places, Goto, NextStream
  <2>1. Begin(w) \/ Refuse(w) \/ ReadPrior(w) \/ SkipStream(w) \/ ReadKnown(w) =>
          \E where \in Places \ {"idle"} : at' = [at EXCEPT ![w] = where]
    BY DEF Begin, Refuse, ReadPrior, SkipStream, ReadKnown
  <2>2. (\/ Stat(w) \/ ReadAsOwner(w) \/ ReadTail(w) \/ ReadFails(w) \/ PublishStatus(w)
         \/ Withdraw(w)) =>
          \E where \in Places \ {"idle"} : at' = [at EXCEPT ![w] = where]
    BY DEF Stat, ReadAsOwner, ReadTail, ReadFails, Reject, PublishStatus, Withdraw
  <2>3. KeepMirror(w) \/ Republish(w) \/ WriteTemp(w) \/ Install(w) \/ WriteFails(w) \/ BackOff(w)
          => \E where \in Places \ {"idle"} : at' = [at EXCEPT ![w] = where]
    BY DEF KeepMirror, Republish, WriteTemp, Install, WriteFails, BackOff, OnError
  <2>4. QED
    BY <2>1, <2>2, <2>3 DEF PoolThread
<1>3. QED
  BY <1>1, <1>2 DEF TypeOK, ThreadType

-----------------------------------------------------------------------------
(* The collect thread's own bookkeeping *)

\* Every step keeps the collect thread's leftovers in step with where it is.
LEMMA PhaseNext ==
  TypeInv /\ CyclePhase /\ [Next]_vars => CyclePhase'
<1> SUFFICES ASSUME TypeInv, CyclePhase, [Next]_vars PROVE CyclePhase'
  OBVIOUS
<1> USE DEF memory, trust, mirror, collectThread, ticket, reading, threads, files, others, vars
<1>1. CASE ShareLogs
  BY <1>1 DEF ShareLogs, ShareLocked, CyclePhase
<1>2. CASE ResetStream
  BY <1>2 DEF ResetStream, CyclePhase
<1>3. CASE ForgetPaths
  BY <1>3 DEF ForgetPaths, CyclePhase
<1>4. CASE DropMaps
  BY <1>4 DEF DropMaps, CyclePhase
<1>5. CASE DropFingerprint
  BY <1>5 DEF DropFingerprint, CyclePhase
<1>6. CASE DropFile
  BY <1>6 DEF DropFile, CyclePhase
<1>7. CASE Submit \/ Report \/ Start
  BY <1>7 DEF Submit, Report, Start, CyclePhase
<1>8. CASE \E j \in Jobs, x \in Streams : ClearStale(j, x)
  BY <1>8 DEF ClearStale, CyclePhase
<1>9. CASE \E w \in Workers : PoolThread(w)
  BY <1>9, ThreadFrame DEF CyclePhase
<1>10. CASE Crash
  BY <1>10 DEF Crash, CyclePhase
<1>11. CASE World
  BY <1>10, <1>11, WorldFrame DEF CyclePhase
<1>12. CASE UNCHANGED vars
  BY <1>12 DEF CyclePhase
<1>13. QED
  BY <1>1, <1>2, <1>3, <1>4, <1>5, <1>6, <1>7, <1>8, <1>9, <1>11, <1>12
  DEF Next, CollectThread

\* No step leaves paths behind for a job that is neither listed nor going.
LEMMA PathsNext ==
  TypeInv /\ CyclePhase /\ Forgotten /\ PathsKept /\ [Next]_vars => PathsKept'
<1> SUFFICES ASSUME TypeInv, CyclePhase, Forgotten, PathsKept, [Next]_vars PROVE PathsKept'
  OBVIOUS
<1> USE DEF memory, trust, mirror, collectThread, ticket, reading, threads, files, others, vars
<1>1. ASSUME NEW now \in SUBSET Jobs, NEW meta \in [now -> Seeds \cup {NoSeed}],
             ShareLocked(meta)
      PROVE PathsKept'
  BY <1>1 DEF ShareLocked, PathsKept, Known
<1>2. CASE ResetStream
  BY <1>2 DEF ResetStream, PathsKept
<1>3. CASE ForgetPaths
  BY <1>3 DEF ForgetPaths, PathsKept, TypeInv, TypeOK, MemoryType
<1>4. CASE DropMaps
  BY <1>4 DEF DropMaps, PathsKept, Forgotten
<1>5. CASE DropFingerprint
  BY <1>5 DEF DropFingerprint, PathsKept
<1>6. CASE DropFile
  BY <1>6 DEF DropFile, PathsKept, Forgotten
<1>7. CASE Submit \/ Report \/ Start
  BY <1>7 DEF Submit, Report, Start, PathsKept
<1>8. CASE \E j \in Jobs, x \in Streams : ClearStale(j, x)
  BY <1>8 DEF ClearStale, PathsKept
<1>9. CASE \E w \in Workers : PoolThread(w)
  BY <1>9, ThreadFrame DEF PathsKept
<1>10. CASE Crash
  BY <1>10 DEF Crash, PathsKept, EachJob
<1>11. CASE World
  BY <1>10, <1>11, WorldFrame DEF PathsKept
<1>12. CASE UNCHANGED vars
  BY <1>12 DEF PathsKept
<1>13. QED
  BY <1>1, <1>2, <1>3, <1>4, <1>5, <1>6, <1>7, <1>8, <1>9, <1>11, <1>12
  DEF Next, CollectThread, ShareLogs

\* Begin is the only step that gives a thread a token, and a fresh one is
\* nobody else's.
LEMMA BeginToken ==
  ASSUME TypeInv, NEW w \in Workers, Begin(w)
  PROVE  /\ tokens' \in [Jobs -> Tokens \cup {NoToken}]
         /\ \A j \in Jobs : j # job[w] => tokens'[j] = tokens[j]
         /\ \/ tokens' = tokens
            \/ /\ tokens[job[w]] = NoToken
               /\ \A v \in Workers : job[v] = job[w] => token[v] # tokens'[job[w]]
<1>1. job[w] \in Jobs
  BY DEF TypeInv, WorkerShape, Begin
<1>2. CASE tokens' = tokens
  BY <1>2 DEF TypeInv, TypeOK, MemoryType
<1>3. CASE /\ tokens[job[w]] = NoToken /\ CanMint(job[w])
           /\ tokens' = [tokens EXCEPT ![job[w]] = NewToken(job[w])]
  <2>1. NewToken(job[w]) \in Tokens /\ NewToken(job[w]) \notin InUse(job[w])
    BY <1>1, <1>3, TokenFresh
  <2>2. tokens'[job[w]] = NewToken(job[w])
    BY <1>1, <1>3 DEF TypeInv, TypeOK, MemoryType
  <2>3. \A v \in Workers : job[v] = job[w] => token[v] # tokens'[job[w]]
    BY <2>1, <2>2 DEF InUse
  <2>4. QED
    BY <1>1, <1>3, <2>1, <2>3 DEF TypeInv, TypeOK, MemoryType
<1>4. QED
  BY <1>2, <1>3 DEF Begin

\* No thread can claim a job that is being dropped, not even one that begins now.
LEMMA ForgottenNext ==
  TypeInv /\ CyclePhase /\ Forgotten /\ [Next]_vars => Forgotten'
<1> SUFFICES ASSUME TypeInv, CyclePhase, Forgotten, [Next]_vars PROVE Forgotten'
  OBVIOUS
<1> USE DEF memory, trust, mirror, collectThread, ticket, reading, threads, files, others, vars
<1>1. CASE ShareLogs
  BY <1>1 DEF ShareLogs, ShareLocked, Forgotten, CyclePhase
<1>2. CASE ResetStream
  BY <1>2 DEF ResetStream, Forgotten
<1>3. CASE ForgetPaths
  BY <1>3 DEF ForgetPaths, Forgotten, TypeInv, TypeOK, MemoryType, CollectType
<1>4. CASE DropMaps
  <2>1. \A d \in dropping : d[1] \in Jobs /\ tokens'[d[1]] = NoToken
    BY <1>4 DEF DropMaps, Forgotten, TypeInv, TypeOK, MemoryType, CollectType
  <2>2. \A w \in Workers : seed[w] # NoSeed => token[w] # NoToken
    BY ThreadAssumption DEF TypeInv, WorkerShape
  <2>3. QED
    BY <1>4, <2>1, <2>2 DEF DropMaps, Forgotten
<1>5. CASE DropFingerprint
  BY <1>5 DEF DropFingerprint, Forgotten
<1>6. CASE DropFile
  BY <1>6 DEF DropFile, Forgotten
<1>7. CASE Submit \/ Report \/ Start
  BY <1>7 DEF Submit, Report, Start, Forgotten
<1>8. CASE \E j \in Jobs, x \in Streams : ClearStale(j, x)
  BY <1>8 DEF ClearStale, Forgotten
<1>9. ASSUME NEW w \in Workers, PoolThread(w) PROVE Forgotten'
  <2>1. UNCHANGED <<paths, collectThread>>
    BY <1>9, ThreadFrame
  <2>2. CASE Take(w)
    BY <2>1, <2>2 DEF Take, Forgotten, TypeInv, TypeOK, ThreadType, WorkerShape
  <2>3. CASE Begin(w)
    <3>1. SUFFICES ASSUME NEW d \in dropping, pc \in {"drop", "unlink"}, NEW v \in Workers,
                          job[v] = d[1], seed'[v] # NoSeed
                   PROVE  token'[v] # tokens'[d[1]]
      BY <2>1, <2>3 DEF Begin, Forgotten
    <3>2. paths[d[1]] = NoSeed /\ d[1] \in Jobs
      BY DEF Forgotten, TypeInv, TypeOK, CollectType
    <3>3. v # w
      BY <2>3, <3>1, <3>2 DEF Begin, TypeInv, WorkerShape
    <3>4. seed'[v] = seed[v] /\ token'[v] = token[v]
      BY <2>3, <3>3 DEF Begin, TypeInv, TypeOK, ThreadType
    <3>5. QED
      BY <2>3, <3>1, <3>2, <3>4, BeginToken DEF Forgotten
  <2>4. CASE Finish(w)
    BY <2>1, <2>4 DEF Finish, Forgotten, TypeInv, TypeOK, ThreadType
  <2>5. CASE ~Take(w) /\ ~Begin(w) /\ ~Finish(w)
    BY <1>9, <2>1, <2>5, TicketFrame DEF Forgotten
  <2>6. QED
    BY <2>2, <2>3, <2>4, <2>5
<1>10. CASE Crash
  BY <1>10 DEF Crash, Forgotten
<1>11. CASE World
  BY <1>10, <1>11, WorldFrame DEF Forgotten
<1>12. CASE UNCHANGED vars
  BY <1>12 DEF Forgotten
<1>13. QED
  BY <1>1, <1>2, <1>3, <1>4, <1>5, <1>6, <1>7, <1>8, <1>9, <1>11, <1>12
  DEF Next, CollectThread

-----------------------------------------------------------------------------
(* Tokens tell a thread whether its seed is still the job's *)

\* Every step keeps the tokens telling: a new seed comes with a new token.
LEMMA TokenNext ==
  TypeInv /\ CyclePhase /\ Forgotten /\ PathsKept /\ TokenMeansSeed /\ [Next]_vars
    => TokenMeansSeed'
<1> SUFFICES ASSUME TypeInv, CyclePhase, Forgotten, PathsKept, TokenMeansSeed, [Next]_vars
             PROVE  TokenMeansSeed'
  OBVIOUS
<1> USE DEF memory, trust, mirror, collectThread, ticket, reading, threads, files, others, vars
<1>1. ASSUME NEW now \in SUBSET Jobs, NEW meta \in [now -> Seeds \cup {NoSeed}],
             ShareLocked(meta)
      PROVE TokenMeansSeed'
  <2> SUFFICES ASSUME NEW w \in Workers, seed[w] # NoSeed, tokens'[job[w]] = token[w]
               PROVE  Trusted(job[w], seed[w])' \/ job[w] \in gone'
    BY <1>1 DEF ShareLocked, TokenMeansSeed
  <2> DEFINE j == job[w]
  <2>1. j \in Jobs /\ CanMint(j) => NewToken(j) # token[w]
    BY TokenFresh DEF InUse
  <2>2. j \in Jobs
    BY DEF TypeInv, WorkerShape
  <2>3. tokens'[j] = tokens[j] /\ (j \in now => meta[j] # NoSeed /\ j \notin Moved(meta))
    BY <1>1, <2>1, <2>2 DEF ShareLocked
  <2>4. Trusted(j, seed[w])
    BY <1>1, <2>3 DEF ShareLocked, TokenMeansSeed, CyclePhase
  <2>5. CASE j \in now
    BY <1>1, <2>2, <2>3, <2>4, <2>5 DEF ShareLocked, Trusted, Moved
  <2>6. CASE j \notin now
    BY <1>1, <2>2, <2>4, <2>6 DEF ShareLocked, Trusted, Known
  <2>7. QED
    BY <2>5, <2>6
<1>2. CASE ResetStream
  BY <1>2 DEF ResetStream, TokenMeansSeed, Trusted
<1>3. CASE ForgetPaths
  BY <1>3 DEF ForgetPaths, TokenMeansSeed, Trusted, TypeInv, TypeOK, MemoryType
<1>4. CASE DropMaps
  <2> SUFFICES ASSUME NEW w \in Workers, seed[w] # NoSeed, tokens'[job[w]] = token[w]
               PROVE  Trusted(job[w], seed[w])' \/ job[w] \in gone'
    BY <1>4 DEF DropMaps, TokenMeansSeed
  <2>1. token[w] # NoToken /\ job[w] \in Jobs
    BY ThreadAssumption DEF TypeInv, WorkerShape
  <2>2. PICK j \in gone : /\ tokens' = [tokens EXCEPT ![j] = NoToken]
                          /\ live' = live \ {j}
    <3>1. {d[1] : d \in dropping} \subseteq gone
      BY DEF Forgotten
    <3>2. PICK j \in {d[1] : d \in dropping} : /\ tokens' = [tokens EXCEPT ![j] = NoToken]
                                               /\ live' = live \ {j}
      BY <1>4 DEF DropMaps
    <3>3. QED
      BY <3>1, <3>2
  <2>3. job[w] # j /\ tokens[job[w]] = token[w]
    BY <2>1, <2>2 DEF TypeInv, TypeOK, MemoryType
  <2>4. QED
    BY <1>4, <2>2, <2>3 DEF DropMaps, TokenMeansSeed, Trusted
<1>5. CASE DropFingerprint
  BY <1>5 DEF DropFingerprint, TokenMeansSeed, Trusted
<1>6. CASE DropFile
  BY <1>6 DEF DropFile, TokenMeansSeed, Trusted, Forgotten
<1>7. CASE Submit \/ Report \/ Start
  BY <1>7 DEF Submit, Report, Start, TokenMeansSeed, Trusted
<1>8. CASE \E j \in Jobs, x \in Streams : ClearStale(j, x)
  BY <1>8 DEF ClearStale, TokenMeansSeed, Trusted
<1>9. ASSUME NEW w \in Workers, PoolThread(w) PROVE TokenMeansSeed'
  <2>1. UNCHANGED <<live, paths, gone>>
    BY <1>9, ThreadFrame
  <2>2. CASE Take(w)
    BY <2>1, <2>2 DEF Take, TokenMeansSeed, Trusted, TypeInv, TypeOK, ThreadType, WorkerShape
  <2>3. CASE Begin(w)
    <3> SUFFICES ASSUME NEW v \in Workers, seed'[v] # NoSeed, tokens'[job[v]] = token'[v]
                 PROVE  Trusted(job[v], seed'[v]) \/ job[v] \in gone
      BY <2>1, <2>3 DEF Begin, TokenMeansSeed, Trusted
    <3>1. CASE v = w
      BY <2>3, <3>1 DEF Begin, PathsKept, Trusted, TypeInv, TypeOK, MemoryType, ThreadType, WorkerShape
    <3>2. CASE v # w
      <4>1. seed'[v] = seed[v] /\ token'[v] = token[v]
        BY <2>3, <3>2 DEF Begin, TypeInv, TypeOK, ThreadType
      <4>2. tokens[job[v]] = token[v]
        BY <2>3, <4>1, BeginToken DEF TypeInv, WorkerShape
      <4>3. QED
        BY <4>1, <4>2 DEF TokenMeansSeed
    <3>3. QED
      BY <3>1, <3>2
  <2>4. CASE Finish(w)
    BY <2>1, <2>4 DEF Finish, TokenMeansSeed, Trusted, TypeInv, TypeOK, ThreadType
  <2>5. CASE ~Take(w) /\ ~Begin(w) /\ ~Finish(w)
    BY <1>9, <2>1, <2>5, TicketFrame DEF TokenMeansSeed, Trusted
  <2>6. QED
    BY <2>2, <2>3, <2>4, <2>5
<1>10. CASE Crash
  BY <1>10 DEF Crash, TokenMeansSeed, EachThread
<1>11. CASE World
  BY <1>10, <1>11, WorldFrame DEF TokenMeansSeed, Trusted
<1>12. CASE UNCHANGED vars
  BY <1>12 DEF TokenMeansSeed, Trusted
<1>13. QED
  BY <1>1, <1>2, <1>3, <1>4, <1>5, <1>6, <1>7, <1>8, <1>9, <1>11, <1>12
  DEF Next, CollectThread, ShareLogs

-----------------------------------------------------------------------------
(* A thread reads its own file, and the fingerprint comes first *)

\* Every step keeps what a thread holds in the order it was read.
LEMMA ReadNext == TypeInv /\ ReadInOrder /\ [Next]_vars => ReadInOrder'
<1> SUFFICES ASSUME TypeInv, ReadInOrder, [Next]_vars PROVE ReadInOrder'
  OBVIOUS
<1> USE SeedAssumption
    DEF memory, trust, mirror, collectThread, ticket, reading, threads, files, others, vars
<1>1. CASE CollectThread
  BY <1>1, CollectFrame DEF ReadInOrder
<1>2. ASSUME NEW w \in Workers, PoolThread(w) PROVE ReadInOrder'
  <2> USE DEF TypeInv, TypeOK, ThreadType, WorkerShape, Mirroring, ReadInOrder, Goto
  <2>1. CASE Take(w)
    BY <2>1 DEF Take
  <2>2. CASE Begin(w)
    BY <2>2 DEF Begin
  <2>3. CASE Refuse(w)
    BY <2>3 DEF Refuse
  <2>4. CASE ReadPrior(w)
    BY <2>4 DEF ReadPrior
  <2>5. CASE SkipStream(w)
    BY <2>5 DEF SkipStream, NextStream
  <2>6. CASE ReadKnown(w)
    BY <2>6 DEF ReadKnown
  <2>7. CASE Stat(w) \/ ReadAsOwner(w)
    <3>1. Observed(w).seed = seed[w] /\ seed[w] # NoSeed
          /\ Observed(w).ver = source[seed[w]][stream[w]].ver
          /\ Observed(w).ver \in Nat
      BY <2>7 DEF Stat, ReadAsOwner, Observed, DiskType
    <3>2. CASE Reject(w, Health(w))
      BY <2>7, <3>1, <3>2 DEF Stat, ReadAsOwner, Reject
    <3>3. CASE Stat(w) /\ ~Reject(w, Health(w))
      BY <3>1, <3>3 DEF Stat
    <3>4. CASE ReadAsOwner(w) /\ ~Reject(w, Health(w)) /\ Observed(w) = fp[w]
      BY <3>1, <3>4 DEF ReadAsOwner
    <3>5. CASE ReadAsOwner(w) /\ ~Reject(w, Health(w)) /\ Observed(w) # fp[w]
      BY <3>1, <3>5 DEF ReadAsOwner
    <3>6. QED
      BY <2>7, <3>2, <3>3, <3>4, <3>5
  <2>8. CASE ReadTail(w)
    <3>1. Observed(w).seed = seed[w] /\ Observed(w).ver = source[seed[w]][stream[w]].ver
      BY DEF Observed
    <3>2. QED
      BY <2>8, <3>1 DEF ReadTail
  <2>9. CASE ReadFails(w)
    BY <2>9 DEF ReadFails, Reject
  <2>10. CASE PublishStatus(w)
    BY <2>10 DEF PublishStatus
  <2>11. CASE Withdraw(w)
    BY <2>11 DEF Withdraw, NextStream
  <2>12. CASE KeepMirror(w)
    BY <2>12 DEF KeepMirror, NextStream
  <2>13. CASE Republish(w)
    BY <2>13 DEF Republish, NextStream
  <2>14. CASE WriteTemp(w)
    BY <2>14 DEF WriteTemp, NextStream
  <2>15. CASE Install(w)
    BY <2>15 DEF Install, NextStream
  <2>16. CASE WriteFails(w)
    BY <2>16 DEF WriteFails, OnError
  <2>17. CASE BackOff(w)
    BY <2>17 DEF BackOff
  <2>18. CASE Finish(w)
    BY <2>18 DEF Finish
  <2>19. QED
    BY <1>2, <2>1, <2>2, <2>3, <2>4, <2>5, <2>6, <2>7, <2>8, <2>9, <2>10, <2>11, <2>12,
       <2>13, <2>14, <2>15, <2>16, <2>17, <2>18 DEF PoolThread
<1>3. CASE Crash
  BY <1>3 DEF Crash, ReadInOrder, EachThread
<1>4. ASSUME NEW s \in Seeds, NEW x \in Configured[s], Grow(s, x) \/ Break(s, x) \/ Heal(s, x)
      PROVE ReadInOrder'
  <2>1. \A t \in Seeds, y \in Streams : source[t][y].ver <= source'[t][y].ver
    <3>1. source \in [Seeds -> [Streams -> LogFile]] /\ x \in Streams
      BY ConfiguredType DEF TypeInv, TypeOK, DiskType, LogFile
    <3>2. \A t \in Seeds, y \in Streams : source[t][y].ver \in Nat
      BY <3>1 DEF LogFile
    <3>3. CASE Grow(s, x)
      BY <3>1, <3>2, <3>3 DEF Grow
    <3>4. CASE Break(s, x)
      BY <3>1, <3>2, <3>4 DEF Break
    <3>5. CASE Heal(s, x)
      BY <3>1, <3>2, <3>5 DEF Heal
    <3>6. QED
      BY <1>4, <3>3, <3>4, <3>5
  <2>2. UNCHANGED threads
    BY <1>4 DEF Grow, Break, Heal
  <2>3. \A w \in Workers : at[w] = "read" =>
          fp[w].ver <= source'[seed[w]][stream[w]].ver
    <3>1. \A w \in Workers : at[w] = "read" => seed[w] \in Seeds /\ stream[w] \in Streams
      BY DEF TypeInv, TypeOK, ThreadType, WorkerShape, Mirroring
    <3>2. \A w \in Workers : fp[w].ver \in Nat
      BY VersionType DEF TypeInv, TypeOK, ThreadType
    <3>3. \A t \in Seeds, y \in Streams : source[t][y].ver \in Nat /\ source'[t][y].ver \in Nat
      BY TypeNext DEF TypeInv, TypeOK, DiskType
    <3>4. QED
      BY <2>1, <3>1, <3>2, <3>3 DEF ReadInOrder
  <2>4. QED
    BY <2>2, <2>3 DEF ReadInOrder
<1>5. CASE (\E j \in Jobs : Elapse(j)) \/ (\E j \in Jobs, x \in Streams : LoseFile(j, x))
  BY <1>5 DEF Elapse, LoseFile, ReadInOrder
<1>6. CASE UNCHANGED vars
  BY <1>6 DEF ReadInOrder
<1>7. QED
  BY <1>1, <1>2, <1>3, <1>4, <1>5, <1>6 DEF Next, World

-----------------------------------------------------------------------------
(* What a thread checked under the lock holds until it releases it *)

\* No step of another actor undoes the re-check before the rename.
LEMMA LockNext ==
  TypeInv /\ CyclePhase /\ TokenMeansSeed /\ WriteLocked /\ [Next]_vars => WriteLocked'
<1> SUFFICES ASSUME TypeInv, CyclePhase, TokenMeansSeed, WriteLocked, [Next]_vars
             PROVE  WriteLocked'
  OBVIOUS
<1> USE ThreadAssumption, SeedAssumption
    DEF memory, trust, mirror, collectThread, ticket, reading, threads, files, others, vars
<1>1. CASE ShareLogs \/ ResetStream \/ ForgetPaths \/ DropMaps \/ Report
  <2>1. lock = Free
    <3>1. ShareLogs => lock = Free
      BY DEF ShareLogs, ShareLocked
    <3>2. QED
      BY <1>1, <3>1 DEF ResetStream, ForgetPaths, DropMaps, Report
  <2>2. UNCHANGED threads
    BY <1>1, CollectFrame DEF CollectThread
  <2>3. QED
    BY <2>1, <2>2 DEF WriteLocked
<1>2. CASE DropFingerprint \/ DropFile \/ Submit \/ Start
  BY <1>2 DEF DropFingerprint, DropFile, Submit, Start, WriteLocked, Current, Trusted
<1>3. CASE \E j \in Jobs, x \in Streams : ClearStale(j, x)
  BY <1>3 DEF ClearStale, WriteLocked, Current, Trusted
<1>4. ASSUME NEW w \in Workers, PoolThread(w) PROVE WriteLocked'
  <2>1. UNCHANGED <<live, paths>>
    BY <1>4, ThreadFrame
  <2> USE DEF TypeInv, TypeOK, ThreadType, WriteLocked, Current, Trusted, Goto
  <2>2. CASE lock = Free /\ ~WriteTemp(w)
    <3>1. \A v \in Workers : at[v] # "install"
      BY <2>2
    <3>2. \A v \in Workers : at'[v] # "install"
      BY <1>4, <2>2, <3>1
      DEF PoolThread, Take, Begin, Refuse, ReadPrior, SkipStream, ReadKnown, Stat,
          ReadAsOwner, ReadTail, ReadFails, Reject, PublishStatus, Withdraw, KeepMirror, Republish, Install, WriteFails,
          BackOff, Finish, NextStream, OnError
    <3>3. QED
      BY <3>2
  <2>3. CASE lock = Free /\ WriteTemp(w)
    <3>1. \A v \in Workers : at[v] # "install"
      BY <2>3
    <3>2. CASE ~Current(w)
      BY <2>3, <3>1, <3>2 DEF WriteTemp, NextStream
    <3>3. CASE Current(w)
      <4>1. job[w] \in Jobs /\ stream[w] \in Streams /\ seed[w] # NoSeed
        BY <2>3 DEF WriteTemp, WorkerShape, Mirroring
      <4>2. Trusted(job[w], seed[w])
        BY <3>3, <4>1 DEF TokenMeansSeed, CyclePhase
      <4>3. temp'[job[w]][stream[w]] = data[w]
        BY <2>3, <3>3, <4>1 DEF WriteTemp, DiskType
      <4>4. lock' = w /\ UNCHANGED <<trust, ticket, stream, data>>
        BY <2>3, <3>3 DEF WriteTemp
      <4>5. \A v \in Workers : at'[v] = "install" => v = w
        BY <2>3, <3>1, <3>3 DEF WriteTemp
      <4>6. QED
        BY <3>3, <4>2, <4>3, <4>4, <4>5
    <3>4. QED
      BY <3>2, <3>3
  <2>4. CASE lock # Free
    <3>1. CASE \/ Take(w) \/ Stat(w) \/ ReadAsOwner(w) \/ ReadTail(w) \/ ReadFails(w)
             \/ KeepMirror(w)
      <4>1. /\ at[w] # "install" /\ at'[w] # "install"
            /\ \A v \in Workers \ {w} :
                 /\ at'[v] = at[v] /\ job'[v] = job[v] /\ token'[v] = token[v]
                 /\ seed'[v] = seed[v] /\ stream'[v] = stream[v] /\ data'[v] = data[v]
            /\ UNCHANGED <<tokens, lock, temp>>
        BY <3>1 DEF Take, Stat, ReadAsOwner, ReadTail, ReadFails, Reject, KeepMirror, NextStream
      <4>2. QED
        BY <2>1, <4>1
    <3>2. CASE Install(w) \/ WriteFails(w)
      BY <3>2 DEF Install, WriteFails, NextStream, OnError
    <3>3. QED
      BY <1>4, <2>4, <3>1, <3>2
      DEF PoolThread, Begin, Refuse, ReadPrior, SkipStream, ReadKnown, PublishStatus, Withdraw,
          Republish, WriteTemp, BackOff, Finish
  <2>5. QED
    BY <2>2, <2>3, <2>4
<1>5. CASE Crash
  BY <1>5 DEF Crash, WriteLocked, EachThread
<1>6. CASE World
  BY <1>5, <1>6, WorldFrame DEF WriteLocked, Current, Trusted
<1>7. CASE UNCHANGED vars
  BY <1>7 DEF WriteLocked, Current, Trusted
<1>8. QED
  BY <1>1, <1>2, <1>3, <1>4, <1>6, <1>7 DEF Next, CollectThread

-----------------------------------------------------------------------------
(* The spool shows what the last snapshot trusts *)

\* Taking files away breaks nothing.
LEMMA Removal ==
  ASSUME TypeInv, SpoolBacked, NEW j \in Jobs, NEW x \in Streams,
         spool' = [spool EXCEPT ![j][x] = Nothing],
         UNCHANGED <<live, paths, tokens, pc, resets, gone, dropping>>
  PROVE  SpoolBacked'
<1>1. \A i \in Jobs, y \in Streams : spool'[i][y] \in {spool[i][y], Nothing}
  BY DEF TypeInv, TypeOK, DiskType
<1>2. QED
  BY <1>1 DEF SpoolBacked, Trusted, Withdrawing

\* Every step keeps each spool file trusted or about to be withdrawn.
LEMMA SpoolNext ==
  IInv /\ [Next]_vars => SpoolBacked'
<1> SUFFICES ASSUME IInv, [Next]_vars PROVE SpoolBacked'
  OBVIOUS
<1> USE SeedAssumption, ThreadAssumption
    DEF memory, trust, mirror, collectThread, ticket, reading, threads, files, others, vars, IInv
<1>0. TypeInv
  BY DEF TypeInv
<1>1. ASSUME NEW now \in SUBSET Jobs, NEW meta \in [now -> Seeds \cup {NoSeed}],
             ShareLocked(meta)
      PROVE SpoolBacked'
  <2> SUFFICES ASSUME NEW j \in Jobs, NEW x \in Streams, spool[j][x] # Nothing
               PROVE  Trusted(j, spool[j][x].seed)' \/ Withdrawing(j, x)'
    BY <1>1 DEF ShareLocked, SpoolBacked
  <2>1. Trusted(j, spool[j][x].seed)
    BY <1>1 DEF ShareLocked, SpoolBacked, Withdrawing, CyclePhase
  <2>2. spool[j][x].seed \in Seeds
    BY DataTypes DEF TypeOK, DiskType
  <2>3. CASE j \notin now
    BY <1>1, <2>1, <2>3 DEF ShareLocked, Withdrawing, Known, Trusted, CyclePhase
  <2>4. CASE j \in now /\ meta[j] = spool[j][x].seed
    BY <1>1, <2>4 DEF ShareLocked, Trusted
  <2>5. CASE j \in now /\ meta[j] # spool[j][x].seed
    <3>1. meta[j] = NoSeed \/ j \in Moved(meta)
      BY <2>1, <2>2, <2>5 DEF Moved, Trusted
    <3>2. tokens'[j] = NewToken(j) /\ <<j, x, NewToken(j)>> \in resets'
      BY <1>1, <2>5, <3>1 DEF ShareLocked
    <3>3. QED
      BY <3>2 DEF Withdrawing
  <2>6. QED
    BY <2>3, <2>4, <2>5
<1>2. CASE ResetStream
  <2>1. PICK r \in resets :
          /\ IF tokens[r[1]] = r[3] THEN Unpublish(r[1], r[2])
             ELSE UNCHANGED <<published, fingerprint, spool>>
          /\ resets' = resets \ {r}
    BY <1>2 DEF ResetStream
  <2>2. r[1] \in Jobs /\ r[2] \in Streams /\ r = <<r[1], r[2], r[3]>>
    BY DEF TypeOK, CollectType
  <2>3. UNCHANGED <<live, paths, tokens, pc, gone, dropping>>
    BY <1>2 DEF ResetStream
  <2>4. CASE tokens[r[1]] = r[3]
    <3>1. /\ spool'[r[1]][r[2]] = Nothing
          /\ \A j \in Jobs, x \in Streams : <<j, x>> # <<r[1], r[2]>> => spool'[j][x] = spool[j][x]
      BY <2>1, <2>2, <2>4 DEF Unpublish, TypeOK, DiskType
    <3>2. QED
      BY <2>1, <2>2, <2>3, <3>1 DEF SpoolBacked, Trusted, Withdrawing
  <2>5. CASE tokens[r[1]] # r[3]
    BY <2>1, <2>2, <2>3, <2>5 DEF SpoolBacked, Trusted, Withdrawing
  <2>6. QED
    BY <2>4, <2>5
<1>3. CASE ForgetPaths
  <2>1. PICK i \in gone : /\ paths' = [paths EXCEPT ![i] = NoSeed]
                          /\ dropping' = {<<i, x>> : x \in Streams}
    BY <1>3 DEF ForgetPaths
  <2>2. \A j \in Jobs : j # i => paths'[j] = paths[j]
    BY <2>1 DEF TypeOK, MemoryType
  <2>3. \A x \in Streams : Withdrawing(i, x)'
    BY <1>3, <2>1 DEF ForgetPaths, Withdrawing
  <2>4. \A j \in Jobs, x \in Streams : j # i /\ Withdrawing(j, x) => Withdrawing(j, x)'
    BY <1>3, <2>1 DEF ForgetPaths, Withdrawing
  <2>5. QED
    BY <1>3, <2>2, <2>3, <2>4 DEF ForgetPaths, SpoolBacked, Trusted
<1>4. CASE DropMaps
  <2>1. {d[1] : d \in dropping} \subseteq gone
    BY DEF Forgotten
  <2>2. PICK i \in {d[1] : d \in dropping} : live' = live \ {i}
    BY <1>4 DEF DropMaps
  <2>3. i \notin live /\ resets = {}
    BY <1>4, <2>1, <2>2 DEF DropMaps, CyclePhase
  <2>4. QED
    BY <1>4, <2>2, <2>3 DEF DropMaps, SpoolBacked, Trusted, Withdrawing
<1>5. CASE DropFingerprint
  BY <1>5 DEF DropFingerprint, SpoolBacked, Trusted, Withdrawing
<1>6. CASE DropFile
  <2>1. PICK d \in dropping :
          /\ spool' = [spool EXCEPT ![d[1]][d[2]] = Nothing]
          /\ dropping' = dropping \ {d}
          /\ IF dropping = {d} THEN pc' = "cycle" /\ gone' = gone \ {d[1]}
             ELSE pc' = "drop" /\ gone' = gone
    BY <1>6 DEF DropFile
  <2>2. d[1] \in Jobs /\ d[2] \in Streams /\ d = <<d[1], d[2]>>
    BY DEF TypeOK, CollectType
  <2>3. /\ spool'[d[1]][d[2]] = Nothing
        /\ \A j \in Jobs, x \in Streams : <<j, x>> # d => spool'[j][x] = spool[j][x]
    BY <2>1, <2>2 DEF TypeOK, DiskType
  <2>4. UNCHANGED <<live, paths, tokens, resets>> /\ pc # "boot"
    BY <1>6 DEF DropFile
  <2>5. \A j \in Jobs, x \in Streams : <<j, x>> # d /\ Withdrawing(j, x) => Withdrawing(j, x)'
    BY <2>1, <2>2, <2>4 DEF Withdrawing, Forgotten
  <2>6. QED
    BY <2>2, <2>3, <2>4, <2>5 DEF SpoolBacked, Trusted
<1>7. CASE Submit \/ Report
  BY <1>7 DEF Submit, Report, SpoolBacked, Trusted, Withdrawing
<1>8. CASE Start
  BY <1>8 DEF Start, Cleared, SpoolBacked
<1>9. CASE \E j \in Jobs, x \in Streams : ClearStale(j, x)
  BY <1>0, <1>9, Removal DEF ClearStale
<1>10. ASSUME NEW w \in Workers, PoolThread(w) PROVE SpoolBacked'
  <2>1. UNCHANGED <<live, paths, collectThread>>
    BY <1>10, ThreadFrame
  <2>2. CASE Begin(w)
    <3>1. \A j \in Jobs : tokens'[j] = tokens[j] \/ tokens[j] = NoToken
      BY <1>0, <2>2, BeginToken
    <3>2. \A j \in Jobs, x \in Streams : Withdrawing(j, x) => Withdrawing(j, x)'
      BY <2>1, <3>1 DEF Withdrawing, TypeOK, CollectType
    <3>3. QED
      BY <2>1, <2>2, <3>2 DEF Begin, SpoolBacked, Trusted
  <2>3. CASE Withdraw(w)
    <3>1. job[w] \in Jobs /\ stream[w] \in Streams /\ UNCHANGED tokens
      BY <2>3 DEF Withdraw, WorkerShape, TypeOK, ThreadType
    <3>2. CASE Unpublish(job[w], stream[w])
      BY <1>0, <2>1, <3>1, <3>2, Removal DEF Unpublish
    <3>3. CASE UNCHANGED spool
      BY <2>1, <3>1, <3>3 DEF SpoolBacked, Trusted, Withdrawing
    <3>4. QED
      BY <2>3, <3>2, <3>3 DEF Withdraw
  <2>4. CASE Install(w)
    <3>1. /\ job[w] \in Jobs /\ stream[w] \in Streams /\ UNCHANGED tokens
          /\ spool' = [spool EXCEPT ![job[w]][stream[w]] = temp[job[w]][stream[w]]]
      BY <2>4 DEF Install, WorkerShape, TypeOK, ThreadType
    <3>2. /\ temp[job[w]][stream[w]].seed = seed[w]
          /\ Trusted(job[w], seed[w])
      BY <2>4 DEF Install, WriteLocked, ReadInOrder
    <3>3. \A j \in Jobs, x \in Streams :
            spool'[j][x] = spool[j][x] \/ (j = job[w] /\ spool'[j][x].seed = seed[w])
      BY <3>1, <3>2 DEF TypeOK, DiskType
    <3>4. QED
      BY <2>1, <3>1, <3>2, <3>3 DEF SpoolBacked, Trusted, Withdrawing
  <2>5. CASE Take(w) \/ Finish(w)
    <3>1. UNCHANGED <<tokens, spool>>
      BY <2>5 DEF Take, Finish
    <3>2. QED
      BY <2>1, <3>1 DEF SpoolBacked, Trusted, Withdrawing
  <2>6. CASE ~Take(w) /\ ~Begin(w) /\ ~Finish(w) /\ ~Withdraw(w) /\ ~Install(w)
    <3>1. UNCHANGED <<tokens, spool>>
      BY <1>10, <2>6, TicketFrame, SpoolFrame
    <3>2. QED
      BY <2>1, <3>1 DEF SpoolBacked, Trusted, Withdrawing
  <2>7. QED
    BY <2>2, <2>3, <2>4, <2>5, <2>6
<1>11. CASE Crash
  BY <1>11 DEF Crash, SpoolBacked, Withdrawing
<1>12. CASE World
  <2>1. CASE spool' = spool
    BY <1>11, <1>12, <2>1, WorldFrame DEF SpoolBacked, Trusted, Withdrawing
  <2>2. CASE \E j \in Jobs, x \in Streams : spool' = [spool EXCEPT ![j][x] = Nothing]
    BY <1>0, <1>11, <1>12, <2>2, WorldFrame, Removal
  <2>3. QED
    BY <1>12, <2>1, <2>2, WorldSpool
<1>13. CASE UNCHANGED vars
  BY <1>13 DEF SpoolBacked, Trusted, Withdrawing
<1>14. QED
  BY <1>1, <1>2, <1>3, <1>4, <1>5, <1>6, <1>7, <1>8, <1>9, <1>10, <1>12, <1>13
  DEF Next, CollectThread, ShareLogs

-----------------------------------------------------------------------------
(* The fingerprint of a mirror *)

\* Every step keeps each fingerprint at or behind its mirror.
LEMMA HonestNext == IInv /\ [Next]_vars => FingerprintHonest'
<1> SUFFICES ASSUME IInv, [Next]_vars PROVE FingerprintHonest'
  OBVIOUS
<1> USE DEF memory, trust, mirror, collectThread, ticket, reading, threads, files, others, vars
<1>1. ASSUME \A j \in Jobs, x \in Streams : spool'[j][x] \in {spool[j][x], Nothing},
             \A j \in Jobs, x \in Streams : fingerprint'[j][x] \in {fingerprint[j][x], Nothing}
      PROVE FingerprintHonest'
  BY <1>1 DEF IInv, FingerprintHonest
<1>2. ASSUME NEW j \in Jobs, NEW x \in Streams, Unpublish(j, x) PROVE FingerprintHonest'
  BY <1>1, <1>2 DEF Unpublish, IInv, TypeOK, MemoryType, DiskType
<1>3. ASSUME UNCHANGED <<spool, fingerprint>> PROVE FingerprintHonest'
  BY <1>3 DEF IInv, FingerprintHonest
<1>4. CASE ShareLogs \/ ForgetPaths \/ DropMaps \/ Submit \/ Report \/ Start
  <2>1. ShareLogs => UNCHANGED <<spool, fingerprint>>
    BY DEF ShareLogs, ShareLocked
  <2>2. QED
    BY <1>3, <1>4, <2>1 DEF ForgetPaths, DropMaps, Submit, Report, Start
<1>5. CASE ResetStream
  <2>1. \A r \in resets : r[1] \in Jobs /\ r[2] \in Streams
    BY DEF IInv, TypeOK, CollectType
  <2>2. (\E r \in resets : Unpublish(r[1], r[2])) \/ UNCHANGED <<spool, fingerprint>>
    BY <1>5 DEF ResetStream
  <2>3. QED
    BY <1>2, <1>3, <2>1, <2>2
<1>6. CASE DropFingerprint
  BY <1>1, <1>6 DEF DropFingerprint, IInv, TypeOK, MemoryType, CollectType
<1>7. CASE DropFile
  BY <1>1, <1>7 DEF DropFile, IInv, TypeOK, DiskType, CollectType
<1>8. CASE \E j \in Jobs, x \in Streams : ClearStale(j, x)
  BY <1>1, <1>8 DEF ClearStale, IInv, TypeOK, DiskType
<1>9. ASSUME NEW w \in Workers, PoolThread(w) PROVE FingerprintHonest'
  <2>1. CASE Withdraw(w)
    <3>1. job[w] \in Jobs /\ stream[w] \in Streams
      BY <2>1 DEF Withdraw, IInv, WorkerShape, TypeOK, ThreadType
    <3>2. QED
      BY <1>2, <1>3, <2>1, <3>1 DEF Withdraw
  <2>2. CASE Install(w)
    <3>1. job[w] \in Jobs /\ stream[w] \in Streams
      BY <2>2 DEF Install, IInv, WorkerShape, TypeOK, ThreadType
    <3>2. /\ temp[job[w]][stream[w]] = data[w] /\ data[w].seed = fp[w].seed
          /\ fp[w].ver <= data[w].ver
      BY <2>2 DEF Install, IInv, WriteLocked, ReadInOrder
    <3>3. fp[w].ver \in Nat /\ data[w].ver \in Nat
      BY VersionType DEF IInv, TypeOK, ThreadType
    <3>4. \A j \in Jobs, x \in Streams :
            \/ spool'[j][x] = spool[j][x] /\ fingerprint'[j][x] = fingerprint[j][x]
            \/ spool'[j][x] = data[w] /\ fingerprint'[j][x] = fp[w]
      BY <2>2, <3>1, <3>2 DEF Install, Copied, IInv, TypeOK, DiskType, MemoryType
    <3>5. QED
      BY <3>2, <3>3, <3>4 DEF IInv, FingerprintHonest
  <2>3. CASE ~Withdraw(w) /\ ~Install(w)
    BY <1>3, <1>9, <2>3, SpoolFrame
  <2>4. QED
    BY <2>1, <2>2, <2>3
<1>10. CASE Crash
  BY <1>10 DEF Crash, FingerprintHonest, EachJob, EachStream
<1>11. CASE World
  <2>1. CASE spool' = spool
    BY <1>3, <1>10, <1>11, <2>1, WorldFrame
  <2>2. CASE \E j \in Jobs, x \in Streams : spool' = [spool EXCEPT ![j][x] = Nothing]
    BY <1>1, <1>10, <1>11, <2>2, WorldFrame DEF IInv, TypeOK, DiskType
  <2>3. QED
    BY <1>11, <2>1, <2>2, WorldSpool
<1>12. CASE UNCHANGED vars
  BY <1>3, <1>12
<1>13. QED
  BY <1>4, <1>5, <1>6, <1>7, <1>8, <1>9, <1>11, <1>12 DEF Next, CollectThread

-----------------------------------------------------------------------------
(* Theorems *)

\* The inductive invariant holds of a collector that has just started.
LEMMA InvInit == Init => IInv
<1> SUFFICES ASSUME Init PROVE IInv
  OBVIOUS
<1>1. TypeOK /\ WorkerShape
  BY TypeInit DEF TypeInv
<1>2. CyclePhase /\ Forgotten /\ PathsKept /\ TokenMeansSeed
  BY DEF Init, CyclePhase, Forgotten, PathsKept, TokenMeansSeed, EachJob, EachThread
<1>3. ReadInOrder /\ WriteLocked
  BY DEF Init, ReadInOrder, WriteLocked, EachThread
<1>4. SpoolBacked /\ FingerprintHonest
  BY DEF Init, SpoolBacked, FingerprintHonest, EachJob, EachStream
<1>5. QED
  BY <1>1, <1>2, <1>3, <1>4 DEF IInv

\* Every step preserves the inductive invariant.
LEMMA InvNext == IInv /\ [Next]_vars => IInv'
  BY TypeNext, PhaseNext, PathsNext, ForgottenNext, TokenNext, ReadNext, LockNext, SpoolNext,
     HonestNext
  DEF IInv, TypeInv

\* The inductive invariant holds throughout.
THEOREM Invariance == Spec => []IInv
  BY InvInit, InvNext, PTL DEF Spec

\* Every variable keeps its type whichever thread writes it last.
THEOREM TypeCorrectness == Spec => []TypeOK
<1>1. IInv => TypeOK
  BY DEF IInv
<1>2. QED
  BY <1>1, Invariance, PTL

\* Whatever the threads do in between, a spool file shows a log that the last
\* snapshot trusts its job with, or the running cycle is about to remove it.
THEOREM SpoolIsBacked == Spec => []SpoolBacked
<1>1. IInv => SpoolBacked
  BY DEF IInv
<1>2. QED
  BY <1>1, Invariance, PTL

\* A fingerprint never claims more of a log than the mirror holds.
THEOREM FingerprintsAreHonest == Spec => []FingerprintHonest
<1>1. IInv => FingerprintHonest
  BY DEF IInv
<1>2. QED
  BY <1>1, Invariance, PTL

-----------------------------------------------------------------------------
(* One thread per job: the in-flight mark is a lock on the job *)

\* Whatever is queued or running is marked in flight, and what the collect
\* thread is about to submit is marked but neither queued nor running.
Claimed ==
  /\ pc \in {"boot", "idle"} => todo = {}
  /\ todo \subseteq inflight
  /\ \A w \in Workers : /\ at[w] = "idle" => job[w] = NoJob
                        /\ job[w] \in Jobs => job[w] \in inflight \ todo
  /\ \A i \in 1..Len(queue) : queue[i] \in inflight \ todo

ClaimInv == TypeInv /\ Claimed /\ OneMirrorPerJob

\* Every step keeps the in-flight marks exclusive.
LEMMA ClaimNext == ClaimInv /\ [Next]_vars => Claimed' /\ OneMirrorPerJob'
<1> SUFFICES ASSUME ClaimInv, [Next]_vars PROVE Claimed' /\ OneMirrorPerJob'
  OBVIOUS
<1> USE ThreadAssumption
    DEF memory, trust, mirror, collectThread, ticket, reading, threads, files, others, vars
<1>1. ASSUME NEW now \in SUBSET Jobs, NEW meta \in [now -> Seeds \cup {NoSeed}],
             ShareLocked(meta)
      PROVE Claimed' /\ OneMirrorPerJob'
  <2>1. /\ todo = {} /\ UNCHANGED <<queue, at, job>>
        /\ inflight' = inflight \cup todo' /\ todo' \cap inflight = {} /\ pc' = "cycle"
    BY <1>1 DEF ShareLocked, Due, ClaimInv, Claimed
  <2>2. QED
    BY <2>1 DEF ClaimInv, Claimed, OneMirrorPerJob
<1>2. CASE \/ ResetStream \/ ForgetPaths \/ DropMaps \/ DropFingerprint \/ DropFile \/ Report
           \/ Start
  <2>1. UNCHANGED <<inflight, todo, queue, at, job>>
    BY <1>2
    DEF ResetStream, ForgetPaths, DropMaps, DropFingerprint, DropFile, Report, Start
  <2>2. pc' \in {"boot", "idle"} => todo' = {}
    BY <1>2
    DEF ResetStream, ForgetPaths, DropMaps, DropFingerprint, DropFile, Report, Start, ClaimInv,
        Claimed
  <2>3. QED
    BY <2>1, <2>2 DEF ClaimInv, Claimed, OneMirrorPerJob
<1>3. CASE Submit
  <2>1. PICK j \in todo : queue' = Append(queue, j) /\ todo' = todo \ {j}
    BY <1>3 DEF Submit
  <2>2. UNCHANGED <<inflight, pc, at, job>> /\ pc = "cycle"
    BY <1>3 DEF Submit
  <2>3. queue \in Seq(Jobs) /\ j \in Jobs
    BY DEF ClaimInv, TypeInv, TypeOK, CollectType
  <2>4. /\ Len(queue') = Len(queue) + 1 /\ queue'[Len(queue) + 1] = j
        /\ \A i \in 1..Len(queue) : queue'[i] = queue[i]
        /\ Len(queue) \in Nat
    BY <2>1, <2>3
  <2>5. Claimed'
    BY <2>1, <2>2, <2>4 DEF ClaimInv, Claimed
  <2>6. \A i, k \in 1..Len(queue') : i # k => queue'[i] # queue'[k]
    BY <2>4 DEF ClaimInv, Claimed, OneMirrorPerJob
  <2>7. \A i \in 1..Len(queue'), w \in Workers : queue'[i] # job[w]
    BY <2>3, <2>4 DEF ClaimInv, Claimed, OneMirrorPerJob
  <2>8. QED
    BY <2>2, <2>5, <2>6, <2>7 DEF ClaimInv, OneMirrorPerJob
<1>4. CASE \E j \in Jobs, x \in Streams : ClearStale(j, x)
  BY <1>4 DEF ClearStale, ClaimInv, Claimed, OneMirrorPerJob
<1>5. ASSUME NEW w \in Workers, PoolThread(w) PROVE Claimed' /\ OneMirrorPerJob'
  <2>1. UNCHANGED <<pc, todo>>
    BY <1>5, ThreadFrame
  <2>2. CASE Take(w)
    <3>1. /\ at[w] = "idle" /\ at' = [at EXCEPT ![w] = "taken"]
          /\ job' = [job EXCEPT ![w] = Head(queue)] /\ queue' = Tail(queue)
          /\ inflight' = inflight /\ queue \in Seq(Jobs) /\ queue # <<>>
      BY <2>2 DEF Take, Goto, ClaimInv, TypeInv, TypeOK, CollectType
    <3>2. /\ Len(queue) \in Nat \ {0} /\ Len(queue') = Len(queue) - 1 /\ Head(queue) = queue[1]
          /\ \A i \in 1..Len(queue') : queue'[i] = queue[i + 1]
      BY <3>1
    <3>3. job'[w] = queue[1] /\ \A v \in Workers \ {w} : job'[v] = job[v] /\ at'[v] = at[v]
      BY <3>1, <3>2 DEF ClaimInv, TypeInv, TypeOK, ThreadType
    <3>4. at'[w] = "taken"
      BY <3>1 DEF ClaimInv, TypeInv, TypeOK, ThreadType
    <3>5. Claimed'
      <4>1. \A i \in 1..Len(queue) : queue[i] \in inflight' \ todo'
        BY <2>1, <3>1 DEF ClaimInv, Claimed
      <4>2. \A i \in 1..Len(queue') : i + 1 \in 1..Len(queue)
        BY <3>2
      <4>3. queue[1] \in inflight' \ todo'
        BY <3>2, <4>1
      <4>4. \A i \in 1..Len(queue') : queue'[i] \in inflight' \ todo'
        BY <3>2, <4>1, <4>2
      <4>5. \A v \in Workers : /\ at'[v] = "idle" => job'[v] = NoJob
                               /\ job'[v] \in Jobs => job'[v] \in inflight' \ todo'
        BY <2>1, <3>1, <3>3, <3>4, <4>3 DEF ClaimInv, Claimed
      <4>6. QED
        BY <2>1, <3>1, <4>4, <4>5 DEF ClaimInv, Claimed
    <3>6. \A u, v \in Workers : u # v /\ job'[u] \in Jobs => job'[u] # job'[v]
      BY <3>2, <3>3 DEF ClaimInv, OneMirrorPerJob
    <3>7. \A i, k \in 1..Len(queue') : i # k => queue'[i] # queue'[k]
      BY <3>2 DEF ClaimInv, OneMirrorPerJob
    <3>8. \A i \in 1..Len(queue'), v \in Workers : queue'[i] # job'[v]
      BY <3>2, <3>3 DEF ClaimInv, OneMirrorPerJob
    <3>9. QED
      BY <3>5, <3>6, <3>7, <3>8 DEF OneMirrorPerJob
  <2>3. CASE Finish(w)
    <3>1. /\ at[w] = "finally" /\ at' = [at EXCEPT ![w] = "idle"]
          /\ job' = [job EXCEPT ![w] = NoJob] /\ queue' = queue
          /\ inflight' = inflight \ {job[w]}
      BY <2>3 DEF Finish, Goto
    <3>2. job[w] \in Jobs
      BY <3>1 DEF ClaimInv, TypeInv, WorkerShape
    <3>3. /\ job'[w] = NoJob /\ at'[w] = "idle"
          /\ \A v \in Workers \ {w} : job'[v] = job[v] /\ at'[v] = at[v]
      BY <3>1 DEF ClaimInv, TypeInv, TypeOK, ThreadType
    <3>4. Claimed'
      BY <2>1, <3>1, <3>2, <3>3 DEF ClaimInv, Claimed, OneMirrorPerJob
    <3>5. \A i \in 1..Len(queue) : queue[i] \in Jobs
      BY DEF ClaimInv, TypeInv, TypeOK, CollectType
    <3>6. QED
      BY <3>1, <3>3, <3>4, <3>5 DEF ClaimInv, OneMirrorPerJob
  <2>4. CASE ~Take(w) /\ ~Finish(w)
    <3>1. UNCHANGED <<inflight, queue, job>>
      BY <1>5, <2>4, JobFrame DEF ClaimInv, TypeInv
    <3>2. \A v \in Workers : at'[v] = "idle" => at[v] = "idle"
      BY <1>5, <2>4, JobFrame DEF ClaimInv, TypeInv
    <3>3. QED
      BY <2>1, <3>1, <3>2 DEF ClaimInv, Claimed, OneMirrorPerJob
  <2>5. QED
    BY <2>2, <2>3, <2>4
<1>6. CASE Crash
  BY <1>6 DEF Crash, Claimed, OneMirrorPerJob, EachThread
<1>7. CASE World
  BY <1>6, <1>7, WorldFrame DEF ClaimInv, Claimed, OneMirrorPerJob
<1>8. CASE UNCHANGED vars
  BY <1>8 DEF ClaimInv, Claimed, OneMirrorPerJob
<1>9. QED
  BY <1>1, <1>2, <1>3, <1>4, <1>5, <1>7, <1>8 DEF Next, CollectThread, ShareLogs

\* A job never waits in the pool's backlog twice, nor runs in two threads, nor
\* both, for any number of jobs and threads.
THEOREM OneMirror == Spec => []OneMirrorPerJob
<1>1. Init => ClaimInv
  <2>1. Init => Claimed /\ OneMirrorPerJob
    BY ThreadAssumption DEF Init, Claimed, OneMirrorPerJob, EachThread
  <2>2. QED
    BY <2>1, TypeInit DEF ClaimInv
<1>2. ClaimInv /\ [Next]_vars => ClaimInv'
  BY ClaimNext, TypeNext DEF ClaimInv
<1>3. ClaimInv => OneMirrorPerJob
  BY DEF ClaimInv
<1>4. QED
  BY <1>1, <1>2, <1>3, PTL DEF Spec

-----------------------------------------------------------------------------
(* What a job leaves behind *)

Bare(j) ==
  /\ paths[j] = NoSeed /\ j \notin owned
  /\ published[j] = {} /\ nextCheck[j] = "none"
  /\ status[j] = EachStream(NoStatus)

Erased(j, x) == fingerprint[j][x] = Nothing /\ (pc # "boot" => spool[j][x] = Nothing)

\* A job that is neither listed nor being forgotten has left no trace, and one
\* that is being forgotten has none left but what the collect thread has yet to drop.
Cleaned ==
  /\ pc = "boot" => live = {}
  /\ \A j \in Jobs \ (live \cup gone) : Bare(j) /\ \A x \in Streams : Erased(j, x)
  /\ pc = "forget" => \A d \in dropping, x \in Streams : <<d[1], x>> \in dropping
  /\ pc \in {"drop", "unlink"} =>
       \A d \in dropping : /\ Bare(d[1])
                           /\ \A x \in Streams : <<d[1], x>> \notin dropping => Erased(d[1], x)
  /\ pc = "unlink" =>
       \A d \in dropping : (d[2] = "err" => <<d[1], "out">> \notin dropping)
                             => fingerprint[d[1]][d[2]] = Nothing

\* A step that adds nothing to the maps of a job that is not listed.
AddsNothing ==
  \A j \in Jobs \ live :
    /\ published'[j] \subseteq published[j]
    /\ nextCheck[j] = "none" => nextCheck'[j] = "none"
    /\ status'[j] = status[j]
    /\ \A x \in Streams : /\ fingerprint'[j][x] \in {fingerprint[j][x], Nothing}
                          /\ spool'[j][x] \in {spool[j][x], Nothing}

\* Such a step leaves no trace where there was none.
LEMMA CleanedKept ==
  ASSUME IInv, Cleaned, AddsNothing, UNCHANGED <<live, paths, owned, collectThread>>
  PROVE  Cleaned'
<1> USE DEF collectThread
<1>1. \A j \in Jobs \ live : Bare(j) => Bare(j)'
  BY DEF AddsNothing, Bare
<1>2. \A j \in Jobs \ live, x \in Streams :
        /\ Erased(j, x) => Erased(j, x)'
        /\ fingerprint[j][x] = Nothing => fingerprint'[j][x] = Nothing
  BY DEF AddsNothing, Erased
<1>3. \A d \in dropping : d[1] \in Jobs \ live /\ d[2] \in Streams
  BY DEF IInv, Forgotten, CyclePhase, TypeOK, CollectType
<1>4. QED
  BY <1>1, <1>2, <1>3 DEF Cleaned

\* A late thread never writes into the maps of a job that is not listed any more.
LEMMA ThreadAddsNothing ==
  ASSUME IInv, NEW w \in Workers, PoolThread(w)
  PROVE  AddsNothing
<1> USE DEF memory, trust, mirror, collectThread, ticket, reading, threads, files, others, IInv,
            TypeOK, MemoryType, DiskType
<1>1. CASE UNCHANGED <<mirror, nextCheck, status, spool>>
  BY <1>1 DEF AddsNothing
<1>2. \A x \in Streams : \A st : SetStatus(w, x, st) => \A j \in Jobs \ live : status'[j] = status[j]
  BY DEF SetStatus, Current
<1>3. CASE Refuse(w) \/ SkipStream(w) \/ PublishStatus(w)
  <2>1. UNCHANGED <<mirror, nextCheck, spool>> /\ \E x \in Streams : \E st : SetStatus(w, x, st)
    BY <1>3 DEF Refuse, SkipStream, PublishStatus, ThreadType
  <2>2. QED
    BY <1>2, <2>1 DEF AddsNothing
<1>4. CASE Withdraw(w)
  <2>1. job[w] \in Jobs /\ stream[w] \in Streams
    BY <1>4 DEF Withdraw, WorkerShape, ThreadType
  <2>2. UNCHANGED <<nextCheck, status>>
    BY <1>4 DEF Withdraw
  <2>3. CASE Unpublish(job[w], stream[w])
    BY <2>1, <2>2, <2>3 DEF Unpublish, AddsNothing
  <2>4. CASE UNCHANGED <<mirror, spool>>
    BY <2>2, <2>4 DEF AddsNothing
  <2>5. QED
    BY <1>4, <2>3, <2>4 DEF Withdraw
<1>5. CASE Republish(w)
  BY <1>5 DEF Republish, Current, AddsNothing
<1>6. CASE Install(w)
  <2>1. job[w] \in live
    BY <1>6 DEF Install, WriteLocked, Current
  <2>2. QED
    BY <1>6, <2>1 DEF Install, AddsNothing
<1>7. CASE BackOff(w)
  BY <1>7 DEF BackOff, Current, AddsNothing
<1>8. CASE \/ Take(w) \/ Begin(w) \/ ReadPrior(w) \/ ReadKnown(w) \/ Stat(w) \/ ReadAsOwner(w)
           \/ ReadTail(w) \/ ReadFails(w) \/ KeepMirror(w) \/ WriteTemp(w) \/ WriteFails(w)
           \/ Finish(w)
  BY <1>1, <1>8
  DEF Take, Begin, ReadPrior, ReadKnown, Stat, ReadAsOwner, ReadTail, ReadFails, Reject,
      KeepMirror, WriteTemp, WriteFails, Finish
<1>9. QED
  BY <1>3, <1>4, <1>5, <1>6, <1>7, <1>8 DEF PoolThread

\* Every step keeps the traces of jobs that left within what is still to be dropped.
LEMMA CleanedNext == IInv /\ Cleaned /\ [Next]_vars => Cleaned'
<1> SUFFICES ASSUME IInv, Cleaned, [Next]_vars PROVE Cleaned'
  OBVIOUS
<1> USE DEF memory, trust, mirror, collectThread, ticket, reading, threads, files, others, vars
<1>1. ASSUME NEW now \in SUBSET Jobs, NEW meta \in [now -> Seeds \cup {NoSeed}],
             ShareLocked(meta)
      PROVE Cleaned'
  <2>1. /\ pc = "idle" /\ pc' = "cycle" /\ gone = {} /\ DOMAIN meta = now
        /\ live' = now /\ gone' = Known \ now /\ UNCHANGED <<mirror, spool, dropping>>
    BY <1>1 DEF ShareLocked, IInv, CyclePhase
  <2>2. \A j \in Jobs \ (live' \cup gone') : Bare(j) /\ \A x \in Streams : Erased(j, x)
    BY <2>1 DEF Known, Cleaned
  <2>3. \A j \in Jobs \ now : /\ paths'[j] = paths[j] /\ (j \notin owned => j \notin owned')
                              /\ status'[j] = status[j] /\ nextCheck'[j] = nextCheck[j]
    BY <1>1, <2>1 DEF ShareLocked, Due
  <2>4. \A j \in Jobs \ (live' \cup gone') : Bare(j)' /\ \A x \in Streams : Erased(j, x)'
    BY <2>1, <2>2, <2>3 DEF Bare, Erased
  <2>5. QED
    BY <2>1, <2>4 DEF Cleaned
<1>2. CASE ResetStream
  <2>1. PICK r \in resets :
          IF tokens[r[1]] = r[3] THEN Unpublish(r[1], r[2])
          ELSE UNCHANGED <<published, fingerprint, spool>>
    BY <1>2 DEF ResetStream
  <2>2. r[1] \in Jobs /\ r[2] \in Streams
    BY DEF IInv, TypeOK, CollectType
  <2>3. /\ \A j \in Jobs : published'[j] \subseteq published[j]
        /\ \A j \in Jobs, x \in Streams : /\ fingerprint'[j][x] \in {fingerprint[j][x], Nothing}
                                          /\ spool'[j][x] \in {spool[j][x], Nothing}
    <3>1. CASE Unpublish(r[1], r[2])
      <4>1. \A j \in Jobs : published'[j] \subseteq published[j]
        BY <2>2, <3>1 DEF Unpublish, IInv, TypeOK, MemoryType
      <4>2. \A j \in Jobs, x \in Streams : fingerprint'[j][x] \in {fingerprint[j][x], Nothing}
        BY <2>2, <3>1 DEF Unpublish, IInv, TypeOK, MemoryType
      <4>3. \A j \in Jobs, x \in Streams : spool'[j][x] \in {spool[j][x], Nothing}
        BY <2>2, <3>1 DEF Unpublish, IInv, TypeOK, DiskType
      <4>4. QED
        BY <4>1, <4>2, <4>3
    <3>2. CASE UNCHANGED <<published, fingerprint, spool>>
      BY <3>2
    <3>3. QED
      BY <2>1, <3>1, <3>2
  <2>4. UNCHANGED <<live, paths, owned, status, nextCheck, pc, gone, dropping>> /\ pc = "cycle"
    BY <1>2 DEF ResetStream
  <2>5. QED
    BY <2>3, <2>4 DEF Cleaned, Bare, Erased
<1>3. CASE ForgetPaths
  <2>1. /\ pc = "cycle" /\ pc' = "forget" /\ \E i \in gone : paths' = [paths EXCEPT ![i] = NoSeed]
        /\ UNCHANGED <<live, owned, mirror, status, nextCheck, gone, spool>>
    BY <1>3 DEF ForgetPaths
  <2>2. \A j \in Jobs \ (live \cup gone) : paths'[j] = paths[j]
    BY <2>1 DEF IInv, TypeOK, MemoryType
  <2>3. \A d \in dropping', x \in Streams : <<d[1], x>> \in dropping'
    BY <1>3 DEF ForgetPaths
  <2>4. QED
    BY <2>1, <2>2, <2>3 DEF Cleaned, Bare, Erased
<1>4. CASE DropMaps
  <2>1. PICK i \in {d[1] : d \in dropping} :
          /\ published' = [published EXCEPT ![i] = {}]
          /\ nextCheck' = [nextCheck EXCEPT ![i] = "none"]
          /\ owned' = owned \ {i}
          /\ status' = [status EXCEPT ![i] = EachStream(NoStatus)]
          /\ live' = live \ {i}
    BY <1>4 DEF DropMaps
  <2>2. /\ pc = "forget" /\ pc' = "drop"
        /\ UNCHANGED <<paths, fingerprint, gone, dropping, spool, resets>>
    BY <1>4 DEF DropMaps
  <2>3. /\ i \in gone \ live /\ i \in Jobs /\ paths[i] = NoSeed
        /\ \A d \in dropping : d[1] = i
    BY <2>1 DEF IInv, Forgotten, CyclePhase, TypeOK, CollectType
  <2>4. live' = live
    BY <2>1, <2>3
  <2>5. Bare(i)'
    BY <2>1, <2>2, <2>3 DEF Bare, IInv, TypeOK, MemoryType
  <2>6. \A j \in Jobs \ {i} : Bare(j) => Bare(j)'
    BY <2>1, <2>2 DEF Bare, IInv, TypeOK, MemoryType
  <2>7. \A j \in Jobs, x \in Streams : Erased(j, x) => Erased(j, x)'
    BY <2>2 DEF Erased
  <2>8. \A x \in Streams : <<i, x>> \in dropping
    BY <2>1, <2>2, <2>3 DEF Cleaned
  <2>9. QED
    BY <2>2, <2>3, <2>4, <2>5, <2>6, <2>7, <2>8 DEF Cleaned
<1>5. CASE DropFingerprint
  <2>1. PICK e \in dropping :
          /\ e[2] = "err" => <<e[1], "out">> \notin dropping
          /\ fingerprint' = [fingerprint EXCEPT ![e[1]][e[2]] = Nothing]
    BY <1>5 DEF DropFingerprint
  <2>2. /\ pc = "drop" /\ pc' = "unlink"
        /\ UNCHANGED <<trust, published, status, nextCheck, gone, dropping, spool>>
    BY <1>5 DEF DropFingerprint
  <2>3. \A d \in dropping : d[1] \in Jobs /\ d[2] \in Streams /\ d = <<d[1], d[2]>> /\ d[1] = e[1]
    BY <2>1 DEF IInv, Forgotten, TypeOK, CollectType
  <2>4. /\ fingerprint'[e[1]][e[2]] = Nothing
        /\ \A j \in Jobs, x \in Streams : fingerprint[j][x] = Nothing => fingerprint'[j][x] = Nothing
    BY <2>1, <2>3 DEF IInv, TypeOK, MemoryType
  <2>5. \A d \in dropping : (d[2] = "err" => <<d[1], "out">> \notin dropping) => d = e
    BY <2>1, <2>3 DEF Streams
  <2>6. QED
    BY <2>2, <2>3, <2>4, <2>5 DEF Cleaned, Bare, Erased
<1>6. CASE DropFile
  <2>1. PICK e \in dropping :
          /\ e[2] = "err" => <<e[1], "out">> \notin dropping
          /\ spool' = [spool EXCEPT ![e[1]][e[2]] = Nothing]
          /\ dropping' = dropping \ {e}
          /\ IF dropping = {e} THEN pc' = "cycle" /\ gone' = gone \ {e[1]}
             ELSE pc' = "drop" /\ gone' = gone
    BY <1>6 DEF DropFile
  <2>2. pc = "unlink" /\ UNCHANGED memory
    BY <1>6 DEF DropFile
  <2>3. \A d \in dropping : d[1] \in Jobs /\ d[2] \in Streams /\ d = <<d[1], d[2]>> /\ d[1] = e[1]
    BY <2>1 DEF IInv, Forgotten, TypeOK, CollectType
  <2>4. /\ spool'[e[1]][e[2]] = Nothing
        /\ \A j \in Jobs, x \in Streams : spool[j][x] = Nothing => spool'[j][x] = Nothing
    BY <2>1, <2>3 DEF IInv, TypeOK, DiskType
  <2>5. \A j \in Jobs : Bare(j) => Bare(j)'
    BY <2>2 DEF Bare
  <2>6. \A j \in Jobs, x \in Streams : Erased(j, x) => Erased(j, x)'
    BY <2>1, <2>2, <2>4 DEF Erased
  <2>7. Bare(e[1]) /\ Erased(e[1], e[2])'
    BY <2>1, <2>2, <2>3, <2>4 DEF Cleaned, Erased
  <2>8. \A x \in Streams : <<e[1], x>> \notin dropping' => Erased(e[1], x)'
    BY <2>1, <2>2, <2>3, <2>6, <2>7 DEF Cleaned
  <2>9. /\ live' = live /\ e[1] \notin live /\ pc' \in {"cycle", "drop"}
        /\ gone' \subseteq gone /\ gone \subseteq gone' \cup {e[1]}
    BY <2>1, <2>2 DEF IInv, Forgotten, CyclePhase
  <2>10. CASE dropping = {e}
    <3>1. \A x \in Streams : Erased(e[1], x)'
      BY <2>1, <2>8, <2>10
    <3>2. QED
      BY <2>1, <2>2, <2>5, <2>6, <2>7, <2>9, <2>10, <3>1 DEF Cleaned
  <2>11. CASE dropping # {e}
    BY <2>1, <2>2, <2>3, <2>5, <2>6, <2>7, <2>8, <2>9, <2>11 DEF Cleaned
  <2>12. QED
    BY <2>10, <2>11
<1>7. CASE Submit \/ Report
  BY <1>7 DEF Submit, Report, Cleaned, Bare, Erased, IInv, CyclePhase
<1>8. CASE Start
  BY <1>8 DEF Start, Cleared, Cleaned, Bare, Erased
<1>9. CASE \E j \in Jobs, x \in Streams : ClearStale(j, x)
  BY <1>9 DEF ClearStale, Cleaned, Bare, Erased
<1>10. CASE \E w \in Workers : PoolThread(w)
  BY <1>10, ThreadAddsNothing, ThreadFrame, CleanedKept
<1>11. CASE Crash
  BY <1>11 DEF Crash, Cleaned, Bare, Erased, EachJob, EachStream
<1>12. CASE World /\ ~Crash
  <2>1. UNCHANGED <<live, paths, owned, collectThread, mirror>>
    BY <1>12, WorldFrame
  <2>2. UNCHANGED status /\ \A j \in Jobs : nextCheck[j] = "none" => nextCheck'[j] = "none"
    BY <1>12 DEF World, Elapse, Grow, Break, Heal, LoseFile, IInv, TypeOK, MemoryType
  <2>3. \A j \in Jobs, x \in Streams : spool'[j][x] \in {spool[j][x], Nothing}
    BY <1>12, WorldSpool DEF IInv, TypeOK, DiskType
  <2>4. QED
    BY <2>1, <2>2, <2>3, CleanedKept DEF AddsNothing
<1>13. CASE UNCHANGED vars
  BY <1>13 DEF Cleaned, Bare, Erased
<1>14. QED
  BY <1>1, <1>2, <1>3, <1>4, <1>5, <1>6, <1>7, <1>8, <1>9, <1>10, <1>11, <1>12, <1>13
  DEF Next, CollectThread, ShareLogs

\* What is left in the maps and the spool between two cycles belongs to a listed
\* job, for any number of jobs and however late their threads come.
THEOREM NothingIsKept == Spec => []NothingKept
<1>1. Init => Cleaned
  BY DEF Init, Cleaned, Bare, Erased, EachJob, EachStream
<1>2. IInv /\ Cleaned => NothingKept
  <2> SUFFICES ASSUME IInv, Cleaned, pc = "idle", NEW j \in Jobs \ live
               PROVE  /\ Bare(j) /\ fingerprint[j] = EachStream(Nothing)
                      /\ spool[j] = EachStream(Nothing)
    BY DEF NothingKept, Bare
  <2>1. Bare(j) /\ \A x \in Streams : fingerprint[j][x] = Nothing /\ spool[j][x] = Nothing
    BY DEF IInv, CyclePhase, Cleaned, Erased
  <2>2. /\ fingerprint[j] \in [Streams -> MaybeTails] /\ spool[j] \in [Streams -> MaybeTails]
    BY DEF IInv, TypeOK, MemoryType, DiskType
  <2>3. QED
    BY <2>1, <2>2 DEF EachStream
<1>3. QED
  BY <1>1, <1>2, CleanedNext, Invariance, PTL DEF Spec

-----------------------------------------------------------------------------
(* A mirror is never replaced by an older tail *)

\* A mirror is no newer than the file it was read from, and what a thread is about
\* to install is no older than the mirror of the same record that it replaces.
InStep ==
  /\ \A j \in Jobs, x \in Streams :
       spool[j][x] # Nothing => spool[j][x].ver <= source[spool[j][x].seed][x].ver
  /\ \A w \in Workers :
       at[w] \in {"status", "write", "install"} /\ data[w] # Nothing =>
         /\ data[w].seed = seed[w]
         /\ data[w].ver <= source[seed[w]][stream[w]].ver
         /\ spool[job[w]][stream[w]].seed = seed[w]
              => spool[job[w]][stream[w]].ver <= data[w].ver

\* Log files only grow.
LEMMA SourceGrows ==
  ASSUME TypeInv, [Next]_vars, NEW s \in Seeds, NEW x \in Streams
  PROVE  /\ source[s][x].ver \in Nat /\ source'[s][x].ver \in Nat
         /\ source[s][x].ver <= source'[s][x].ver
<1> USE DEF memory, trust, mirror, collectThread, ticket, reading, threads, files, others, vars
<1>1. source[s][x].ver \in Nat /\ source'[s][x].ver \in Nat
  BY TypeNext DEF TypeInv, TypeOK, DiskType
<1>2. CASE source' = source
  BY <1>1, <1>2
<1>3. ASSUME NEW t \in Seeds, NEW y \in Configured[t], Grow(t, y) \/ Break(t, y) \/ Heal(t, y)
      PROVE source[s][x].ver <= source'[s][x].ver
  <2>1. source \in [Seeds -> [Streams -> LogFile]] /\ y \in Streams
    BY ConfiguredType DEF TypeInv, TypeOK, DiskType, LogFile
  <2>2. CASE Grow(t, y)
    BY <1>1, <2>1, <2>2 DEF Grow
  <2>3. CASE Break(t, y)
    BY <1>1, <2>1, <2>3 DEF Break
  <2>4. CASE Heal(t, y)
    BY <1>1, <2>1, <2>4 DEF Heal
  <2>5. QED
    BY <1>3, <2>2, <2>3, <2>4
<1>4. ASSUME NEW w \in Workers, PoolThread(w) PROVE source' = source
  BY <1>4
  DEF PoolThread, Take, Begin, Refuse, ReadPrior, SkipStream, ReadKnown, Stat, ReadAsOwner,
      ReadTail, ReadFails, Reject, PublishStatus, Withdraw, KeepMirror, Republish, WriteTemp,
      Install, WriteFails, BackOff, Finish
<1>5. Crash \/ (\E j \in Jobs : Elapse(j)) \/ (\E j \in Jobs, y \in Streams : LoseFile(j, y))
        => source' = source
  BY DEF Crash, Elapse, LoseFile
<1>6. QED
  BY <1>1, <1>2, <1>3, <1>4, <1>5, CollectFrame DEF Next, World

\* The locals of a thread.
Local(v) == <<at[v], job[v], seed[v], stream[v], data[v]>>

\* A step of one thread leaves the locals of every other one alone.
LEMMA LocalFrame ==
  ASSUME TypeInv, NEW w \in Workers, PoolThread(w)
  PROVE  \A v \in Workers \ {w} : Local(v)' = Local(v)
<1> USE DEF memory, trust, mirror, collectThread, ticket, reading, threads, files, others,
            TypeInv, TypeOK, ThreadType, Goto, Local
<1>1. CASE Take(w) \/ Begin(w) \/ Refuse(w) \/ ReadPrior(w) \/ ReadKnown(w)
  BY <1>1 DEF Take, Begin, Refuse, ReadPrior, ReadKnown
<1>2. CASE SkipStream(w) \/ Withdraw(w) \/ KeepMirror(w) \/ Republish(w)
  BY <1>2 DEF SkipStream, Withdraw, KeepMirror, Republish, NextStream
<1>3. CASE Stat(w) \/ ReadAsOwner(w) \/ ReadTail(w) \/ ReadFails(w)
  BY <1>3 DEF Stat, ReadAsOwner, ReadTail, ReadFails, Reject
<1>4. CASE PublishStatus(w) \/ WriteTemp(w) \/ Install(w) \/ WriteFails(w)
  BY <1>4 DEF PublishStatus, WriteTemp, Install, WriteFails, NextStream
<1>5. CASE BackOff(w) \/ Finish(w)
  BY <1>5 DEF BackOff, Finish
<1>6. QED
  BY <1>1, <1>2, <1>3, <1>4, <1>5 DEF PoolThread

\* A thread about to write has just read what it holds, or held it already.
LEMMA HeldFrame ==
  ASSUME IInv, NEW w \in Workers, PoolThread(w),
         at'[w] \in {"status", "write", "install"}, data'[w] # Nothing
  PROVE  /\ UNCHANGED <<job, seed, stream, spool>>
         /\ at[w] \in Mirroring
         /\ \/ data'[w] = Observed(w)
            \/ at[w] \in {"status", "write", "install"} /\ data'[w] = data[w]
<1> USE DEF memory, trust, mirror, collectThread, ticket, reading, threads, files, others,
            IInv, TypeOK, ThreadType, Goto, Mirroring
<1>1. CASE Take(w) \/ Begin(w) \/ Refuse(w) \/ ReadPrior(w) \/ ReadKnown(w)
  BY <1>1 DEF Take, Begin, Refuse, ReadPrior, ReadKnown
<1>2. CASE SkipStream(w) \/ Withdraw(w) \/ KeepMirror(w) \/ Republish(w) \/ Install(w)
  BY <1>2 DEF SkipStream, Withdraw, KeepMirror, Republish, Install, NextStream
<1>3. CASE Stat(w) \/ ReadAsOwner(w) \/ ReadTail(w) \/ ReadFails(w)
  <2>1. at[w] \in {"stat", "read"} /\ data[w] = Nothing /\ UNCHANGED <<job, seed, stream, spool>>
    BY <1>3 DEF Stat, ReadAsOwner, ReadTail, ReadFails, ReadInOrder
  <2>2. data' = data \/ data' = [data EXCEPT ![w] = Observed(w)]
    BY <1>3 DEF Stat, ReadAsOwner, ReadTail, ReadFails, Reject
  <2>3. QED
    BY <2>1, <2>2
<1>4. CASE PublishStatus(w)
  BY <1>4 DEF PublishStatus
<1>5. CASE WriteTemp(w)
  <2>1. CASE ~Current(w)
    BY <1>5, <2>1 DEF WriteTemp, NextStream
  <2>2. CASE Current(w)
    BY <1>5, <2>2 DEF WriteTemp
  <2>3. QED
    BY <2>1, <2>2
<1>6. CASE WriteFails(w) \/ BackOff(w) \/ Finish(w)
  BY <1>6 DEF WriteFails, BackOff, Finish, OnError
<1>7. QED
  BY <1>1, <1>2, <1>3, <1>4, <1>5, <1>6 DEF PoolThread

\* The spool changes by losing a file or by one thread's Install.
LEMMA SpoolSteps ==
  ASSUME IInv, [Next]_vars
  PROVE  \/ \A j \in Jobs, x \in Streams : spool'[j][x] \in {spool[j][x], Nothing}
         \/ \E w \in Workers : Install(w)
<1> USE DEF memory, trust, mirror, collectThread, ticket, reading, threads, files, others, vars,
            IInv, TypeOK, DiskType
<1>1. CASE spool' = spool
  BY <1>1
<1>2. CASE \E j \in Jobs, x \in Streams : spool' = [spool EXCEPT ![j][x] = Nothing]
  BY <1>2
<1>3. CollectThread => \/ spool' = spool
                       \/ \E j \in Jobs, x \in Streams : spool' = [spool EXCEPT ![j][x] = Nothing]
  <2>1. ShareLogs => spool' = spool
    BY DEF ShareLogs, ShareLocked
  <2>2. ResetStream => \/ spool' = spool
                       \/ \E r \in resets : spool' = [spool EXCEPT ![r[1]][r[2]] = Nothing]
    BY DEF ResetStream, Unpublish
  <2>3. DropFile => \E d \in dropping : spool' = [spool EXCEPT ![d[1]][d[2]] = Nothing]
    BY DEF DropFile
  <2>4. \/ ForgetPaths \/ DropMaps \/ DropFingerprint \/ Submit \/ Report \/ Start => spool' = spool
    BY DEF ForgetPaths, DropMaps, DropFingerprint, Submit, Report, Start
  <2>5. (\A r \in resets : r[1] \in Jobs /\ r[2] \in Streams)
        /\ (\A d \in dropping : d[1] \in Jobs /\ d[2] \in Streams)
    BY DEF CollectType
  <2>6. QED
    BY <2>1, <2>2, <2>3, <2>4, <2>5 DEF CollectThread, ClearStale
<1>4. ASSUME NEW w \in Workers, Withdraw(w)
      PROVE  \/ spool' = spool
             \/ \E j \in Jobs, x \in Streams : spool' = [spool EXCEPT ![j][x] = Nothing]
  <2>1. job[w] \in Jobs /\ stream[w] \in Streams
    BY <1>4 DEF Withdraw, WorkerShape, ThreadType
  <2>2. QED
    BY <1>4, <2>1 DEF Withdraw, Unpublish
<1>5. QED
  BY <1>1, <1>2, <1>3, <1>4, SpoolFrame, WorldSpool DEF Next

\* No step makes a mirror newer than its file, or outdates what a thread is about to
\* install: only one thread works on a job.
LEMMA InStepNext == IInv /\ OneMirrorPerJob /\ InStep /\ [Next]_vars => InStep'
<1> SUFFICES ASSUME IInv, OneMirrorPerJob, InStep, [Next]_vars PROVE InStep'
  OBVIOUS
<1> USE SeedAssumption
    DEF memory, trust, mirror, collectThread, ticket, reading, threads, files, others, vars
<1>0. TypeInv /\ IInv'
  BY InvNext DEF IInv, TypeInv
<1>1. \A j \in Jobs, x \in Streams :
        /\ spool[j][x].ver \in Nat /\ spool[j][x] # Nothing => spool[j][x].seed \in Seeds
        /\ spool'[j][x].ver \in Nat
  BY <1>0, DataTypes, VersionType DEF IInv, TypeOK, DiskType
<1>2. \A s \in Seeds, x \in Streams :
        /\ source[s][x].ver \in Nat /\ source'[s][x].ver \in Nat
        /\ source[s][x].ver <= source'[s][x].ver
  BY <1>0, SourceGrows
<1>3. \A w \in Workers : at[w] \in Mirroring =>
        seed[w] \in Seeds /\ stream[w] \in Streams /\ job[w] \in Jobs
  BY DEF IInv, WorkerShape, TypeOK, ThreadType, Mirroring
<1>4. \A w \in Workers : data[w].ver \in Nat
  BY VersionType DEF IInv, TypeOK, ThreadType
<1>5. ASSUME NEW w \in Workers, Install(w)
      PROVE  /\ job[w] \in Jobs /\ stream[w] \in Streams /\ data[w] # Nothing
             /\ data[w].seed = seed[w] /\ data[w].ver <= source[seed[w]][stream[w]].ver
             /\ spool' = [spool EXCEPT ![job[w]][stream[w]] = data[w]]
  BY <1>3, <1>5 DEF Install, IInv, ReadInOrder, WriteLocked, InStep, Mirroring
<1>6. \A j \in Jobs, x \in Streams :
        spool'[j][x] # Nothing => spool'[j][x].ver <= source'[spool'[j][x].seed][x].ver
  <2> SUFFICES ASSUME NEW j \in Jobs, NEW x \in Streams, spool'[j][x] # Nothing
               PROVE  spool'[j][x].ver <= source'[spool'[j][x].seed][x].ver
    OBVIOUS
  <2>1. CASE spool'[j][x] = spool[j][x]
    BY <1>1, <1>2, <2>1 DEF InStep
  <2>2. ASSUME NEW w \in Workers, Install(w), spool'[j][x] # spool[j][x]
        PROVE spool'[j][x].ver <= source'[spool'[j][x].seed][x].ver
    <3>1. spool'[j][x] = data[w] /\ x = stream[w]
      <4>1. /\ job[w] \in Jobs /\ stream[w] \in Streams
            /\ spool' = [spool EXCEPT ![job[w]][stream[w]] = data[w]]
        BY <1>5, <2>2
      <4>2. spool \in [Jobs -> [Streams -> MaybeTails]]
        BY DEF IInv, TypeOK, DiskType
      <4>3. CASE j = job[w] /\ x = stream[w]
        BY <4>1, <4>2, <4>3
      <4>4. CASE ~(j = job[w] /\ x = stream[w])
        BY <2>2, <4>1, <4>2, <4>4
      <4>5. QED
        BY <4>3, <4>4
    <3>2. data[w].seed = seed[w] /\ data[w].ver <= source[seed[w]][x].ver
      BY <1>5, <2>2, <3>1
    <3>3. seed[w] \in Seeds
      BY <1>3, <2>2 DEF Install, Mirroring
    <3>4. /\ source[seed[w]][x].ver \in Nat /\ source'[seed[w]][x].ver \in Nat
          /\ source[seed[w]][x].ver <= source'[seed[w]][x].ver
      BY <1>2, <3>3
    <3>5. data[w].ver \in Nat
      BY <1>4
    <3>6. data[w].ver <= source'[seed[w]][x].ver
      BY <3>2, <3>4, <3>5
    <3>7. QED
      BY <3>1, <3>2, <3>6
  <2>3. QED
    BY <2>1, <2>2, SpoolSteps
<1>7. ASSUME NEW v \in Workers, at'[v] \in {"status", "write", "install"}, data'[v] # Nothing
      PROVE  /\ data'[v].seed = seed'[v]
             /\ data'[v].ver <= source'[seed'[v]][stream'[v]].ver
             /\ spool'[job'[v]][stream'[v]].seed = seed'[v]
                  => spool'[job'[v]][stream'[v]].ver <= data'[v].ver
  <2>1. CASE Local(v)' = Local(v)
    <3>1. /\ at[v] \in {"status", "write", "install"} /\ data[v] # Nothing
          /\ seed[v] \in Seeds /\ stream[v] \in Streams /\ job[v] \in Jobs
      BY <1>3, <1>7, <2>1 DEF Local, Mirroring
    <3>2. data[v].seed = seed[v] /\ data[v].ver <= source'[seed[v]][stream[v]].ver
      BY <1>2, <1>4, <3>1 DEF InStep
    <3>3. ASSUME spool'[job[v]][stream[v]].seed = seed[v]
          PROVE  spool'[job[v]][stream[v]].ver <= data[v].ver
      <4>1. spool'[job[v]][stream[v]] # Nothing
        BY <3>1, <3>3 DEF Nothing
      <4>2. CASE spool'[job[v]][stream[v]] = spool[job[v]][stream[v]]
        BY <3>1, <3>3, <4>2 DEF InStep
      <4>3. ASSUME NEW w \in Workers, Install(w)
            PROVE  spool'[job[v]][stream[v]] = spool[job[v]][stream[v]]
        <5>1. at'[w] \notin {"status", "write", "install"}
          BY <4>3 DEF Install, NextStream, Goto, IInv, TypeOK, ThreadType
        <5>2. w # v
          BY <1>7, <5>1
        <5>3. job[w] # job[v]
          BY <3>1, <5>2 DEF OneMirrorPerJob
        <5>4. QED
          BY <1>5, <3>1, <4>3, <5>3 DEF IInv, TypeOK, DiskType
      <4>4. QED
        BY <3>1, <4>1, <4>2, <4>3, SpoolSteps
    <3>4. QED
      BY <2>1, <3>2, <3>3 DEF Local
  <2>2. ASSUME PoolThread(v)
        PROVE  /\ data'[v].seed = seed'[v]
               /\ data'[v].ver <= source'[seed'[v]][stream'[v]].ver
               /\ spool'[job'[v]][stream'[v]].seed = seed'[v]
                    => spool'[job'[v]][stream'[v]].ver <= data'[v].ver
    <3>1. /\ UNCHANGED <<job, seed, stream, spool>>
          /\ seed[v] \in Seeds /\ stream[v] \in Streams /\ job[v] \in Jobs
          /\ \/ data'[v] = Observed(v)
             \/ at[v] \in {"status", "write", "install"} /\ data'[v] = data[v]
      BY <1>3, <1>7, <2>2, HeldFrame
    <3>2. CASE data'[v] = Observed(v)
      <4>1. data'[v].seed = seed[v] /\ data'[v].ver = source[seed[v]][stream[v]].ver
        BY <3>2 DEF Observed
      <4>2. spool[job[v]][stream[v]].seed = seed[v] => spool[job[v]][stream[v]] # Nothing
        BY <3>1 DEF Nothing
      <4>3. spool[job[v]][stream[v]].seed = seed[v]
              => spool[job[v]][stream[v]].ver <= source[seed[v]][stream[v]].ver
        BY <3>1, <4>2 DEF InStep
      <4>4. /\ spool'[job'[v]][stream'[v]] = spool[job[v]][stream[v]] /\ seed'[v] = seed[v]
            /\ source'[seed'[v]][stream'[v]] = source'[seed[v]][stream[v]]
        BY <3>1
      <4>5. QED
        BY <1>2, <3>1, <4>1, <4>3, <4>4
    <3>3. CASE at[v] \in {"status", "write", "install"} /\ data'[v] = data[v]
      <4>1. data[v] # Nothing
        BY <1>7, <3>3
      <4>2. /\ data[v].seed = seed[v] /\ data[v].ver <= source[seed[v]][stream[v]].ver
            /\ spool[job[v]][stream[v]].seed = seed[v]
                 => spool[job[v]][stream[v]].ver <= data[v].ver
        BY <3>3, <4>1 DEF InStep
      <4>3. /\ spool'[job'[v]][stream'[v]] = spool[job[v]][stream[v]] /\ seed'[v] = seed[v]
            /\ source'[seed'[v]][stream'[v]] = source'[seed[v]][stream[v]]
        BY <3>1
      <4>4. data[v].ver \in Nat
        BY <1>4
      <4>5. QED
        BY <1>2, <3>1, <3>3, <4>2, <4>3, <4>4
    <3>4. QED
      BY <3>1, <3>2, <3>3
  <2>3. CASE CollectThread
    BY <2>1, <2>3, CollectFrame DEF Local
  <2>4. CASE \E w \in Workers : PoolThread(w)
    BY <1>0, <2>1, <2>2, <2>4, LocalFrame
  <2>5. CASE Crash
    BY <1>7, <2>5 DEF Crash, EachThread
  <2>6. CASE World /\ ~Crash
    BY <2>1, <2>6, WorldFrame DEF Local
  <2>7. CASE UNCHANGED vars
    BY <2>1, <2>7 DEF Local
  <2>8. QED
    BY <2>3, <2>4, <2>5, <2>6, <2>7 DEF Next
<1>8. QED
  BY <1>6, <1>7 DEF InStep

\* No older tail ever waits to replace a newer one.
LEMMA InStepAlways == Spec => [](IInv /\ OneMirrorPerJob /\ Cleaned /\ InStep)
<1>1. Init => InStep /\ Cleaned
  BY DEF Init, InStep, Cleaned, Bare, Erased, EachJob, EachStream, EachThread
<1>2. QED
  BY <1>1, InStepNext, CleanedNext, Invariance, OneMirror, PTL DEF Spec

-----------------------------------------------------------------------------
(* Log sharing implements SharedSpool *)

Granted == [j \in Jobs |-> IF j \in live THEN paths[j] ELSE NoSeed]
Phase == CASE pc = "boot" -> "down" [] pc = "idle" -> "closed" [] OTHER -> "open"

\* When the collect thread has nothing left to withdraw, all that is shared is trusted.
LEMMA AllTrustedWhenDone ==
  ASSUME IInv, Cleaned, pc = "cycle" /\ resets = {} /\ gone = {}
  PROVE  Shared!AllTrusted
<1>1. \A j \in Jobs, x \in Streams : spool[j][x] # Nothing => Trusted(j, spool[j][x].seed)
  BY DEF IInv, SpoolBacked, Withdrawing
<1>2. QED
  BY <1>1 DEF Shared!AllTrusted, Shared!NoFile, Trusted, Nothing

\* The collector before its first cycle shares nothing.
LEMMA SharedInit == Init => Shared!Init
  BY DEF Init, Shared!Init, Shared!NoFile, EachJob, EachStream, Nothing

\* A step that removes one file, and leaves trust alone, withdraws it.
LEMMA WithdrawStep ==
  ASSUME NEW j \in Jobs, NEW x \in Streams, spool' = [spool EXCEPT ![j][x] = Nothing],
         Granted' = Granted, Phase' = Phase
  PROVE  Shared!Next
<1>1. Shared!Withdraw(j, x)
  BY DEF Shared!Withdraw, Shared!NoFile, Nothing, Granted, Phase
<1>2. QED
  BY <1>1 DEF Shared!Next

\* A step that changes neither trust nor files nor phase is none of SharedSpool.
LEMMA StutterStep ==
  ASSUME spool' = spool, Granted' = Granted, Phase' = Phase
  PROVE  UNCHANGED Shared!vars
  BY DEF Shared!vars, Granted, Phase

\* What the last snapshot trusts only changes with the next, or with the process.
LEMMA GrantedKept ==
  ASSUME IInv, [Next]_vars, ~ShareLogs, ~Crash
  PROVE  Granted' = Granted
<1> USE DEF memory, trust, mirror, collectThread, ticket, reading, threads, files, others, vars
<1>1. CASE UNCHANGED <<live, paths>>
  BY <1>1 DEF Granted
<1>2. CASE ForgetPaths
  <2>1. PICK i \in gone : paths' = [paths EXCEPT ![i] = NoSeed] /\ live' = live
    BY <1>2 DEF ForgetPaths
  <2>2. i \notin live
    BY DEF IInv, CyclePhase
  <2>3. \A j \in live : paths'[j] = paths[j]
    BY <2>1, <2>2 DEF IInv, TypeOK, MemoryType
  <2>4. QED
    BY <2>1, <2>3 DEF Granted
<1>3. CASE DropMaps
  <2>1. \A d \in dropping : d[1] \notin live
    BY DEF IInv, Forgotten, CyclePhase
  <2>2. QED
    BY <1>1, <1>3, <2>1 DEF DropMaps
<1>4. \/ ResetStream \/ DropFingerprint \/ DropFile \/ Submit \/ Report \/ Start
        => UNCHANGED <<live, paths>>
  BY DEF ResetStream, DropFingerprint, DropFile, Submit, Report, Start
<1>5. (\E j \in Jobs, x \in Streams : ClearStale(j, x)) => UNCHANGED <<live, paths>>
  BY DEF ClearStale
<1>6. QED
  BY <1>1, <1>2, <1>3, <1>4, <1>5, ThreadFrame, WorldFrame DEF Next, CollectThread

\* Every step of the collector, its threads and the world around it is a step of
\* SharedSpool, or changes nothing that its readers could see.
LEMMA SharedNext ==
  IInv /\ IInv' /\ Cleaned /\ InStep /\ [Next]_vars => [Shared!Next]_Shared!vars
<1> SUFFICES ASSUME IInv, IInv', Cleaned, InStep, [Next]_vars
             PROVE  Shared!Next \/ UNCHANGED Shared!vars
  OBVIOUS
<1> USE DEF memory, trust, mirror, collectThread, ticket, reading, threads, files, others, vars
<1>1. ASSUME NEW now \in SUBSET Jobs, NEW meta \in [now -> Seeds \cup {NoSeed}],
             ShareLocked(meta)
      PROVE Shared!Next
  <2>1. pc = "idle" /\ pc' = "cycle" /\ spool' = spool
    BY <1>1 DEF ShareLocked
  <2>2. Granted' \in [Jobs -> Seeds \cup {NoSeed}]
    BY DEF Granted, IInv, TypeOK, MemoryType
  <2>3. Shared!Snapshot
    BY <2>1, <2>2 DEF Shared!Snapshot, Granted
  <2>4. QED
    BY <2>3 DEF Shared!Next
<1>2. CASE ResetStream
  <2>1. PICK r \in resets : \/ spool' = [spool EXCEPT ![r[1]][r[2]] = Nothing]
                            \/ spool' = spool
    BY <1>2 DEF ResetStream, Unpublish
  <2>2. r[1] \in Jobs /\ r[2] \in Streams
    BY DEF IInv, TypeOK, CollectType
  <2>3. Granted' = Granted /\ Phase' = Phase
    BY <1>2 DEF ResetStream, Granted, Phase
  <2>4. QED
    BY <2>1, <2>2, <2>3, WithdrawStep, StutterStep
<1>3. CASE ForgetPaths \/ DropMaps \/ DropFingerprint \/ Submit
  <2>1. Granted' = Granted
    <3>1. ForgetPaths \/ DropMaps \/ DropFingerprint \/ Submit => ~ShareLogs /\ ~Crash
      <4>1. ForgetPaths \/ DropMaps \/ DropFingerprint \/ Submit => pc # "idle" /\ pc' # "boot"
        BY DEF ForgetPaths, DropMaps, DropFingerprint, Submit
      <4>2. ShareLogs => pc = "idle"
        BY DEF ShareLogs, ShareLocked
      <4>3. Crash => pc' = "boot"
        BY DEF Crash
      <4>4. QED
        BY <4>1, <4>2, <4>3
    <3>2. QED
      BY <1>3, <3>1, GrantedKept
  <2>2. spool' = spool /\ Phase' = Phase
    BY <1>3 DEF ForgetPaths, DropMaps, DropFingerprint, Submit, Phase
  <2>3. QED
    BY <2>1, <2>2, StutterStep
<1>4. CASE DropFile
  <2>1. PICK d \in dropping : spool' = [spool EXCEPT ![d[1]][d[2]] = Nothing]
    BY <1>4 DEF DropFile
  <2>2. d[1] \in Jobs /\ d[2] \in Streams
    BY DEF IInv, TypeOK, CollectType
  <2>3. Granted' = Granted /\ Phase' = Phase
    BY <1>4 DEF DropFile, Granted, Phase
  <2>4. QED
    BY <2>1, <2>2, <2>3, WithdrawStep
<1>5. CASE Report
  <2>1. Shared!AllTrusted
    BY <1>5, AllTrustedWhenDone DEF Report
  <2>2. Shared!Close
    BY <1>5, <2>1 DEF Report, Shared!Close
  <2>3. QED
    BY <2>2 DEF Shared!Next
<1>6. CASE Start
  <2>1. Shared!AllTrusted
    BY <1>6 DEF Start, Cleared, Shared!AllTrusted, Shared!NoFile, Nothing
  <2>2. Shared!Restart
    BY <1>6, <2>1 DEF Start, Shared!Restart
  <2>3. QED
    BY <2>2 DEF Shared!Next
<1>7. ASSUME NEW j \in Jobs, NEW x \in Streams, ClearStale(j, x) PROVE Shared!Next
  BY <1>7, WithdrawStep DEF ClearStale, Granted, Phase
<1>8. ASSUME NEW w \in Workers, PoolThread(w) PROVE Shared!Next \/ UNCHANGED Shared!vars
  <2>1. Granted' = Granted /\ Phase' = Phase
    BY <1>8, ThreadFrame DEF Granted, Phase
  <2>2. CASE Install(w)
    <3>1. /\ job[w] \in Jobs /\ stream[w] \in Streams /\ seed[w] \in Seeds
          /\ data[w] # Nothing /\ data[w].seed = seed[w] /\ data[w] \in MaybeTails
          /\ temp[job[w]][stream[w]] = data[w]
          /\ job[w] \in live /\ paths[job[w]] = seed[w]
      BY <2>2
      DEF Install, IInv, WorkerShape, Mirroring, TypeOK, ThreadType, ReadInOrder, WriteLocked,
          Trusted
    <3>2. spool' = [spool EXCEPT ![job[w]][stream[w]] = data[w]]
      BY <2>2, <3>1 DEF Install
    <3>3. spool[job[w]][stream[w]].seed = seed[w] => spool[job[w]][stream[w]].ver <= data[w].ver
      BY <2>2, <3>1 DEF Install, InStep
    <3>4. spool'[job[w]][stream[w]] = data[w]
      BY <3>1, <3>2 DEF IInv, TypeOK, DiskType
    <3>5. /\ data[w] = [seed |-> seed[w], ver |-> data[w].ver] /\ data[w].ver \in Nat
          /\ spool[job[w]][stream[w]].ver \in Nat
      BY <3>1, VersionType DEF MaybeTails, Tails, Nothing, IInv, TypeOK, DiskType
    <3>6. Granted[job[w]] = seed[w] /\ seed[w] # NoSeed /\ pc # "boot"
      BY <3>1, SeedAssumption DEF Granted, Cleaned
    <3>7. Shared!Mirror(job[w], stream[w])
      BY <2>1, <3>2, <3>3, <3>4, <3>5, <3>6 DEF Shared!Mirror, Granted, Phase
    <3>8. QED
      BY <3>1, <3>7 DEF Shared!Next
  <2>3. CASE Withdraw(w)
    <3>1. job[w] \in Jobs /\ stream[w] \in Streams
      BY <2>3 DEF Withdraw, IInv, WorkerShape, TypeOK, ThreadType
    <3>2. spool' = [spool EXCEPT ![job[w]][stream[w]] = Nothing] \/ spool' = spool
      BY <2>3 DEF Withdraw, Unpublish
    <3>3. QED
      BY <2>1, <3>1, <3>2, WithdrawStep, StutterStep
  <2>4. CASE ~Install(w) /\ ~Withdraw(w)
    BY <1>8, <2>1, <2>4, SpoolFrame, StutterStep
  <2>5. QED
    BY <2>2, <2>3, <2>4
<1>9. CASE Crash
  <2>1. Shared!Die
    BY <1>9 DEF Crash, Shared!Die, EachJob
  <2>2. QED
    BY <2>1 DEF Shared!Next
<1>10. CASE World /\ ~Crash
  <2>1. Granted' = Granted /\ Phase' = Phase
    BY <1>10, WorldFrame DEF Granted, Phase
  <2>2. QED
    BY <1>10, <2>1, WorldSpool, WithdrawStep, StutterStep
<1>11. CASE UNCHANGED vars
  BY <1>11, StutterStep DEF Granted, Phase
<1>12. QED
  BY <1>1, <1>2, <1>3, <1>4, <1>5, <1>6, <1>7, <1>8, <1>9, <1>10, <1>11
  DEF Next, CollectThread, ShareLogs

\* For any jobs, records and threads, whatever files do and whenever the process dies:
\* what users see in the spool is what SharedSpool allows.
THEOREM ImplementsSpool == Spec => ImplementsSharedSpool
<1>1. Spec => [](IInv /\ OneMirrorPerJob /\ Cleaned /\ InStep)
  BY InStepAlways
<1>2. Spec => Shared!Spec
  BY <1>1, SharedInit, SharedNext, PTL DEF Spec, Shared!Spec
<1>3. QED
  BY <1>2 DEF ImplementsSharedSpool

===============================================================================
