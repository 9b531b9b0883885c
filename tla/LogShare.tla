------------------------------- MODULE LogShare -------------------------------
(***************************************************************************)
(* Job log sharing of the collector (collector.py, "Job stdout/stderr      *)
(* sharing").  Each collect cycle the collector compares the scheduler's   *)
(* job list with what it shared before, withdraws what is no longer        *)
(* trusted, and hands the jobs that are due to a small thread pool.  A     *)
(* pool thread copies the tail of the job's own log files into a spool     *)
(* directory that every user can read.                                     *)
(*                                                                         *)
(* One action is one critical section of _log_lock, or one access to a     *)
(* file made outside it.                                                   *)
(***************************************************************************)
EXTENDS Naturals, Sequences, FiniteSets

CONSTANTS
  Jobs,        \* job ids the scheduler may list
  NoJob,       \* what an idle thread works on
  Seeds,       \* (stdout path, stderr path, owner uid) triples of a job record
  NoSeed,      \* no validated metadata
  Configured,  \* seed -> the streams it names a path for
  Merged,      \* seeds whose stderr goes to the stdout file
  Squashed,    \* seeds whose files only the owner-uid helper can read
  Workers,     \* threads of _log_executor
  Tokens,      \* identities of the object() tokens, per job
  NoToken,
  Free,        \* _log_lock is not held across a file write
  BadReads,    \* subset of waiting, unsafe, unreadable the files may go to
  MaxVersion,  \* bound: how often a source file grows
  MaxFaults    \* bound: crashes, lost or unreadable files, failed I/O

Streams == {"out", "err"}

ReadFailures == {"waiting", "unsafe", "unreadable"}

ASSUME SeedAssumption ==
  /\ NoSeed \notin Seeds
  /\ Configured \in [Seeds -> SUBSET Streams]
  /\ Merged \subseteq Seeds
  /\ Squashed \subseteq Seeds

ASSUME ThreadAssumption ==
  /\ NoJob \notin Jobs
  /\ NoToken \notin Tokens
  /\ Free \notin Workers

ASSUME BoundAssumption ==
  /\ BadReads \subseteq ReadFailures
  /\ MaxVersion \in Nat
  /\ MaxFaults \in Nat

VARIABLES
  (* memory of the collector process *)
  live, paths, owned, tokens, fingerprint, published, status, nextCheck,
  inflight,    \* job ids submitted and not finished
  queue,       \* _log_executor's backlog
  pc,          \* where the collect thread is
  resets, gone, todo,  \* work _share_logs still has to do this cycle
  dropping,    \* the streams _drop_log_spool has left, for a job of `gone`
  (* each pool thread: where it is, and the locals of _mirror_one_job_log *)
  at, job, token, seed, stream, fp, data,
  found,       \* what _read_log_source says of the stream
  lock,        \* the thread that writes a spool file, _log_lock held
  (* the disk *)
  spool,       \* jobid.out and jobid.err
  temp,        \* the temporary sibling of a spool file being written
  remnants,    \* temporary files of a collector that crashed
  source,      \* the users' log files
  faults

trust == <<live, paths, owned, tokens>>
mirror == <<fingerprint, published>>
memory == <<trust, mirror, status, nextCheck, inflight>>
collectThread == <<pc, resets, gone, todo, dropping>>
ticket == <<job, token, seed>>
reading == <<fp, data, found>>
threads == <<at, ticket, stream, reading>>
files == <<temp, remnants, source>>
others == <<collectThread, queue, faults>>  \* what most thread steps leave alone
vars == <<memory, collectThread, queue, threads, lock, spool, files, faults>>

-----------------------------------------------------------------------------
(* Data *)

\* A tail is identified by the file it was read from and how far that had grown.
Tails == [seed : Seeds, ver : Nat]
Nothing == [seed |-> NoSeed, ver |-> 0]
MaybeTails == Tails \cup {Nothing}

NoStatus == "none"
Statuses == ReadFailures \cup {"mirrored", "merged", "not-configured",
               "untrusted-owner", "metadata-unavailable", NoStatus}

EachStream(v) == [x \in Streams |-> v]
EachJob(v) == [j \in Jobs |-> v]
EachThread(v) == [w \in Workers |-> v]

\* The token is an object(): a new one differs from every one still referenced.
InUse(j) == {tokens[j]} \cup {token[w] : w \in {v \in Workers : job[v] = j}}
NewToken(j) == CHOOSE t \in Tokens : t \notin InUse(j)
CanMint(j) == Tokens \ InUse(j) # {}

\* Mistaken variant of Current: the job is looked up, its token is not.
LiveOnly(w) == job[w] \in live

\* The thread's job is still listed and its seed has not been replaced.
Current(w) == job[w] \in live /\ tokens[job[w]] = token[w]

-----------------------------------------------------------------------------
(* The collect thread: _share_logs *)

\* The jobs whose scheduler record moved to other paths or another owner.
Moved(meta) == {j \in DOMAIN meta : /\ meta[j] # NoSeed
                                    /\ paths[j] # NoSeed
                                    /\ paths[j] # meta[j]}

\* The jobs some map still holds an entry for.
Known == {j \in Jobs : \/ paths[j] # NoSeed
                       \/ j \in owned
                       \/ published[j] # {}
                       \/ status[j] # EachStream(NoStatus)
                       \/ nextCheck[j] # "none"
                       \/ j \in live}

SeedStatus(s, x, old) ==
  CASE x \in Configured[s] -> old
    [] x = "err" /\ s \in Merged -> "merged"
    [] OTHER -> "not-configured"

\* Mistaken variant of Due: a job already handed to the pool is submitted again.
DueAgain(trusted) == {j \in trusted : nextCheck[j] # "later"}

\* todo: trusted, not in flight, and past its next check.
Due(trusted) == {j \in trusted \ inflight : nextCheck[j] # "later"}

\* First critical section of _share_logs: meta maps every listed job to its
\* validated seed, or to NoSeed when the record carries none.
ShareLocked(meta) ==
  LET now == DOMAIN meta
      invalid == {j \in now : meta[j] = NoSeed}
      trusted == now \ invalid
      reset == invalid \cup Moved(meta)
      minted == reset \cup {j \in trusted : tokens[j] = NoToken}
      due == Due(trusted)
  IN
  /\ pc = "idle" /\ lock = Free
  /\ \A j \in minted : CanMint(j)
  /\ tokens' = [j \in Jobs |-> IF j \in minted THEN NewToken(j) ELSE tokens[j]]
  /\ resets' = {<<j, x, NewToken(j)>> : j \in reset, x \in Streams}
  /\ paths' = [j \in Jobs |-> IF j \in now THEN meta[j] ELSE paths[j]]
  /\ owned' = (owned \ invalid) \cup trusted
  /\ status' = [j \in Jobs |->
       IF j \in invalid THEN EachStream("metadata-unavailable")
       ELSE IF j \in trusted
       THEN [x \in Streams |-> SeedStatus(meta[j], x,
               IF j \in Moved(meta) THEN NoStatus ELSE status[j][x])]
       ELSE status[j]]
  /\ gone' = Known \ now
  /\ live' = now
  /\ todo' = due
  /\ inflight' = inflight \cup due
  /\ nextCheck' = [j \in Jobs |-> IF j \in due THEN "later"
                                  ELSE IF j \in invalid THEN "none"
                                  ELSE nextCheck[j]]
  /\ pc' = "cycle"
  /\ UNCHANGED <<mirror, dropping, queue, threads, lock, spool, files, faults>>

\* _unpublish_log_stream: the maps and the file go together, under the lock.
Unpublish(j, x) ==
  /\ published' = [published EXCEPT ![j] = @ \ {x}]
  /\ fingerprint' = [fingerprint EXCEPT ![j][x] = Nothing]
  /\ spool' = [spool EXCEPT ![j][x] = Nothing]

ResetStream ==
  /\ pc = "cycle" /\ lock = Free
  /\ \E r \in resets :
       LET j == r[1] x == r[2] IN
       /\ x = "err" => <<j, "out", r[3]>> \notin resets
       /\ IF tokens[j] = r[3] THEN Unpublish(j, x)
                              ELSE UNCHANGED <<published, fingerprint, spool>>
       /\ resets' = resets \ {r}
  /\ UNCHANGED <<trust, status, nextCheck, inflight, pc, gone, todo, dropping, queue,
                 threads, lock, files, faults>>

\* A job left the queue: its paths go first, then the rest of the maps ...
ForgetPaths ==
  /\ pc = "cycle" /\ lock = Free /\ resets = {} /\ dropping = {}
  /\ \E j \in gone :
       /\ paths' = [paths EXCEPT ![j] = NoSeed]
       /\ dropping' = {<<j, x>> : x \in Streams}
  /\ pc' = "forget"
  /\ UNCHANGED <<live, owned, tokens, mirror, status, nextCheck, inflight, resets,
                 gone, todo, queue, threads, lock, spool, files, faults>>

DropMaps ==
  /\ pc = "forget" /\ lock = Free
  /\ \E j \in {d[1] : d \in dropping} :
       /\ published' = [published EXCEPT ![j] = {}]
       /\ nextCheck' = [nextCheck EXCEPT ![j] = "none"]
       /\ owned' = owned \ {j}
       /\ status' = [status EXCEPT ![j] = EachStream(NoStatus)]
       /\ tokens' = [tokens EXCEPT ![j] = NoToken]
       /\ live' = live \ {j}
  /\ pc' = "drop"
  /\ UNCHANGED <<paths, fingerprint, inflight, resets, gone, todo, dropping, queue,
                 threads, lock, spool, files, faults>>

\* ... then, stream by stream, the fingerprint under the lock ...
DropFingerprint ==
  /\ pc = "drop" /\ lock = Free
  /\ \E d \in dropping :
       /\ d[2] = "err" => <<d[1], "out">> \notin dropping
       /\ fingerprint' = [fingerprint EXCEPT ![d[1]][d[2]] = Nothing]
  /\ pc' = "unlink"
  /\ UNCHANGED <<trust, published, status, nextCheck, inflight, resets, gone, todo,
                 dropping, queue, threads, lock, spool, files, faults>>

\* ... and the file without it.
DropFile ==
  /\ pc = "unlink"
  /\ \E d \in dropping :
       /\ d[2] = "err" => <<d[1], "out">> \notin dropping
       /\ spool' = [spool EXCEPT ![d[1]][d[2]] = Nothing]
       /\ dropping' = dropping \ {d}
       /\ IF dropping = {d} THEN pc' = "cycle" /\ gone' = gone \ {d[1]}
                            ELSE pc' = "drop" /\ gone' = gone
  /\ UNCHANGED <<memory, resets, todo, queue, threads, lock, files, faults>>

Submit ==
  /\ pc = "cycle" /\ resets = {} /\ gone = {}
  /\ \E j \in todo : queue' = Append(queue, j) /\ todo' = todo \ {j}
  /\ UNCHANGED <<memory, pc, resets, gone, dropping, threads, lock, spool, files, faults>>

\* Last critical section: the payload lists published and status as they are.
Report ==
  /\ pc = "cycle" /\ lock = Free
  /\ resets = {} /\ gone = {} /\ todo = {}
  /\ pc' = "idle"
  /\ UNCHANGED <<memory, resets, gone, todo, dropping, queue, threads, lock, spool, files, faults>>

-----------------------------------------------------------------------------
(* A pool thread: _mirror_one_job_log *)

Goto(w, where) == at' = [at EXCEPT ![w] = where]

\* The `for src, suffix` loop: stdout, then stderr, then the epilogue.
NextStream(w) ==
  /\ Goto(w, IF stream[w] = "out" THEN "stream" ELSE "after")
  /\ stream' = [stream EXCEPT ![w] = IF stream[w] = "out" THEN "err" ELSE "out"]
  /\ fp' = [fp EXCEPT ![w] = Nothing]
  /\ data' = [data EXCEPT ![w] = Nothing]
  /\ found' = [found EXCEPT ![w] = NoStatus]

\* Mistaken variant of SetStatus: a late thread speaks for a job that left.
SetStatusAlways(w, x, st) == status' = [status EXCEPT ![job[w]][x] = st]

\* _set_log_status: ignored from a thread whose job or seed is history.
SetStatus(w, x, st) ==
  status' = IF Current(w) THEN [status EXCEPT ![job[w]][x] = st] ELSE status

Take(w) ==
  /\ at[w] = "idle" /\ queue # <<>>
  /\ job' = [job EXCEPT ![w] = Head(queue)]
  /\ queue' = Tail(queue)
  /\ Goto(w, "taken")
  /\ UNCHANGED <<memory, collectThread, token, seed, stream, reading, lock, spool,
                 files, faults>>

\* Paths, owner and token are read together; a missing token is minted here.
Begin(w) ==
  LET j == job[w] IN
  /\ at[w] = "taken" /\ lock = Free
  /\ \/ tokens[j] # NoToken /\ tokens' = tokens
     \/ tokens[j] = NoToken /\ CanMint(j) /\ tokens' = [tokens EXCEPT ![j] = NewToken(j)]
  /\ token' = [token EXCEPT ![w] = tokens'[j]]
  /\ \/ /\ j \in owned /\ paths[j] # NoSeed
        /\ seed' = [seed EXCEPT ![w] = paths[j]]
        /\ Goto(w, "stream") /\ UNCHANGED found
     \/ /\ j \notin owned \/ paths[j] = NoSeed
        /\ found' = [found EXCEPT ![w] = IF j \notin owned THEN "untrusted-owner"
                                         ELSE "metadata-unavailable"]
        /\ Goto(w, "refuse") /\ UNCHANGED seed
  /\ UNCHANGED <<live, paths, owned, mirror, status, nextCheck, inflight, job, stream,
                 fp, data, lock, spool, files, others>>

Refuse(w) ==
  /\ at[w] = "refuse" /\ lock = Free
  /\ SetStatus(w, stream[w], found[w])
  /\ Goto(w, IF stream[w] = "out" THEN "refuse" ELSE "finally")
  /\ stream' = [stream EXCEPT ![w] = "err"]
  /\ UNCHANGED <<trust, mirror, nextCheck, inflight, ticket, reading, lock, spool,
                 files, others>>

\* No path for this stream: "merged" stays, anything else becomes not configured.
ReadPrior(w) ==
  LET x == stream[w] IN
  /\ at[w] = "stream" /\ lock = Free
  /\ x \notin Configured[seed[w]]
  /\ found' = [found EXCEPT ![w] =
       IF x = "err" /\ status[job[w]][x] = "merged" THEN "merged" ELSE "not-configured"]
  /\ Goto(w, "skip")
  /\ UNCHANGED <<memory, ticket, stream, fp, data, lock, spool, files, others>>

SkipStream(w) ==
  /\ at[w] = "skip" /\ lock = Free
  /\ SetStatus(w, stream[w], found[w])
  /\ NextStream(w)
  /\ UNCHANGED <<trust, mirror, nextCheck, inflight, ticket, lock, spool, files, others>>

\* Mistaken variant of KnownTail: an entry counts although the spool file is gone.
KnownBlindly(j, x) == fingerprint[j][x]

\* known: the fingerprint counts only while the spool file is there.
KnownTail(j, x) == IF spool[j][x] # Nothing THEN fingerprint[j][x] ELSE Nothing

ReadKnown(w) ==
  /\ at[w] = "stream" /\ lock = Free
  /\ stream[w] \in Configured[seed[w]]
  /\ fp' = [fp EXCEPT ![w] = KnownTail(job[w], stream[w])]
  /\ Goto(w, "stat")
  /\ UNCHANGED <<memory, ticket, stream, data, found, lock, spool, files, others>>

\* What an open of the stream's file would show now.
Observed(w) == [seed |-> seed[w], ver |-> source[seed[w]][stream[w]].ver]
Health(w) == source[seed[w]][stream[w]].health

Reject(w, why) ==
  /\ fp' = [fp EXCEPT ![w] = Nothing]
  /\ found' = [found EXCEPT ![w] = why]
  /\ Goto(w, "status") /\ UNCHANGED data

\* _read_log_source up to the fstat: the fingerprint is taken before the data.
Stat(w) ==
  /\ at[w] = "stat" /\ seed[w] \notin Squashed
  /\ \/ Health(w) # "ok" /\ Reject(w, Health(w))
     \/ /\ Health(w) = "ok"
        /\ fp' = [fp EXCEPT ![w] = Observed(w)]
        /\ found' = [found EXCEPT ![w] = "mirrored"]
        /\ Goto(w, IF Observed(w) = fp[w] THEN "status" ELSE "read") /\ UNCHANGED data
  /\ UNCHANGED <<memory, ticket, stream, lock, spool, files, others>>

\* Permission denied: a child with the owner's uid reads the tail, and the
\* fingerprint is the hash of what it returns.
ReadAsOwner(w) ==
  /\ at[w] = "stat" /\ seed[w] \in Squashed
  /\ \/ Health(w) # "ok" /\ Reject(w, Health(w))
     \/ /\ Health(w) = "ok"
        /\ fp' = [fp EXCEPT ![w] = Observed(w)]
        /\ found' = [found EXCEPT ![w] = "mirrored"]
        /\ data' = IF Observed(w) = fp[w] THEN data ELSE [data EXCEPT ![w] = Observed(w)]
        /\ Goto(w, "status")
  /\ UNCHANGED <<memory, ticket, stream, lock, spool, files, others>>

\* source.read: what the open file holds by now, which may be more.
ReadTail(w) ==
  /\ at[w] = "read"
  /\ data' = [data EXCEPT ![w] = Observed(w)]
  /\ Goto(w, "status")
  /\ UNCHANGED <<memory, ticket, stream, fp, found, lock, spool, files, others>>

\* The read fails, or the child does not answer in time.
ReadFails(w) ==
  /\ at[w] = "read" \/ (at[w] = "stat" /\ seed[w] \in Squashed)
  /\ faults < MaxFaults /\ faults' = faults + 1
  /\ Reject(w, "unreadable")
  /\ UNCHANGED <<memory, collectThread, queue, ticket, stream, lock, spool, files>>

PublishStatus(w) ==
  /\ at[w] = "status" /\ lock = Free
  /\ SetStatus(w, stream[w], found[w])
  /\ Goto(w, IF fp[w] = Nothing THEN "withdraw"
             ELSE IF data[w] = Nothing THEN "keep" ELSE "write")
  /\ UNCHANGED <<trust, mirror, nextCheck, inflight, ticket, stream, reading, lock, spool,
                 files, others>>

\* The source failed validation: stop serving its mirror, if the seed still holds.
Withdraw(w) ==
  /\ at[w] = "withdraw" /\ lock = Free
  /\ \/ tokens[job[w]] = token[w] /\ Unpublish(job[w], stream[w])
     \/ tokens[job[w]] # token[w] /\ UNCHANGED <<mirror, spool>>
  /\ NextStream(w)
  /\ UNCHANGED <<trust, status, nextCheck, inflight, ticket, lock, files, others>>

\* Unchanged source: dst.is_file() is asked outside the lock ...
KeepMirror(w) ==
  /\ at[w] = "keep"
  /\ \/ spool[job[w]][stream[w]] # Nothing /\ Goto(w, "republish") /\ UNCHANGED <<stream, reading>>
     \/ spool[job[w]][stream[w]] = Nothing /\ NextStream(w)
  /\ UNCHANGED <<memory, ticket, lock, spool, files, others>>

\* ... and the mirror is listed under it.
Republish(w) ==
  /\ at[w] = "republish" /\ lock = Free
  /\ published' = IF Current(w)
                  THEN [published EXCEPT ![job[w]] = @ \cup {stream[w]}] ELSE published
  /\ NextStream(w)
  /\ UNCHANGED <<trust, fingerprint, status, nextCheck, inflight, ticket, lock, spool,
                 files, others>>

\* Changed source: re-check under the lock, then atomic_write with it held.
\* The temporary file of a crashed collector is replaced only if the process
\* id, part of its name, happens to be the same.
WriteTemp(w) ==
  LET j == job[w] x == stream[w] IN
  /\ at[w] = "write" /\ lock = Free
  /\ \/ /\ Current(w)
        /\ temp' = [temp EXCEPT ![j][x] = data[w]]
        /\ remnants' \in {remnants, remnants \ {<<j, x>>}}
        /\ lock' = w
        /\ Goto(w, "install") /\ UNCHANGED <<stream, reading>>
     \/ ~Current(w) /\ NextStream(w) /\ UNCHANGED <<temp, remnants, lock>>
  /\ UNCHANGED <<memory, ticket, spool, source, others>>

\* Mistaken variant of Copied: the fingerprint is taken after the copy.
CopiedLate(w) == Observed(w)

\* The fingerprint stored with a new mirror: the fstat before its read.
Copied(w) == fp[w]

\* os.replace, then the maps, then the lock is released.
Install(w) ==
  LET j == job[w] x == stream[w] IN
  /\ at[w] = "install"
  /\ spool' = [spool EXCEPT ![j][x] = temp[j][x]]
  /\ temp' = [temp EXCEPT ![j][x] = Nothing]
  /\ fingerprint' = [fingerprint EXCEPT ![j][x] = Copied(w)]
  /\ published' = [published EXCEPT ![j] = @ \cup {x}]
  /\ lock' = Free
  /\ NextStream(w)
  /\ UNCHANGED <<trust, status, nextCheck, inflight, ticket, remnants, source, others>>

\* except Exception, then the finally clause.
OnError == "finally"

\* An I/O error leaves the loop; atomic_write removes its temporary file.
WriteFails(w) ==
  /\ at[w] = "install" /\ faults < MaxFaults
  /\ temp' = [temp EXCEPT ![job[w]][stream[w]] = Nothing]
  /\ lock' = Free
  /\ Goto(w, OnError)
  /\ faults' = faults + 1
  /\ UNCHANGED <<memory, collectThread, queue, ticket, stream, reading, spool, remnants,
                 source>>

\* The next check moves further away; how far (10 s to 60 s) is abstracted.
BackOff(w) ==
  /\ at[w] = "after" /\ lock = Free
  /\ nextCheck' = IF Current(w) THEN [nextCheck EXCEPT ![job[w]] = "later"] ELSE nextCheck
  /\ Goto(w, "finally")
  /\ UNCHANGED <<trust, mirror, status, inflight, ticket, stream, reading, lock, spool,
                 files, others>>

\* inflight.discard; the locals go with the call.
Finish(w) ==
  /\ at[w] = "finally" /\ lock = Free
  /\ inflight' = inflight \ {job[w]}
  /\ Goto(w, "idle")
  /\ job' = [job EXCEPT ![w] = NoJob]
  /\ token' = [token EXCEPT ![w] = NoToken]
  /\ seed' = [seed EXCEPT ![w] = NoSeed]
  /\ stream' = [stream EXCEPT ![w] = "out"]
  /\ fp' = [fp EXCEPT ![w] = Nothing]
  /\ data' = [data EXCEPT ![w] = Nothing]
  /\ found' = [found EXCEPT ![w] = NoStatus]
  /\ UNCHANGED <<trust, mirror, status, nextCheck, lock, spool, files, others>>

-----------------------------------------------------------------------------
(* The world around the collector, and its restarts *)

Elapse(j) ==
  /\ nextCheck[j] = "later"
  /\ nextCheck' = [nextCheck EXCEPT ![j] = "due"]
  /\ UNCHANGED <<trust, mirror, status, inflight, threads, lock, spool, files, others>>

Grow(s, x) ==
  /\ source[s][x].ver < MaxVersion
  /\ source' = [source EXCEPT ![s][x] = [ver |-> @.ver + 1, health |-> @.health]]
  /\ UNCHANGED <<memory, threads, lock, spool, temp, remnants, others>>

Break(s, x) ==
  /\ source[s][x].health = "ok" /\ faults < MaxFaults
  /\ \E st \in BadReads : source' = [source EXCEPT ![s][x] = [ver |-> @.ver, health |-> st]]
  /\ faults' = faults + 1
  /\ UNCHANGED <<memory, collectThread, queue, threads, lock, spool, temp, remnants>>

Heal(s, x) ==
  /\ source[s][x].health # "ok"
  /\ source' = [source EXCEPT ![s][x] = [ver |-> @.ver, health |-> "ok"]]
  /\ UNCHANGED <<memory, threads, lock, spool, temp, remnants, others>>

\* An administrator or a tmp cleaner removes a spool file.
LoseFile(j, x) ==
  /\ spool[j][x] # Nothing /\ faults < MaxFaults
  /\ spool' = [spool EXCEPT ![j][x] = Nothing]
  /\ faults' = faults + 1
  /\ UNCHANGED <<memory, collectThread, queue, threads, lock, files>>

\* The process dies: the spool stays, and so does a file being written.
Crash ==
  /\ pc # "boot" /\ faults < MaxFaults
  /\ live' = {} /\ owned' = {} /\ inflight' = {}
  /\ paths' = EachJob(NoSeed) /\ tokens' = EachJob(NoToken)
  /\ fingerprint' = EachJob(EachStream(Nothing)) /\ published' = EachJob({})
  /\ status' = EachJob(EachStream(NoStatus)) /\ nextCheck' = EachJob("none")
  /\ pc' = "boot" /\ resets' = {} /\ gone' = {} /\ todo' = {} /\ dropping' = {}
  /\ queue' = <<>> /\ lock' = Free
  /\ at' = EachThread("idle") /\ job' = EachThread(NoJob) /\ token' = EachThread(NoToken)
  /\ seed' = EachThread(NoSeed) /\ stream' = EachThread("out") /\ found' = EachThread(NoStatus)
  /\ fp' = EachThread(Nothing) /\ data' = EachThread(Nothing)
  /\ remnants' = remnants \cup {d \in Jobs \X Streams : temp[d[1]][d[2]] # Nothing}
  /\ temp' = EachJob(EachStream(Nothing))
  /\ faults' = faults + 1
  /\ UNCHANGED <<spool, source>>

\* _clear_stale_log_spool removes *.out and *.err one by one ...
ClearStale(j, x) ==
  /\ pc = "boot" /\ spool[j][x] # Nothing
  /\ spool' = [spool EXCEPT ![j][x] = Nothing]
  /\ UNCHANGED <<memory, threads, lock, files, others>>

\* Mistaken variant of Cleared: the old files stay in place.
Uncleared == TRUE

Cleared == \A j \in Jobs, x \in Streams : spool[j][x] = Nothing

\* ... before the first collect cycle.
Start ==
  /\ pc = "boot" /\ Cleared
  /\ pc' = "idle"
  /\ UNCHANGED <<memory, resets, gone, todo, dropping, queue, threads, lock, spool, files, faults>>

-----------------------------------------------------------------------------
Init ==
  /\ live = {} /\ owned = {} /\ inflight = {}
  /\ paths = EachJob(NoSeed) /\ tokens = EachJob(NoToken)
  /\ fingerprint = EachJob(EachStream(Nothing)) /\ published = EachJob({})
  /\ status = EachJob(EachStream(NoStatus)) /\ nextCheck = EachJob("none")
  /\ pc = "boot" /\ resets = {} /\ gone = {} /\ todo = {} /\ dropping = {}
  /\ queue = <<>> /\ lock = Free
  /\ at = EachThread("idle") /\ job = EachThread(NoJob) /\ token = EachThread(NoToken)
  /\ seed = EachThread(NoSeed) /\ stream = EachThread("out") /\ found = EachThread(NoStatus)
  /\ fp = EachThread(Nothing) /\ data = EachThread(Nothing)
  /\ spool = EachJob(EachStream(Nothing))
  /\ temp = EachJob(EachStream(Nothing))
  /\ remnants = {}
  /\ source = [s \in Seeds |-> EachStream([ver |-> 0, health |-> "ok"])]
  /\ faults = 0

ShareLogs == \E now \in SUBSET Jobs :
               \E meta \in [now -> Seeds \cup {NoSeed}] : ShareLocked(meta)

CollectThread ==
  \/ ShareLogs
  \/ ResetStream
  \/ ForgetPaths
  \/ DropMaps
  \/ DropFingerprint
  \/ DropFile
  \/ Submit
  \/ Report
  \/ \E j \in Jobs, x \in Streams : ClearStale(j, x)
  \/ Start

PoolThread(w) ==
  \/ Take(w)
  \/ Begin(w)
  \/ Refuse(w)
  \/ ReadPrior(w)
  \/ SkipStream(w)
  \/ ReadKnown(w)
  \/ Stat(w)
  \/ ReadAsOwner(w)
  \/ ReadTail(w)
  \/ ReadFails(w)
  \/ PublishStatus(w)
  \/ Withdraw(w)
  \/ KeepMirror(w)
  \/ Republish(w)
  \/ WriteTemp(w)
  \/ Install(w)
  \/ WriteFails(w)
  \/ BackOff(w)
  \/ Finish(w)

World ==
  \/ \E j \in Jobs : Elapse(j)
  \/ \E s \in Seeds : \E x \in Configured[s] : Grow(s, x) \/ Break(s, x) \/ Heal(s, x)
  \/ \E j \in Jobs, x \in Streams : LoseFile(j, x)
  \/ Crash

Next == CollectThread \/ (\E w \in Workers : PoolThread(w)) \/ World

Spec == Init /\ [][Next]_vars

\* The collect loop never stops, the pool threads run whenever they have work,
\* and time passes.  Users, files and faults owe nothing.
FairSpec ==
  /\ Spec
  /\ WF_vars(CollectThread)
  /\ \A w \in Workers : WF_vars(PoolThread(w))
  /\ \A j \in Jobs : WF_vars(Elapse(j))

-----------------------------------------------------------------------------
(* Properties *)

Places == {"idle", "taken", "refuse", "stream", "skip", "stat", "read", "status", "withdraw",
           "keep", "republish", "write", "install", "after", "finally"}

MemoryType ==
  /\ live \subseteq Jobs /\ owned \subseteq Jobs /\ inflight \subseteq Jobs
  /\ paths \in [Jobs -> Seeds \cup {NoSeed}]
  /\ tokens \in [Jobs -> Tokens \cup {NoToken}]
  /\ fingerprint \in [Jobs -> [Streams -> MaybeTails]]
  /\ published \in [Jobs -> SUBSET Streams]
  /\ status \in [Jobs -> [Streams -> Statuses]]
  /\ nextCheck \in [Jobs -> {"none", "later", "due"}]

CollectType ==
  /\ pc \in {"boot", "idle", "cycle", "forget", "drop", "unlink"}
  /\ resets \subseteq Jobs \X Streams \X Tokens
  /\ gone \subseteq Jobs /\ todo \subseteq Jobs
  /\ dropping \subseteq Jobs \X Streams
  /\ queue \in Seq(Jobs)

ThreadType ==
  /\ at \in [Workers -> Places]
  /\ job \in [Workers -> Jobs \cup {NoJob}]
  /\ token \in [Workers -> Tokens \cup {NoToken}]
  /\ seed \in [Workers -> Seeds \cup {NoSeed}]
  /\ stream \in [Workers -> Streams]
  /\ fp \in [Workers -> MaybeTails] /\ data \in [Workers -> MaybeTails]
  /\ found \in [Workers -> Statuses]
  /\ lock \in Workers \cup {Free}

DiskType ==
  /\ spool \in [Jobs -> [Streams -> MaybeTails]]
  /\ temp \in [Jobs -> [Streams -> MaybeTails]]
  /\ remnants \subseteq Jobs \X Streams
  /\ source \in [Seeds -> [Streams -> [ver : Nat, health : ReadFailures \cup {"ok"}]]]
  /\ faults \in Nat

\* Every variable of the collector, of the pool threads and of the disk has its
\* type, whichever map entry a late thread writes last.
TypeOK == MemoryType /\ CollectType /\ ThreadType /\ DiskType

Trusted(j, s) == j \in live /\ paths[j] = s

\* The collect thread still has to withdraw this stream before it reports.
Withdrawing(j, x) ==
  \/ pc = "boot"
  \/ <<j, x, tokens[j]>> \in resets
  \/ j \in gone /\ (<<j, x>> \in dropping \/ dropping = {} \/ \A d \in dropping : d[1] # j)

\* A spool file shows a log of the paths and owner the last cycle validated for
\* that job, or the running cycle is about to remove it (collector.py:722, 777):
\* a thread that read the old file cannot bring it back (:624).
SpoolBacked ==
  \A j \in Jobs, x \in Streams :
    spool[j][x] # Nothing => Trusted(j, spool[j][x].seed) \/ Withdrawing(j, x)

\* A fingerprint never runs ahead of the file it vouches for: "unchanged" is
\* only ever concluded for a mirror that holds at least what was compared.
FingerprintHonest ==
  \A j \in Jobs, x \in Streams :
    fingerprint[j][x] # Nothing /\ spool[j][x] # Nothing =>
      /\ spool[j][x].seed = fingerprint[j][x].seed
      /\ spool[j][x].ver >= fingerprint[j][x].ver

\* A job is mirrored by one thread at a time, whether it waits in the
\* executor's backlog or runs, however often it leaves and rejoins the queue.
OneMirrorPerJob ==
  /\ \A v, w \in Workers : v # w /\ job[v] \in Jobs => job[v] # job[w]
  /\ \A i, k \in 1..Len(queue) : i # k => queue[i] # queue[k]
  /\ \A i \in 1..Len(queue), w \in Workers : queue[i] # job[w]

\* Between two cycles nothing is left in the maps of a job that left the queue
\* except, for a thread that starts too late, a token and the in-flight mark.
NothingKept ==
  pc = "idle" => \A j \in Jobs \ live :
    /\ paths[j] = NoSeed /\ j \notin owned
    /\ published[j] = {} /\ nextCheck[j] = "none"
    /\ status[j] = EachStream(NoStatus)
    /\ fingerprint[j] = EachStream(Nothing) /\ spool[j] = EachStream(Nothing)

Shared == INSTANCE SharedSpool WITH
  trusted <- [j \in Jobs |-> IF j \in live THEN paths[j] ELSE NoSeed],
  files <- spool,
  phase <- CASE pc = "boot" -> "down" [] pc = "idle" -> "closed" [] OTHER -> "open"

\* The threads, tokens and critical sections together keep the promise of
\* SharedSpool: every write to the spool shows the log the running cycle trusts
\* and is no older than the one it replaces, and a cycle reports only after
\* every file it stopped trusting is gone (collector.py:609, 627, 721).
ImplementsSharedSpool == Shared!Spec

\* Once the collector has started it has removed what a crash left in the spool
\* (collector.py:667).
CrashRemnantsCleared == pc # "boot" => remnants = {}

\* A job that stays listed with the same readable file ends up with a mirror of
\* all of it, listed in the payload, and keeps it: no lost file, failed write,
\* crash or stale fingerprint leaves an old tail behind for good.
EventuallyMirrored ==
  \A j \in Jobs, s \in Seeds, x \in Streams :
    <>[](Trusted(j, s) /\ x \in Configured[s] /\ source[s][x].health = "ok")
      => <>[](/\ spool[j][x] = [seed |-> s, ver |-> source[s][x].ver]
              /\ x \in published[j]
              /\ status[j][x] = "mirrored")

=============================================================================
