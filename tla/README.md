# Formal models of slurm-gpu-tui

slurm-gpu-tui is a monitor for a SLURM GPU cluster. One privileged **collector**
runs on the master node; every few seconds it asks the scheduler and the nodes
what is going on and publishes one snapshot, which a terminal UI, a command line
and a Prometheus exporter read. The modules here model the parts of the collector
where threads, restarts and failures meet shared state.

## The system and its parts

Paths without a directory are under `src/src/sgpu/`.

| part | code | state it keeps | operations | hard because |
|---|---|---|---|---|
| log sharing | `collector.py:403-793`, `log_reader.py`, `runtime.py:121-176` | per job: paths, owner, token, fingerprint, published streams, status, deadline; in-flight set; spool directory | one scan per cycle, a mirror pass per due job in a pool of two threads, clean-up at start | threads work from metadata read long ago, files change under them, jobs leave and return, the process dies between two file operations |
| alerts, job outcomes, daily parent | `notify.py` | confirmed outages, remembered jobs, debounce slots, queues, thread of the day, saved state file | one diff per cycle, a delivery thread, an outcome thread, a thread that opens the day's message | a debounce slot is taken before delivery is known, queues are bounded, state is saved between the diff and the delivery |
| node polling, agent trust | `collector.py:90-107, 1004-1350, 1389-1536`, `runtime.py:294-332` | last result, back-off and in-flight mark per node, rotation cursor | poll per node in a pool, agent payload override, pruning | late answers, nodes that disappear while they are polled, a fresh payload against an old poll |
| agent repair | `collector.py:1198-1247`, `agent.py:327-425` | requests, the node's lock, the published payload | kill and launch over SSH, restart | repairs run over each other, an old agent ends its round while the next starts |
| scheduler sampler | `common.py:507-566, 825-1549, 1787-1846`, `collector.py:109-149` | the backend chosen last, a running query, the last answer | queries in a bounded executor, time-outs, two backends | answers that come late, a queue that changes between three commands |
| usage accounting | `collector.py:796-1001`, `usage.py` | GPU seconds per user and day, checkpoint | accumulate, checkpoint, backfill from sacct | restart between accumulation and checkpoint, two writers, days of other lengths |
| durable state | `runtime.py:35-214`, `collector.py:170-260` | state files with a signature | write only when changed, re-read when touched by others | two threads, a crash between temporary file and rename, edits by others |
| idle tracking, inventory | `collector.py:151-353` | idle and parked since, GPUs known per node | update per result, save | restart, stale results, failed queries |
| node agent | `agent.py`, `node_telemetry.py` | cached topology and health, counters of jobs and power | sample, publish | caches keyed by index, counters that wrap or belong to another, slow tools |
| allocation algorithms | `common.py:447-504, 655-733, 1868-1942` | none | reconcile allocations with observed processes, read host lists | indices that are not device numbers, odd spellings |
| daemon life cycle | `collector.py:2047-2285` | lock, pid file, running flag | start, stop, status | overlapping instances |
| SSH connection pool | `common.py:95-184` | a mark, a lock and a socket per node | one master per node, commands through it | polls and repairs at once, masters that die |
| script sharing | `collector.py:355-400` | scripts, in-flight marks | ask for missing scripts in a thread | jobs leave and return meanwhile |
| terminal UI | `tui.py`, `screens.py`, `quickview.py`, `cells.py` | last snapshot and its mtime, jobs announced, log panes | refresh, direct fallback, log panes | stat and read are two steps, refresh threads and timers overlap |
| command line, metrics, scripts | `cli.py`, `benchmark.py`, `telemetry.py`, shell and dashboards | - | format, install | - |

The collector's cycle (`collector.py:2078`, `_collect_cycle`) drives the others in
one thread: sampler, node results, idle clocks, log sharing, scripts, usage, notifier,
snapshot. Log sharing, the notifier, polling, repairs and the sampler own threads that
outlive the cycle and share their maps with it under one lock each.

What makes each part correct, in one line: *log sharing* shows a log only while the
job is trusted with it, and eventually all of it; *the notifier* reports every
confirmed condition once and does not stay silent for ever; *polling* never replaces
good data by an error and polls every node again; *repairs* never let a node's payload
go back; *the sampler* names nobody whose job ended long ago; *usage* counts every
second once; *state files* are always one complete version; *idle clocks* belong to
the job beside them; *rates* are no higher than what was used; *cards* go to the job
that has them; *one collector* and *one SSH master per node* run at a time; *the UI*
never marks as seen what it does not show.

## Modules

| module | what it is |
|---|---|
| `SharedSpool` | the abstract promise of log sharing to the readers of the spool directory |
| `LogShare` | the mechanism: collect thread, pool threads, files, crash and restart |
| `Debounce` | the abstract promise of the debounce: when an alert may be repeated |
| `Notifier` | alerts: the cycle that judges a snapshot, debounce, delivery thread, restart |
| `JobOutcomes` | ends of jobs: the comparison of two snapshots, the outcome queue and its worker |
| `DailyThread` | the message under which a day's alerts are put, made by two threads |
| `Polling` | what the collector knows of each node: roster, payloads, polls, rows |
| `AgentRepair` | the agents of one node and the repairs that restart them |
| `Masters` | the SSH master of one node between the threads that use it |
| `Scripts` | batch scripts: cycle and fetching thread |
| `Sampler`, `Records` | the scheduler's queries in the background; what the answers of the two backends say |
| `Ledger`, `UsageDays` | GPU hours over checkpoints, crashes and the sacct worker; splitting a job over days and merging the two sources |
| `Waste` | the idle and parked clocks of a GPU |
| `Durable` | one state file: threads that save, temporary file, rename, cache, power loss |
| `Daemon` | collectors that start, stop and die; the commands that stop them |
| `Agent`, `Meters` | what an agent publishes from caches of different age; counters turned into rates |
| `Allocation`, `NodeLists` | which card belongs to which job; two readers of host and card lists |
| `Refresh`, `LogView` | what the terminal UI shows and announces; its log panes |
| `LogShareMC`, `NotifierMC`, `JobOutcomesMC`, `PollingMC`, `StateMC`, `DataMC` | small instances for TLC |
| `LogShareProofs`, `NotifierProofs`, `JobOutcomesProofs`, `PollingProofs` | theorems about one component, for every value of the constants |
| `DataProofs` | the same for `Records`, `Sampler`, `Meters`, `UsageDays` and `Allocation` |
| `NodeListsProofs` | for `NodeLists`, on the lemmas of `DataProofs` about folds |
| `StateProofs` | for `Ledger`, `Waste`, `Durable`, `DailyThread`, `Refresh`, `LogView` and `Agent`: what is remembered over cycles and restarts |
| `SingletonProofs` | for `Daemon`, `Masters`, `AgentRepair` and `Scripts`: what there is one of at a time |

`LogShare` implements `SharedSpool` and `Notifier` implements `Debounce`, both by a
refinement mapping, and `Sampler` instantiates `Records` for the scheduler and the two backends. The other modules meet only through
the snapshot or a file that one writes whole and the other reads whole, so they share
no variable. `StateMC` and `DataMC` therefore put several of them into one instance of
which one part moves at a time: what is checked is each part's own state graph.

An operator whose comment begins "Mistaken variant" is a plausible mistake in the code;
the model does not use it. It documents which property notices the mistake.

### Log sharing: `LogShare`

Variables carry the names of the code without the `_log_` prefix (`live`, `paths`,
`owned`, `tokens`, `fingerprint`, `published`, `status`, `nextCheck`, `inflight`).
`pc`, `resets`, `gone`, `todo` and `dropping` are the collect thread's place inside
`_share_logs` and its local lists; `at`, `job`, `token`, `seed`, `stream`, `fp`,
`data` and `found` are the place and the locals of each thread in
`_mirror_one_job_log`; `lock` is `_log_lock`, which is only visible when it is held
across a file write. `queue` is the executor's backlog.

An action is one critical section, or one file access made outside the lock; the
code between two of them touches only locals. So the actions of a pass are Begin
(paths, owner and token read together), Refuse, ReadPrior and SkipStream, ReadKnown,
Stat or ReadAsOwner (the privilege-dropped helper for a root-squashed file), ReadTail,
PublishStatus, Withdraw, KeepMirror and Republish, WriteTemp and Install (the two
halves of `atomic_write` under the lock), BackOff, Finish; and those of a cycle are
ShareLocked, ResetStream, ForgetPaths, DropMaps, DropFingerprint, DropFile, Submit,
Report. Users' files grow, become unreadable and recover; spool files may be lost;
the collector may crash anywhere and restarts through ClearStale and Start.

Abstractions: a log tail is the file it was read from and how far that file had grown;
a scheduler record is one value (`Seeds`) that names the streams it configures, so a
changed path or owner is another record; tokens are drawn from a finite set and are
always different from every token still referenced, as a new `object()` is; a
monotonic deadline is "none", "later" or "due", and time may pass at any moment.
A missed case of the code is deliberate in two places: `valid_slurm_job_id` is true of
every job, and the directory check of `_prepare_log_spool` succeeds. An unlink succeeds
too: where the code swallows its error (`collector.py:562`, `:662`, `:672`) the file stays,
as it does for a directory that lost its permissions, and the statements below about
removed files do not cover that.

What is checked:

- `SpoolBacked`: a spool file belongs to the record the last cycle validated, or the
  running cycle is about to remove it. It fails as soon as the token comparison under
  the lock is dropped.
- `FingerprintHonest`: a fingerprint is never ahead of its mirror, because the
  `fstat` precedes the read.
- `OneMirrorPerJob`: the in-flight mark excludes a second pass of the same job even
  if it leaves and rejoins the queue.
- `NothingKept`: between cycles no map but the token map and the in-flight set knows a
  job that left.
- `ImplementsSharedSpool`: the mechanism refines `SharedSpool`, under the mapping of
  live jobs' paths to `trusted`, the spool to `files`, and the collect thread's place
  to `phase`.
- `EventuallyMirrored`: liveness under the fairness below.
- `CrashRemnantsCleared` is what `collector.py:667` promises and does not hold, see
  Findings.

### Alerts: `Notifier`

An alert key is a pair of a kind and what it is about (`down:<node>`, `pend:<job>`,
...). Kinds the code judges alike are one kind here: *hot* stands for temperature, ECC
errors and GPUs that hold memory but do no work. The GPU index in a key is dropped.

| variable | code |
|---|---|
| `told` | `_down`, `_blind`: outages already confirmed |
| `held` | first-seen times: `_pending_down`, `_pending_blind`, `_pending_rogue`, `_pend_seen` |
| `mark` | `_last_sent`, the debounce slots |
| `below` | `_free_was_below` |
| `queue`, `sending`, `released` | `_queue`, the alert the consumer holds, `_rollbacks` |
| `saved` | `notify_state.json` |
| `phase`, `left` | the place of `process()`: keys it still has to judge |
| `view`, `roster`, `clean`, `padded` | the snapshot: conditions it shows, whether it has a node list, whether the scheduler's query succeeded, whether it invents free GPUs |
| `quiet`, `settled`, `fate` | history for the properties only |

`BeginCycle` applies the rollbacks and takes a snapshot; `Judge` is one key of one
section of `process()`, with its `_ok_to_send` and `_post`, in the order of the
sections (`Stages`); `Save` and `SaveFails` end the cycle. `Take`, `Deliver` and `Fail`
are `_drain`; the consumer runs between any two keys of a cycle. `Restart` is the death
of the process anywhere, with the queue lost and the memory read back.

Time is a count of ticks, and each time stamp is kept as its age, up to the age where
the code stops telling ages apart (`Grace` for first-seen times, `Gap` for debounce
slots). So no bound on time is needed. `process()` reads the clock once, hence `Tick`
only while the cycle sleeps. Only alerts carry a time that is read later; recoveries
do not age.

The snapshot is any set of conditions, filtered by what the scheduler's sampler does
when its query fails (`Shows`): the last node and job lists stay, the allocations are
emptied. Direct messages (`_post` with another channel), the reload of the
configuration, wording, and an exception that escapes delivery are left out.

What is checked:

- `OneYoungAlert`: no alert is on its way twice within its gap, because a rollback
  frees a slot only if the slot is not newer than the alert that failed.
- `SilenceIsOwed`: a taken slot has a reason. Its alert is under way, was shown, failed
  and is about to be released, or went with a full queue or the process.
- `GraceIsServed`: an outage, a blind node or use outside the scheduler is alerted only
  after every snapshot of one process showed it for the grace time. The run has
  the outage only; a blind node and use outside the scheduler, which a blind node hides and
  a failed query puts off, are left to the theorem (`GraceIsKept`), since with their keys
  the run would take too long.
- `OldNewsStaysQuiet`: what was reported and saved is not reported again while it
  lasts, over restarts and failed saves.
- `ImplementsDebounce`: a key is repeated within its gap only if its alert failed, and then
  from the next cycle on, or if the process died before the memory of it was saved. The
  queue, the consumer and the rollbacks are hidden: a slot is open once its mark has
  expired and otherwise holds the fate of the alert that took it. A rollback that frees
  the slot of a newer alert is no step of `Debounce`.
- `NagsAreHeard`: a standing condition is queued and shown again and again.
- `OutagesAreHeard`, `FreeIsCounted`: what the documents promise and the code does not
  do, see Findings.

### Job outcomes: `JobOutcomes`

`running` and `run` are the scheduler's side: jobs start, end, and may start again under
the same id. `Diff` compares a sound snapshot with the memory (`tracked`, `sources` for
`_jobs` and `_job_logs`), `SkipDiff` is a snapshot with errors, which drops the log
sources; `Offer` puts one batch into `_outcome_queue` or defers it when the queue is
full; `Remember` rebuilds the memory, keeping the deferred jobs; `Save` and `SaveFails`
write it. The worker's actions are `Take`, `Tell` (one job: the answer of slurmdbd and
the hand-over of the post) and `BatchFails` (an exception ends a batch). `Restart` may
come anywhere.

The code keeps no run numbers. They are history here: they say which run a remembered
name, elapsed time or log source belongs to. The answer of slurmdbd is any answer, as it may
fail or come before the record is written. Jobs of users in neither list are left
out, since the code skips them before they are remembered or queued. The worker takes
a batch's jobs in any order, the code in the order of the list; no property sees it.

What is checked: `NoEndIsDropped` (deferral loses nothing), `NoEndIsRepeated` (what the
worker still has to judge is neither judged nor remembered, except what an interrupted
cycle had not saved), `OnlyEndsAreReported` (a failed answer never makes a job look
ended), `TailOfTheRun` (a log tail belongs to the run it is sent for), and
`DoneIsAnnounced` (liveness).

### Polling: `Polling`

A cycle is a walk (`start`, `visit`) over the roster, one action per node: ReadPayload,
Submit, Refuse or Skip. BeginCycle takes a roster and prunes (`absent`), Publish makes
the rows. Answers of polls come at any time, also inside a walk and after the node was
forgotten. `threads` counts the polls that really run, which the code's `_inflight` is
supposed to tell. WriteFile leaves anything under a node's name, by any author, of any
kind, format and build; what the code does not accept serves as little as an expired
payload. Ages instead of time stamps, up to the age where the code stops telling them
apart, make time unbounded.

- `OnePollPerNode`: marks and threads agree although forgetting a node must not drop the
  mark of a poll that is out.
- `RowsAreRecent`: numbers on a row that is not marked stale are recent.
- `GoodDataAreKept`: last good data give way only to good data, or to nothing after two
  missed rosters.
- `EveryNodeIsPolled`: the rotation lets no node keep the pool, under the conditions in
  the property. They are needed: with three nodes it fails if a poll may answer within
  a walk, because a slot that becomes free behind the visited node is taken before the
  walk comes back.
- `GoneIsForgotten`: a node that left is forgotten, also if its last poll answers late.

### Agents: `AgentRepair`, `Agent`, `Meters`

`AgentRepair` numbers the readings of one node. Repairs are requested, wait in the pool,
kill over SSH (which may not arrive), and launch; agents take the lock or give up, work,
end their round when told to stop, or vanish. `ReadingsAdvance` says that the payload
never goes back. `Agent` is one collection, step by step, while a driver reset may hide
boards and number them anew; `PayloadIsTheCards` bounds how long a cached topology or
health sample may be wrong. In `Meters`, places of cgroups change owners and counters
start over or wrap, and `Sampling` is one walk over them, in any order that goes through
one directory after the other. A place has a fate in a walk: its counter is read or not,
it is gone when it is opened, its step daemon does not tell the job, or the walk has
looked at enough entries before it. A place that is gone ends the scan of its directory,
as every error there does (`node_telemetry.py:244`), and a directory may not be scanned at
all. `MetersAreHonest` says that no rate exceeds what its owner used, and that of the
directories which no error hides a job's only one is reported and none of two, unless the
sample says that it is incomplete. `missed` of a sample records as history which
directories errors may hide; the code keeps no such record, see the observations. `Sent`
ends a sample: the agent sends it before it takes the next.

### Scheduler: `Sampler`, `Records`

`Records` is the scheduler's table of jobs, and as operators what `scontrol --json` and
the text records between two queue listings make of it; `BackendsAgree` compares them.
`Sampler` runs one generation of queries against a table that moves, with failures at
every step and a switch of the backend. `AllocIsSound` has two parts, `AllocIsRecent` and
`AllocIsAnchored`. The first compares what is shown with
when the job really lost the card. The second says what the comparison of the two listings
is worth while the queue moves, where `BackendsAgree` is about one that stands still:
what the text gives a job lies on nodes which the job held before the text was asked for
and holds after it, in the same state. It says nothing of the cards of a node, because the
listings do not name them: a job that is requeued and starts again on the same node, in
time between the two listings, may be shown on the card it had in between.

### Usage: `Ledger`, `UsageDays`

`Ledger` keeps one amount, what was sampled altogether, and ages in place of time stamps
for the sample, the last write, `sacct_ts` and the last attempt; sample, back-fill and
checkpoint are the steps of a cycle, the worker saves at any time, and stop, death and
load go between. A cycle may be given up after its sample (`CycleFails`), by anything
that raises between `_accumulate_usage` and `_save_usage`: the rest of `collect_all`,
`data.json`, the idle clocks. The loop catches it and samples again. A worker thread that
cannot be started also ends the cycle, and leaves the mark set for the life of the process
(`worker` is then "stuck"). `missed` is history: the last save that was to come was not
reached or failed. `UsageIsBounded` says that no second is counted twice, and that after a
cycle which got to its save and did not fail to write, a crash loses less than
`SaveEvery + MaxGap`, whatever happened in the cycles before: one good cycle makes up for
all of them. While cycles go on failing the loss has no bound, and none is claimed.
`UsageDays` is the loop that cuts a job at midnight, on a calendar of
days of given lengths, and the merge of sampled and accounted time.

### State that outlives a process: `Waste`, `Durable`, `Daemon`, `DailyThread`

`Waste` follows one GPU: the job it really has and for how long, what runs on it, the
clocks, the row (measured or stale) and the file. `Durable` is `_write_state_json` and
`atomic_write`, one system call per action, with threads that save at once, a full disk,
a death that leaves the temporary file, a loss of power that keeps only what was synced,
and somebody who replaces or edits the file. `Daemon` has the lock, the pid file and the
commands. In `DailyThread` a message may arrive and its answer may be lost; `excuse`
records what may have led to a second parent, and the property allows no other reason.

### SSH and scripts: `Masters`, `Scripts`

`Masters` is `ssh_ensure_master` for two threads: mark, lock, check, removal of the
socket, connection. `cut` records masters that lost their path while they lived (a
check that timed out, an older master that exited late). `Scripts` interleaves
`_fetch_scripts` with the two critical sections of `_fetch_one_script`.

### Presentation: `Refresh`, `LogView`, `Allocation`, `NodeLists`

`Refresh` is `_refresh_all_locked` with its file, its two-phase fallback and the job
notifications; `LogView` a job screen and its polling threads. `Allocation` binds cards
to jobs as `reconcile_gpu_alloc` does, for every placement, every view of the processes
and every order of jobs; `NodeLists` types any line, token by token, or prints what
Slurm would. `ListsAreRead` says that the strict and the lenient reader agree on any line
the strict one accepts (`ReadersAgree`) and that both read what Slurm prints as it was
meant (`PrintedIsRead`).

## Runs

| run | instance | what it shows |
|---|---|---|
| `one` | 1 job, 2 records (a plain one with stdout merged, a root-squashed one with stderr), 2 threads, 1 growth per file, 1 fault | every interleaving of one job's life; the refinement |
| `live` | 1 job, 1 record, 1 thread, 1 growth, 1 fault | a trusted log is eventually mirrored |
| `crash` | 1 job, 1 record, 2 threads, 1 fault | violation: crash remnants |
| `alerts` | an outage and free GPUs; grace 1 tick, gap 1, queue 1 | debounce, grace and memory over late failures and restarts; the refinement of `Debounce` |
| `nags` | hot and pending; gap 2, queue 2 | liveness of standing alerts |
| `outage` | down of one node; grace 1, gap 1 | violation: failed outage alerts |
| `free` | free GPUs; gap 1 | violation: free GPUs that are not |
| `jobs` | 2 jobs, one of them started twice; batches of 1, queue of 1 | outcomes through a full queue, requeues, failures, restarts |
| `polling` | 2 nodes, one with an agent, one drained; room for 1 poll | polling, its liveness and forgetting |
| `rows` | 3 jobs on 3 cards of 2 nodes; 1 job sampled; 3 jobs on 3 cards of one node; 3 cgroups of 2 jobs in 2 directories; 3 days of 2 hours; lines of 5 tokens | what is made of others' reports |
| `backfill` | 3 days of 2 or 3 hours | violation: the loop over days |
| `long` | 1 GPU with 2 jobs; 5 ticks of usage; 2 days; 3 collectors; 2 boards; 3 writes of `data.json`; 2 saving threads; 3 agents and 2 repairs; 2 writes of a log; 3 masters; 2 scripts | state over many cycles and restarts |

Bounds of log sharing: `MaxVersion` is how often a source file grows, `MaxFaults` how many crashes,
lost files, failed reads or failed writes happen in a run. One growth separates "before
the read" from "after the read", which is all the fingerprint logic can tell apart; one
fault at every possible place covers each error path that is modelled. Three tokens per job suffice for
two threads and the map to reference different ones, and `CanMint` never blocks with
them. Two records are needed for a change of seed, and the code never compares three.

Bounds of the notifier: there is none on time, cycles, failures or restarts. A grace of
one tick tells "just seen" from "long enough". Keys interact only through the queue and
through the two dependencies of `Holds` (an outage hides a blind node, a blind node its
use outside the scheduler), which only the theorems reach. A queue of one is
full as soon as one alert waits. `nags` needs a queue as long as the number of keys: with
less room one key may lose its place for ever, and the code takes the debounce slot
anyway. The real queue holds 200 messages, and a cluster with more simultaneous
conditions than that may starve one.

Bounds of outcomes: `MaxRuns` is how often a job starts. Two runs of one job distinguish
an entry of an earlier run from the present one; the second job makes the queue full.

Bounds of `rows` and `long`: what is bounded by a constant (`MaxTime`, `MaxChanges`, `MaxFiles`,
`MaxReadings`, `MaxMasters`, `LastDate`, `MaxTokens`, ...) is a history that could go on;
each bound is the smallest at which the mistaken variants of that module are noticed and
every action fires. Five ticks of usage hold two checkpoints, a pause longer than
`MaxGap`, a cycle that is given up before its save and a restart; `RetryEvery` is shorter
than `AskEvery`, as 15 minutes are than `SACCT_BACKFILL_SEC`. Three collectors are one that leaves, one that waits for the lock
and one that comes later; three agents likewise. Three files are the old version, a
thread's temporary file and somebody else's. Three cards on one node are the least on
which an index permutation is not its own inverse. In `Meters` at
most one place of a walk is not read, and at most one directory not scanned, together with
a place that is gone or alone (`SomeFates`, `SomeUnscanned`): a job's cgroup that vanishes,
and a user's directory that does so meanwhile. The lemmas about a walk
are proved without these two bounds. `Sampler` runs with one card, so on one node: with two nodes the run would
take too long. There `AllocIsAnchored` is about states and about jobs that came or went
between the listings; that other nodes are told apart is left to the theorem. Ages in `Polling` and `Waste` are complete above their limits.

Fairness of log sharing (`FairSpec`): the collect loop runs for ever (`collector.py:2181`), pool
threads run whenever they have work (they are OS threads of the executor and their
file accesses are bounded by time-outs or return errors), and time passes for every
deadline. Nothing is assumed of users, files or faults.

Fairness of the notifier (`PromptSpec`, used by `nags` and `outage`): cycles and the
consumer thread run for ever, weakly fair (`collector.py:2181`, `notify.py:709`). A tick
stands for minutes and a message takes seconds, so a tick comes with the queue empty;
it can only come in the sleep between two cycles, hence strong fairness. `NagsAreHeard`
and `OutagesAreHeard` assume that from some time on every snapshot is sound and shows
the condition, Slack accepts messages and nobody stops the process.

Fairness of outcomes (`Spec`): cycles and the worker run for ever. `DoneIsAnnounced`
assumes that from some time on no process or batch dies, and that sound snapshots keep
coming; without the latter the memory is never compared.

Fairness of polling (`FairSpec`): cycles begin, walk on and publish (weak), a poll that is out
answers, since every SSH command has a time-out (weak), time passes between cycles
(strong, since a tick falls only into the sleep), and the executor does not refuse one
node for ever (strong). Fairness of `UsageDays`: the loop of the worker thread runs on.

## Proofs

All theorems are about invariants, action properties or the refinement of a state
machine, for every value of the constants that the named `ASSUME`s of its module
allow. These say that markers differ from real values, that times, bounds and sizes are
natural numbers (positive where the code divides by them or waits for them), and the
few shapes that the text below names. Types are proved inside the inductive
invariants and not checked by a run of their own.

**Log sharing.** `LogShareProofs` proves `TypeCorrectness`, `SpoolIsBacked`,
`FingerprintsAreHonest`, `OneMirror`, `NothingIsKept` and `ImplementsSpool` for every
set of jobs, records and threads and every bound. The argument for `SpoolBacked` is the
one a reviewer would make. `WriteLocked` says that between the re-check and the rename
nothing the thread checked can change, because every step that could needs the lock.
`TokenMeansSeed` says that a thread whose token is the job's token read the seed the job
still has; it needs that a minted token is fresh, and that no thread can begin with paths
that are being forgotten (`PathsKept`, `Forgotten`). `ReadInOrder` says that what a
thread holds comes from its own seed, the fingerprint first. `CyclePhase` ties the lists
of the collect thread to its place. `SpoolBacked` is not inductive without these: it
does not say why a late thread's token is stale. `OneMirrorPerJob` rests on `Claimed`:
whatever is queued or running is in flight, and what is about to be submitted is neither
queued nor running. `NothingKept` speaks of the moments between two cycles; `Cleaned`
says for every moment what the running cycle has still to remove, and a late thread adds
nothing to it. `ImplementsSpool` is the refinement: with the invariant, every step
is a step of `SharedSpool` or changes nothing that it sees.

**Alerts.** `NotifierProofs` proves `TypeOK`, `OneYoungAlert`, `SilenceIsOwed`,
`GraceIsServed` and `OldNewsStaysQuiet` for any keys, grace and debounce times and any
queue. The assumptions are the shape of a key, one free-GPU key (`FreeAssumption`: the
code has one flag `_free_was_below` for it), and positive gaps. The argument for the
first two is about ages. An alert younger than its gap is exactly as old as its slot
(`SlotMatches`), and there is one of a key at most, counting the queue, the consumer's
hand and the rollbacks together (`OnlyOne`). Neither is inductive alone: a rollback
breaks the first unless the second holds, and a new alert breaks the second unless an
expired slot means, by the first, that no young alert is left. `AllOwed` is
`SilenceIsOwed` with the case of an alert that was never sent excluded. `ClockIsHonest`
and `SettledIsKnown` say that the clock and the memory, the live and the saved one,
never claim more than the history does. `DebounceIsKept` is the refinement of `Debounce`.
It needs `FateMatches`: an alert that holds its slot and is still under way has an open
fate, and one whose rollback waits has failed. With it a cycle's begin, which
releases what failed, changes exactly the failed slots, and each other step is one of
`Debounce` or changes nothing that it sees.

**Job outcomes.** `JobOutcomesProofs` proves `TypeOK`, `OnlyEndsAreReported`,
`NoEndIsRepeated`, `TailOfTheRun` and `NoEndIsDropped` for any jobs and any sizes of batch
and queue. An end waits at most once (`WaitingOnce`); what the memory and the lists of the
running cycle name neither waits nor was judged (`MemoryIsNew`), for which the invariant
needs that what was reported is over (`AllOver`): a job that a snapshot shows running is a
run not reported before. `NoEndIsDropped` needs `Followed` in addition, which says where
an end can be in the middle of a cycle.

**Polling.** `PollingProofs` proves `OnePollPerNode`, `GoodDataAreKept` and `RowsAreRecent`
for any nodes, roster order, pool and times. The first needs that the set in flight is
finite and lies in the nodes; marks and threads change together in `Submit` and `Answer`
and nowhere else, in particular not in `Prune`. The second needs `AbsencesAreRecent`: a
node on the latest roster has no absence counted, so one that is retired missed two in a
row. The third needs that no node rests longer than one that is down (`RestsAreBounded`),
although its rest doubles with every failure: the code takes the smaller of the doubled
rest and the longest one. That the power is a number at all is shown without
induction, by counting: 2^n is the number of subsets of a set with n elements.

**The scheduler.** `DataProofs` proves `BackendsAgree` for any jobs, array tasks and
GPUs. The invariant is the scheduler's part of the bargain: jobs that hold GPUs hold
different ones. From it follows that each record claims GPUs alone (`ClaimsStand`), and
from the shape of the ids (`IdsAreApart`) that each is the only one with its ids, so that
the records that are believed are exactly the clear ones of queued jobs
(`AcceptedAreClear`). `AllocIsSound` (theorem `SoundAlloc`) has two parts. `AllocIsRecent`
(`ShownIsRecent`) is proved for any number of jobs, GPUs and any age limit. What `Sampler` remembers of the past is how long ago each job had each GPU. The
invariant (`AnswersAreYoung`) says that every answer on the way names pairs that were had
since the generation began, a text what it claims, and the adopted snapshot since the
moment that is noted as its age; time makes both sides older alike. `AllocIsAnchored`
(theorem `TextIsAnchored`) needs two facts about a query under way. GPUs always lie on
their job's nodes (`AnchorInv`), so a line of the text that is shown under an anchor says
nothing about other nodes than the anchor's (`SoundLine`); and a line is believed only
under an anchor that both listings have, of which the first is the one noted as `before`
and the second is made of the queue as it is now.

**Usage and clocks.** `StateProofs` proves `UsageIsBounded` (its parts are
`NoTimeIsInvented` and `LossIsBounded`) and `StopKeepsAll` for any intervals. `TimeIsCovered` says that the time counted as awake
ends where the interval since the last sample begins, so it can be added without overlap.
`UnwrittenIsRecent` is the bound a reviewer would look for: what is not written yet was
sampled since the last write, but for the interval that the write fell into. That holds
however many saves failed or were not reached, and is inductive where `LossIsBounded` is
not, because the latter forgets how long ago the last write was. Only that the last write
is recent depends on the last save: one that is reached writes or finds the last write
younger than `SaveEvery`. `CleanIsKept` (`_usage_dirty` is false only if the file is complete) gives the
third. `ClocksAreHonest` is proved for any jobs and any age: a clock, in memory or in the
file, belongs to a job that had the GPU at least that long, or to one that had it before
(`ClocksAreOwned`); a file that claims to be what was last written is (`SoundIsWritten`); and a use that was measured has stopped the clock (`UseStopsClock`).

**What is remembered.** `StateProofs` also proves five properties of what outlives a cycle.

- `StateFileIsHonest`, for any savers, files, texts and edits. `OwnFile` says of a saver at
  each step of `atomic_write` what its file is: under no name but the temporary one,
  untouched, and whole and safe before it is renamed. `CacheIsGood` speaks of every
  file and not only of the one under the path: no file ever matches the noted signature
  unless it is good, or was edited while the note was being taken. That is what makes it
  inductive: a file that is not under the path now may come there.
- `OneParentPerDay`, for any days and both threads. The parent of a day without an excuse is
  remembered or about to be (`OnlyParentIsKnown`), and who posts has seen that there
  is none (`PostsAreNeeded`), which the lock keeps true (`LockIsCall`).
- `RefreshIsHonest`, for any number of changes. `SeenIsShown` follows the time stamp
  that is taken before the file is read: what was read is at least as new as the file
  had been by then. `InOrder` says that with one source answers never go back, which
  `ToldIsOver` needs.
- `PanesCatchUp`, for any files, panes and threads: `TextIsNotOlder` and `SeenIsRead`
  order signature, text and file, through the hand-over of a reader's updates.
- `PayloadIsTheCards`, for any number of boards and any times of caches. The invariant
  relates the age of a cache to the time since the last reset: a cache whose
  remaining life and the quiet time together exceed its life was filled after the reset
  (`MinorsAreKnown`, `HealthIsKnown`). That there is a board for every index, which the
  model chooses by its rank, is a pigeon-hole argument (`AtIsThere`).

**One at a time.** `SingletonProofs` proves `OneCollector` for any number of collectors,
`OneMaster` for any threads and masters (the invariant says in which places of
`ssh_ensure_master` the path may be free or hold a dead master), `ReadingsAdvance` for any
number of agents and repairs (the agents that work are the holder of the lock,
`LockIsWork`, so whoever holds a reading holds the latest, `LatestIsHeld`), and
`AskedOnce` for any jobs, which is inductive once its variables have their types.

**Folds.** Four properties are about operators that walk over a sequence or a set, three
in `DataProofs` and the last in `NodeListsProofs`. Induction as the library states it takes a predicate as a parameter,
which the provers cannot instantiate; `Upwards` is induction over a set of numbers in
its stead, from the well-foundedness of `<`. With it `IteratesExist` shows that a
`FoldLeft` whose step is a function is a walk from element to element, `SumsExist` the
same for sums over a set, and the properties follow step by step.

- `MetersAreHonest`, for any directories, jobs, counters, layouts and any limit. While
  the walk goes (`WalkKnows`), what it has of a job comes from a directory of that job
  and is at most what was used since the last reading (`Sound`), `twice` has the jobs met
  twice and no others (`Exactly`), and each directory behind it was met, hidden by an
  error, or left because the walk was cut short (`Thorough`).
- `SplitIsExact`, for any number of days and any job and amounts, on days of the nominal
  length. The invariant says that what is filed under each day up to the loop's is what
  the job used of it. The sums of a reader are compared entry by entry: a source at
  least, both at most (`SumsCompare`, `SumsAdd`). That the days are equally long is a
  hypothesis of the theorem, as it is one of the code; the run `backfill` shows what
  happens otherwise.
- `CardsAreRight`, for any cards, jobs, users, outsiders and any permutation of the
  indices. `ListedOnce` makes the entries as many as the cards (`EntriesAreHeld`), and
  after each step of the first two passes every set of jobs has as many cards bound and
  entries left as it has cards (`Balanced`). That holds for every set because a pass looks
  for a user's job and not for a certain one: if a card's user had no entry left, all the
  cards of that user's jobs would be bound to those jobs, this card among them
  (`UserStep`). In the third pass, with nobody outside the scheduler, an entry that is
  left means that one of its cards is not bound (`EntryHasCard`), so none is lost.
- `ListsAreRead` (theorem `ListsRead`), for any numerals, widths and limits and lines of
  any length. The invariant `LinesInv` is that a line consists of tokens (`Readable`) and
  that a printed line is what its meaning prints (`MeaningIsPrinted`).
  For `ReadersAgree`: both readers split alike, and what that gives consists of tokens
  again, because a walk stays in the set its steps stay in (`FoldWalks`); the sections of a
  name are defined from its end (`PartsExist`). The pieces that the strict reader takes are
  numerals and ranges that the lenient one spells out alike (`RangesAgree`,
  `IndicesAgree`), because nothing joined is longer than the whole (`FlattenType`) and
  the whole is within the strict limit; so no name is too large for the lenient reader
  either (`GroupsAgree`, `HostsAgree`). That needs the strict limit to be the lower one,
  as in the code, which `ListAssumption` says.
  For `PrintedIsRead`: the commas of a name are inside its brackets, so the list is split
  into the names that were printed (`PlainPassed`, `BracketPassed`, `OneName`, `TwoNames`);
  a name falls into letter, brackets and tail (`NameSections`); a range is spelled out
  up to the limit (`RangeIsRead`); and numbers that differ, printed as wide as each other,
  make hosts that differ (`CrossApart`, `CrossGroup`). So what is read is the set of hosts
  that was meant (`NameStands`), each once (`AsMany`), or refused where that is too many
  (`PrintedIsAnswered`).

Every safety property that a run checks is stated by a theorem, the two refinements
included. Model-checked only: the liveness properties `EventuallyMirrored`, `NagsAreHeard`, `DoneIsAnnounced`,
`EveryNodeIsPolled` and `GoneIsForgotten`, since they need
fairness and `ENABLED`; and what the violation runs refute.

## Findings

- **Temporary files survive a crash** (`crash`). `_clear_stale_log_spool`
  (`collector.py:668`) removes `*.out` and `*.err`. A collector that dies inside
  `atomic_write` leaves `.<job>.out.<pid>.tmp`, which neither pattern matches and which
  a later process with another id does not replace.
- **An outage whose alert failed is never reported** (`outage`). `_ok_to_send`
  (`notify.py:672`) and `_drain` (`notify.py:704`) say that a failed alert fires again.
  For down and blind nodes `process()` also notes the outage as confirmed
  (`notify.py:374`) before delivery is known, and asks for that first in the next cycle.
- **Free GPUs that are not free** (`free`). A failed scheduler query empties the
  allocations, so GPUs of a job without processes count as free (`notify.py:551`). The
  check for use outside the scheduler skips such cycles (`notify.py:491`); the free
  alert, which `docs/ALERTS.md:87` ties to the free-GPU count, does not.

- **A day of 25 hours stops the back-fill** (`backfill`). The loop that splits a job at
  midnight takes midnight + 86400 seconds for the end of the day (`collector.py:959`).
  Where daylight-saving time ends, that is 23:00 of the same day, the next piece is empty,
  and the loop does not advance: the worker spins and `_sacct_inflight` stays set, so
  nothing is rebuilt any more. On a day of 23 hours an hour goes to the wrong day.

Observations that contradict no document, and so are no findings:

- `collector.py:577`: a pass that begins after its job was forgotten mints a token that
  no later cycle removes.
- `notify.py:566`: if sacct fails or has not yet recorded an end, a failed job of a user
  who is only in `job_fail_users` is not announced.
- `notify.py:386`: a node counts as blind also if it never reported, which
  `docs/ALERTS.md:81` does not say.
- `notify.py:741`: a call that computed its day before midnight may open a second parent.
- `collector.py:2200`, `stop_daemon`: a command that read the pid file of an old collector
  can remove the file of the next one.
- `collector.py:1503`: on a stale row, parked time is shown beside whatever job the GPU has
  now; the property therefore speaks of measured rows.
- `collector.py:281`: an inventory whose write failed is not written again before it changes,
  because the memory was updated first.
- `collector.py:2190`: a cycle that raises after its sample skips the save of the usage. As
  long as every cycle does, say while `data.json` cannot be written, nothing is saved, on
  whatever file system `usage.json` is; a clean stop or one good cycle saves all of it.
- `collector.py:1001`: if the thread of the back-fill cannot be started, `_sacct_inflight`
  stays set and slurmdbd is not asked again in this process.
- `node_telemetry.py:244`: a cgroup that vanishes between `scandir` and `open` hides the
  rest of its directory from that sample and makes the sampler forget their counters, with
  `jobs_truncated` false. A directory whose step daemon does not tell the job
  (`node_telemetry.py:233`) is left out as silently. A second directory of a job that is
  hidden in this way is not noticed, and the job is reported for the other one alone.
- `collector.py:379`: one failed `scontrol` leaves a job without its script for its life.
- `runtime.py:163`: an edit of a state file between the rename and the note of its
  signature is taken for the collector's own; the temporary file of another process id is
  never removed.
- `screens.py:134`: two polls of one job screen that overlap may leave the older text; the
  prefix "(stderr is merged...)" is gone after the first poll.
- `tui.py:946`: with both sources in use, a scheduler answer older than the file may announce a
  job as done that is not.
- `agent.py:332`: a new agent gives up if the old one's last round takes more than 5 s.
- `common.py:150`: a check that times out cuts a live master off; an old master that exits
  removes the path of its successor.
- `common.py:136`, `collector.py:1199`: an absent entry is 0.0 on the monotonic clock, so just
  after boot it counts as fresh.
- `common.py:1906`: with agents that do not report cgroups, two jobs of one user may be put on
  each other's cards.

## Not modelled

- `cli.py`, `benchmark.py`: they format one snapshot or load a GPU; nothing is kept between
  calls and nothing runs beside them.
- The metrics export and the text of rows, tables and messages: formatting.
- The drawing, sorting, filters and keys of the terminal UI.
- The parallel collection of nodes without a daemon (`common.py:1990`): each node is
  asked once and the answers are gathered; `Masters` has the connection it shares.
- The learned inventory and the skeleton rows, the owner and mode checks of directories, the
  field checks of payloads, and the parsers of nvidia-smi, /proc and sacct, which enter
  only as the records they give or as failures.
- Installation, deployment and dashboards: scripts run once, and other programs' data.

## What is left

1. The collector's cycle as a composition of the parts in the order of its steps, for
   properties across parts: that one snapshot shows a job's card, log and idle clock of
   the same run.
2. The inventory and the parallel collection.
