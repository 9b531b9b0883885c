-------------------------------- MODULE Waste ---------------------------------
(***************************************************************************)
(* How long a GPU has been wasted (collector.py:151-260, 304-353,          *)
(* 1494-1505): one clock for a GPU that is allocated and runs nothing      *)
(* (idle), one for memory that is held without computing (parked).  Clocks *)
(* move only on measured rows, are saved every cycle in idle_state.json    *)
(* and read back after a restart.                                          *)
(*                                                                         *)
(* One GPU is modelled; GPUs share nothing but the file.  Clocks are ages  *)
(* in ticks, up to a bound.                                                *)
(***************************************************************************)
EXTENDS Naturals

CONSTANTS
  Jobs,      \* jobs, each allocated once
  MaxAge,    \* bound: ages above are not told apart
  NoJob, NoClock, NoFile

ASSUME WasteAgeAssumption == MaxAge \in Nat \ {0}

Loads == {"none", "holding", "working"}  \* what the processes on the GPU do
Outsider == "outsider"                   \* the owner of a GPU without a job

\* A job is neither "no job" nor the outsider.
ASSUME WasteValuesAssumption == NoJob \notin Jobs \cup {Outsider} /\ Outsider \notin Jobs

VARIABLES
  job, past, held, load,   \* the GPU: its job, earlier ones, for how long, what runs on it
  idle, parked,      \* _idle_since, _parked_since
  shown,             \* the row in the snapshot
  unsaved,           \* _save_idle_state is still to come
  disk, sound,       \* idle_state.json, and whether it has the identity noted
  digest,            \* _state_write_cache: what was written last
  used, calm         \* history: a measured use not saved yet, time since a saved one

gpu == <<job, past, held, load>>
clocks == <<idle, parked>>
file == <<disk, sound, digest>>
history == <<used, calm>>
wasteVars == <<gpu, clocks, shown, unsaved, file, history>>

Clock(owner) == [owner |-> owner, age |-> 0]
Sooner(a, b) == IF a <= b THEN a ELSE b
Later(age) == Sooner(age + 1, MaxAge)
Older(c) == IF c = NoClock THEN c ELSE [c EXCEPT !.age = Later(@)]
AgeOf(c) == IF c = NoClock THEN 0 ELSE c.age
OlderFile(f) == IF f = NoFile THEN f ELSE <<Older(f[1]), Older(f[2])>>

\* Rows that show nothing yet.
Blank == [job |-> NoJob, idle |-> 0, parked |-> 0, live |-> FALSE]

-----------------------------------------------------------------------------
(* The GPU.                                                                *)

Allocate(j) ==
  /\ job = NoJob /\ j \notin past
  /\ job' = j /\ past' = past \cup {j} /\ held' = 0
  /\ UNCHANGED <<load, clocks, shown, unsaved, file, history>>

Release ==
  /\ job # NoJob
  /\ job' = NoJob /\ held' = 0
  /\ load' = "none"
  /\ UNCHANGED <<past, clocks, shown, unsaved, file, history>>

Run(l) ==
  /\ load # l
  /\ load' = l
  /\ UNCHANGED <<job, past, held, clocks, shown, unsaved, file, history>>

\* Time passes between cycles, whether the collector runs or not.
WasteTick ==
  /\ ~unsaved
  /\ held' = Later(held) /\ calm' = Later(calm)
  /\ idle' = Older(idle) /\ parked' = Older(parked)
  /\ disk' = OlderFile(disk) /\ digest' = OlderFile(digest)
  /\ UNCHANGED <<job, past, load, shown, unsaved, sound, used>>

-----------------------------------------------------------------------------
(* A cycle.                                                                *)

\* _track_waste: a clock is kept for the same owner, and started or dropped else.
Kept(clock, runs, owner) ==
  IF ~runs THEN NoClock
  ELSE IF clock # NoClock /\ clock.owner = owner THEN clock
  ELSE Clock(owner)

\* Mistaken variant of IdleClock: a running clock is never set anew.
IdleAnyJob(jid) ==
  IF jid = NoJob \/ load # "none" THEN NoClock
  ELSE IF idle # NoClock THEN idle ELSE Clock(jid)
IdleClock(jid) == Kept(idle, jid # NoJob /\ load = "none", jid)

ParkedClock(jid) == Kept(parked, load = "holding", IF jid = NoJob THEN Outsider ELSE jid)

\* A row with a measurement.  Without the scheduler no job is known.
Measure(schedulerOk) ==
  LET jid == IF schedulerOk THEN job ELSE NoJob IN
  /\ ~unsaved
  /\ idle' = IdleClock(jid) /\ parked' = ParkedClock(jid)
  /\ shown' = [job |-> jid, idle |-> AgeOf(idle'), parked |-> AgeOf(parked'), live |-> TRUE]
  /\ used' = (load # "none")
  /\ unsaved' = TRUE
  /\ UNCHANGED <<gpu, file, calm>>

IdleShown(jid) == IF jid # NoJob /\ idle # NoClock /\ idle.owner = jid THEN idle.age ELSE 0

\* A stale or placeholder row shows the clocks and leaves them alone.
Recall(schedulerOk) ==
  LET jid == IF schedulerOk THEN job ELSE NoJob IN
  /\ ~unsaved
  /\ shown' = [job |-> jid, idle |-> IdleShown(jid), parked |-> AgeOf(parked), live |-> FALSE]
  /\ unsaved' = TRUE
  /\ UNCHANGED <<gpu, clocks, file, history>>

-----------------------------------------------------------------------------
(* _write_state_json of idle_state.json.                                   *)

\* Nothing to write: the text is the last one, and so is the file, by its identity
\* or, if that changed, by its content.
Unchanged(text) == digest = text /\ (sound \/ disk = text)

Saved ==
  /\ unsaved' = FALSE
  /\ calm' = IF used THEN 0 ELSE calm
  /\ used' = FALSE

SaveIdle ==
  /\ unsaved
  /\ IF Unchanged(clocks) THEN /\ sound' = (disk = clocks)
                               /\ UNCHANGED <<disk, digest>>
     ELSE disk' = clocks /\ digest' = clocks /\ sound' = TRUE
  /\ Saved
  /\ UNCHANGED <<gpu, clocks, shown>>

\* A full disk: the file stays as it was, the next cycle tries again.
SaveIdleFails ==
  /\ unsaved /\ ~Unchanged(clocks)
  /\ unsaved' = FALSE /\ used' = FALSE
  /\ UNCHANGED <<gpu, clocks, shown, file, calm>>

\* Somebody removes the file, or puts an equal one in its place.
Tamper(f) ==
  /\ f \in {NoFile, disk}
  /\ disk # NoFile
  /\ disk' = f /\ sound' = FALSE
  /\ UNCHANGED <<gpu, clocks, shown, unsaved, digest, history>>

Loaded == IF disk = NoFile THEN <<NoClock, NoClock>> ELSE disk

\* The collector dies and starts again: _load_idle_state.
WasteRestart ==
  /\ idle' = Loaded[1] /\ parked' = Loaded[2]
  /\ shown' = Blank
  /\ unsaved' = FALSE /\ used' = FALSE
  /\ digest' = NoFile /\ sound' = FALSE
  /\ UNCHANGED <<gpu, disk, calm>>

-----------------------------------------------------------------------------
WasteInit ==
  /\ job = NoJob /\ past = {} /\ held = 0 /\ load = "none"
  /\ idle = NoClock /\ parked = NoClock
  /\ shown = Blank
  /\ unsaved = FALSE
  /\ disk = NoFile /\ sound = FALSE /\ digest = NoFile
  /\ used = FALSE /\ calm = MaxAge

WasteNext ==
  \/ \E j \in Jobs : Allocate(j)
  \/ Release
  \/ \E l \in Loads : Run(l)
  \/ WasteTick
  \/ \E ok \in BOOLEAN : Measure(ok)
  \/ \E ok \in BOOLEAN : Recall(ok)
  \/ SaveIdle
  \/ SaveIdleFails
  \/ \E f \in {NoFile, disk} : Tamper(f)
  \/ WasteRestart

WasteSpec == WasteInit /\ [][WasteNext]_wasteVars

-----------------------------------------------------------------------------
\* A row that names the job on the GPU shows no idle time from before that job had
\* it, also if the row is stale or the collector restarted; the same for time parked,
\* on a row with a measurement; and an idle clock never spans a use of the GPU that was
\* measured and saved (collector.py:327, 347, 1501), over failed writes and a file that
\* others touch.
ClocksAreHonest ==
  /\ shown.job = job /\ job # NoJob =>
       shown.idle <= held /\ (shown.live => shown.parked <= held)
  /\ ~unsaved /\ idle # NoClock => idle.age <= calm
=============================================================================
