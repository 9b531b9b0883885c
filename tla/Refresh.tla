-------------------------------- MODULE Refresh --------------------------------
(***************************************************************************)
(* What the terminal UI shows and announces (tui.py:55-79, 293-314,        *)
(* 876-988, 1028-1034): a timer and keys ask for refreshes, one thread at  *)
(* a time reads data.json or, if that is old or unreadable, asks the       *)
(* scheduler and the nodes itself, in two phases.                          *)
(*                                                                         *)
(* The user has one job at a time.  AnswerRecords carry how many changes of      *)
(* that job they have seen ("at"), and whether they name an error.         *)
(***************************************************************************)
EXTENDS Naturals

CONSTANTS
  MaxChanges,   \* bound: changes of jobs
  MaxWrites,    \* bound: writes of data.json
  NoAnswer

ASSUME RefreshAssumption == {MaxChanges, MaxWrites} \subseteq Nat

VARIABLES
  mine, changes,     \* the job [id, state], changes so far
  data, mtime, young, \* data.json, its mtime, whether it is at most _DAEMON_MAX_AGE old
  forced,            \* _force_render
  at,                \* the refresh thread: "idle", "stat", "read", "first", "second"
  force, stamp, found, \* its force, mtime and answer
  lastMtime,         \* _last_data_mtime
  onScreen,          \* _last_applied
  base,              \* _toast_jobs and _toast_pending
  told, mixed        \* history: ids announced as done, and whether both sources were used

world == <<mine, changes, data, mtime, young>>
thread == <<at, force, stamp, found>>
screen == <<lastMtime, onScreen, base, told, mixed>>
refreshVars == <<world, forced, thread, screen>>

States == {"queued", "running", "over"}
AnswerRecords == [id : 1..(MaxChanges + 1), state : States, at : 0..MaxChanges, wrong : BOOLEAN]

ASSUME NoAnswerAssumption == NoAnswer \notin AnswerRecords

Answer(wrong) == [id |-> mine.id, state |-> mine.state, at |-> changes, wrong |-> wrong]

-----------------------------------------------------------------------------
(* The scheduler, the collector.                                           *)

\* The job starts, is requeued or ends; then there is another one.
JobMoves(state) ==
  /\ changes < MaxChanges
  /\ mine' \in IF mine.state = "over" THEN {[id |-> mine.id + 1, state |-> "queued"]}
               ELSE {[mine EXCEPT !.state = state]} \ {mine}
  /\ changes' = changes + 1
  /\ UNCHANGED <<data, mtime, young, forced, thread, screen>>

\* The collector writes what the scheduler says, or an error.
CollectorWrites(wrong) ==
  /\ mtime < MaxWrites
  /\ data' = Answer(wrong) /\ mtime' = mtime + 1 /\ young' = TRUE
  /\ UNCHANGED <<mine, changes, forced, thread, screen>>

FileAges ==
  /\ young /\ young' = FALSE
  /\ UNCHANGED <<mine, changes, data, mtime, forced, thread, screen>>

-----------------------------------------------------------------------------
(* refresh_all.                                                            *)

PressRefresh ==
  /\ forced' = TRUE
  /\ UNCHANGED <<world, thread, screen>>

\* A tick while a refresh runs is skipped.
StartRefresh ==
  /\ at = "idle"
  /\ at' = "stat" /\ force' = forced /\ forced' = FALSE
  /\ UNCHANGED <<world, stamp, found, screen>>

Rest == force' = FALSE /\ stamp' = 0 /\ found' = NoAnswer

StatFile ==
  /\ at = "stat"
  /\ IF ~young THEN at' = "first" /\ UNCHANGED <<force, stamp, found>>
     ELSE IF ~force /\ mtime = lastMtime THEN at' = "idle" /\ Rest
     ELSE at' = "read" /\ stamp' = mtime /\ UNCHANGED <<force, found>>
  /\ UNCHANGED <<world, forced, screen>>

\* _toast_check: an end is told when neither list has the job any more.
Ended(answer) ==
  IF answer.wrong \/ base = NoAnswer \/ base.state # "running" THEN {}
  ELSE IF answer.id = base.id /\ answer.state # "over" THEN {} ELSE {base.id}

Apply(answer) ==
  /\ onScreen' = answer
  /\ told' = [i \in DOMAIN told |-> IF i \in Ended(answer) /\ ~mixed THEN told[i] + 1 ELSE told[i]]
  /\ base' = IF answer.wrong THEN base ELSE answer

\* Mistaken variant of Noted: the time of the file when it is shown.
NotedLate == mtime
\* The time of the file before it was read.
Noted == stamp

\* read_daemon_data sees the file of the moment, or fails; an answer it got is shown a
\* moment later.
ReadFile(ok) ==
  /\ at = "read" /\ found = NoAnswer
  /\ IF ok /\ young THEN found' = data /\ UNCHANGED at ELSE at' = "first" /\ UNCHANGED found
  /\ UNCHANGED <<world, forced, force, stamp, screen>>

ShowFile ==
  /\ at = "read" /\ found # NoAnswer
  /\ lastMtime' = Noted
  /\ Apply(found)
  /\ at' = "idle" /\ Rest
  /\ UNCHANGED <<world, forced, mixed>>

\* Direct collection, phase one: the scheduler, with cached cards, and a text that
\* says that cards are loading.
ShowScheduler(wrong) ==
  /\ at = "first"
  /\ found' = Answer(wrong)
  /\ Apply(Answer(TRUE))
  /\ mixed' = TRUE
  /\ at' = "second"
  /\ UNCHANGED <<world, forced, force, stamp, lastMtime>>

\* No node is known, so there is no phase two.
ShowNoNodes(wrong) ==
  /\ at = "first"
  /\ Apply(Answer(wrong))
  /\ mixed' = TRUE
  /\ at' = "idle" /\ Rest
  /\ UNCHANGED <<world, forced, lastMtime>>

\* Phase two: the nodes, any of which may fail.
ShowNodes(failed) ==
  /\ at = "second"
  /\ Apply([found EXCEPT !.wrong = @ \/ failed])
  /\ at' = "idle" /\ Rest
  /\ UNCHANGED <<world, forced, lastMtime, mixed>>

\* _rerender: a key that changes the view paints the same answer again.
Rerender ==
  /\ onScreen # NoAnswer
  /\ Apply(onScreen)
  /\ UNCHANGED <<world, forced, thread, lastMtime, mixed>>

-----------------------------------------------------------------------------
RefreshInit ==
  /\ mine = [id |-> 1, state |-> "running"] /\ changes = 0
  /\ data = Answer(FALSE) /\ mtime = 1 /\ young = TRUE
  /\ forced = FALSE
  /\ at = "idle" /\ force = FALSE /\ stamp = 0 /\ found = NoAnswer
  /\ lastMtime = 0 /\ onScreen = NoAnswer /\ base = NoAnswer
  /\ told = [i \in 1..(MaxChanges + 1) |-> 0] /\ mixed = FALSE

RefreshNext ==
  \/ \E state \in States : JobMoves(state)
  \/ \E wrong \in BOOLEAN : CollectorWrites(wrong)
  \/ FileAges
  \/ PressRefresh
  \/ StartRefresh
  \/ StatFile
  \/ \E ok \in BOOLEAN : ReadFile(ok)
  \/ ShowFile
  \/ \E wrong \in BOOLEAN : ShowScheduler(wrong)
  \/ \E wrong \in BOOLEAN : ShowNoNodes(wrong)
  \/ \E failed \in BOOLEAN : ShowNodes(failed)
  \/ Rerender

RefreshSpec == RefreshInit /\ [][RefreshNext]_refreshVars

-----------------------------------------------------------------------------
IsOver(i) == i < mine.id \/ (i = mine.id /\ mine.state = "over")

\* A file that counts as seen is on the screen, or something newer is (tui.py:898); and
\* as long as the file is the only source, a job is told done only when it is, and once,
\* through errors, requeues and repaints (tui.py:946).
RefreshIsHonest ==
  /\ at = "idle" /\ lastMtime = mtime => onScreen.at >= data.at
  /\ ~mixed => \A i \in DOMAIN told : told[i] > 0 => told[i] = 1 /\ IsOver(i)
=============================================================================
