-------------------------------- MODULE Ledger --------------------------------
(***************************************************************************)
(* GPU hours per user (collector.py:800-1001, 2078-2096, 2198-2199):       *)
(* sampled once per cycle, written to usage.json now and then and on a     *)
(* clean stop, and rebuilt from slurmdbd by a worker thread.  Amounts     *)
(* are ticks: what was sampled altogether stands for the shares of users,   *)
(* which are credited, saved and loaded with it.                           *)
(*                                                                         *)
(* A cycle that raises between its sample and its save is given up, and    *)
(* the loop goes on with the next (collector.py:2190); one that raises     *)
(* before its sample changes nothing here.                                 *)
(***************************************************************************)
EXTENDS Naturals

CONSTANTS
  MaxGap,       \* longest interval between samples that is credited (60 s)
  SaveEvery,    \* USAGE_SAVE_SEC
  AskEvery,     \* SACCT_BACKFILL_SEC
  RetryEvery,   \* after an attempt: SACCT_BACKFILL_SEC, or 15 minutes if that is less
  MaxFailures,  \* _SACCT_MAX_FAILURES
  MaxTime,      \* bound: ticks in a behaviour
  Never         \* an age that is not known

ASSUME LedgerTimesAssumption ==
  /\ {MaxGap, SaveEvery, AskEvery, RetryEvery, MaxFailures, MaxTime} \subseteq Nat \ {0}
  /\ RetryEvery <= AskEvery
  /\ Never \notin Nat

VARIABLES
  time,                  \* ticks so far
  step,                  \* of the cycle: "sleep", "backfill", "save", "down"
  account, sacct,        \* _usage: sampled seconds, and the age of sacct_ts
  since, checked,        \* ages of _last_usage_ts and _usage_last_save
  dirty,                 \* _usage_dirty
  kept, keptSacct,       \* usage.json
  worker, asked,         \* _sacct_inflight: "none", "asking", or "stuck" without a
                         \* thread; and the age of _sacct_last_attempt
  failures,              \* _sacct_failures
  awake, missed          \* history: time between samples in one process; whether the
                         \* last save that was to come was not reached, or failed

books == <<account, sacct, since, checked, dirty>>
usageFile == <<kept, keptSacct>>
asking == <<worker, asked, failures>>
ledgerVars == <<time, step, books, usageFile, asking, awake, missed>>

OlderBy(age) == IF age = Never THEN age ELSE age + 1
AtLeast(age, limit) == age # Never => age >= limit

LedgerTick ==
  /\ step \in {"sleep", "down"} /\ time < MaxTime
  /\ time' = time + 1
  /\ since' = OlderBy(since) /\ checked' = OlderBy(checked)
  /\ sacct' = OlderBy(sacct) /\ keptSacct' = OlderBy(keptSacct) /\ asked' = OlderBy(asked)
  /\ UNCHANGED <<step, account, dirty, kept, worker, failures, awake, missed>>

-----------------------------------------------------------------------------
(* A cycle.                                                                *)

Credited == since # Never /\ since > 0 /\ since <= MaxGap

\* _accumulate_usage: the interval since the last sample goes to whoever has a GPU now.
Sample ==
  /\ step = "sleep"
  /\ step' = "backfill"
  /\ since' = 0
  /\ awake' = IF since # Never /\ since <= MaxGap THEN awake + since ELSE awake
  /\ IF Credited
     THEN /\ account' = account + since
          /\ dirty' = TRUE
     ELSE UNCHANGED <<account, dirty>>
  /\ UNCHANGED <<time, sacct, checked, usageFile, asking, missed>>

\* The rest of collect_all, data.json or the idle clocks fail, and the save is skipped.
CycleFails ==
  /\ step = "backfill"
  /\ step' = "sleep" /\ missed' = TRUE
  /\ UNCHANGED <<time, books, usageFile, asking, awake>>

\* _maybe_backfill_sacct; failed attempts do not advance sacct_ts.
AskDue ==
  /\ worker = "none"
  /\ failures < MaxFailures
  /\ AtLeast(sacct, AskEvery) /\ AtLeast(asked, RetryEvery)

NotYetDue ==
  /\ step = "backfill" /\ ~AskDue
  /\ step' = "save"
  /\ UNCHANGED <<time, books, usageFile, asking, awake, missed>>

\* The thread starts, or it cannot: then the mark stays, and the cycle is given up.
Backfill(started) ==
  /\ step = "backfill" /\ AskDue
  /\ asked' = 0
  /\ IF started THEN worker' = "asking" /\ step' = "save" /\ UNCHANGED missed
                ELSE worker' = "stuck" /\ step' = "sleep" /\ missed' = TRUE
  /\ UNCHANGED <<time, books, usageFile, failures, awake>>

\* Mistaken variant of SaveDue: a checkpoint is put off once more.
SaveDueLate(force) == dirty /\ (force \/ AtLeast(checked, 2 * SaveEvery))
SaveDue(force) == dirty /\ (force \/ AtLeast(checked, SaveEvery))

\* _save_usage, which succeeds or fails to write.
Write(force, ok) ==
  IF SaveDue(force) /\ ok
  THEN /\ kept' = account /\ keptSacct' = sacct
       /\ dirty' = FALSE /\ checked' = 0
       /\ missed' = FALSE
       /\ UNCHANGED <<account, sacct, since>>
  ELSE /\ missed' = SaveDue(force)
       /\ UNCHANGED <<books, usageFile>>

Checkpoint(ok) ==
  /\ step = "save"
  /\ step' = "sleep"
  /\ Write(FALSE, ok)
  /\ UNCHANGED <<time, asking, awake>>

-----------------------------------------------------------------------------
(* The worker that asks slurmdbd.                                          *)

Counted(ok) == IF ok THEN 0 ELSE failures + 1

\* The days are replaced and saved at once.
SacctAnswers(ok, written) ==
  /\ worker = "asking"
  /\ worker' = "none"
  /\ failures' = Counted(ok)
  /\ IF ~ok THEN UNCHANGED <<books, usageFile, missed>>
     ELSE IF written
     THEN /\ sacct' = 0
          /\ kept' = account /\ keptSacct' = 0
          /\ dirty' = FALSE /\ checked' = 0 /\ missed' = FALSE
          /\ UNCHANGED <<account, since>>
     ELSE /\ sacct' = 0
          /\ dirty' = TRUE
          /\ UNCHANGED <<account, since, checked, usageFile, missed>>
  /\ UNCHANGED <<time, step, asked, awake>>

-----------------------------------------------------------------------------
(* Stop, death and start.                                                  *)

Gone ==
  /\ step' = "down"
  /\ worker' = "none" /\ failures' = 0 /\ asked' = Never
  /\ UNCHANGED <<time, awake>>

\* Mistaken variant of Stop: the last samples wait for a checkpoint that never comes.
StopLazily(ok) ==
  /\ step = "sleep"
  /\ Write(FALSE, ok)
  /\ Gone

\* The loop ends after a cycle; what is not written yet is written now.
Stop(ok) ==
  /\ step = "sleep"
  /\ Write(TRUE, ok)
  /\ Gone

Die ==
  /\ step # "down"
  /\ Gone
  /\ UNCHANGED <<books, usageFile, missed>>

\* _load_usage.
Load ==
  /\ step = "down"
  /\ step' = "sleep"
  /\ account' = kept /\ sacct' = keptSacct
  /\ since' = Never /\ checked' = Never
  /\ dirty' = FALSE /\ missed' = FALSE
  /\ awake' = kept
  /\ UNCHANGED <<time, usageFile, asking>>

-----------------------------------------------------------------------------
LedgerInit ==
  /\ time = 0 /\ step = "sleep"
  /\ account = 0 /\ kept = 0
  /\ sacct = Never /\ keptSacct = Never /\ since = Never /\ checked = Never
  /\ dirty = FALSE
  /\ worker = "none" /\ asked = Never /\ failures = 0
  /\ awake = 0 /\ missed = FALSE

LedgerNext ==
  \/ LedgerTick
  \/ Sample
  \/ CycleFails
  \/ NotYetDue
  \/ \E started \in BOOLEAN : Backfill(started)
  \/ \E ok \in BOOLEAN : Checkpoint(ok)
  \/ \E ok, written \in BOOLEAN : SacctAnswers(ok, written)
  \/ \E ok \in BOOLEAN : Stop(ok)
  \/ Die
  \/ Load

LedgerSpec == LedgerInit /\ [][LedgerNext]_ledgerVars

-----------------------------------------------------------------------------
\* Every second is counted once, and only if two samples of one process lie close
\* around it, over restarts and reloads (collector.py:863, 866).
NoTimeIsInvented == account <= awake /\ awake <= time

\* After a cycle that got to its save and did not fail to write, whatever happened in the
\* cycles before, a crash loses less than one checkpoint interval and one interval between
\* samples, which a save of the worker may have cut (collector.py:847, 2096).
LossIsBounded ==
  step = "sleep" /\ ~missed => account < kept + SaveEvery + MaxGap

\* Both: there is never more on account than was used, and hardly less in the file.
UsageIsBounded == NoTimeIsInvented /\ LossIsBounded

\* A clean stop loses nothing, whoever wrote last (collector.py:2199).
StopKeepsAll == [][(\E ok \in BOOLEAN : Stop(ok)) /\ ~missed' => kept' = account]_ledgerVars
=============================================================================
