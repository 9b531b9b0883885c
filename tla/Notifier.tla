------------------------------- MODULE Notifier -------------------------------
(***************************************************************************)
(* The Slack notifier (notify.py): every collector cycle compares one      *)
(* snapshot with what was said before and posts alerts; a consumer thread  *)
(* delivers them, and a failed delivery asks the next cycle to release the *)
(* debounce slot of its alert.  The memory is saved at the end of a cycle  *)
(* and loaded by the next process.                                         *)
(*                                                                         *)
(* An alert key is a pair <<kind, subject>>.  Kinds that are judged alike  *)
(* share one: "hot" stands for temperature, ECC errors and wasted GPUs.    *)
(* The alerts about finished jobs are in JobOutcomes.                      *)
(*                                                                         *)
(* Every timestamp is kept as an age in ticks, up to the age at which the  *)
(* code stops telling ages apart, so time needs no bound.                  *)
(***************************************************************************)
EXTENDS Naturals, Sequences, FiniteSets

CONSTANTS
  Keys,        \* the alerts that may be posted
  Grace,       \* ticks a condition of each key must last before an alert
  Gap,         \* ticks between two alerts of the same key (DEBOUNCE, NAG)
  QueueSize,   \* capacity of the delivery queue
  NoClock,     \* no first-seen time
  Idle         \* the consumer holds no alert

Kinds == {"down", "blind", "rogue", "pend", "hog", "hot", "free"}
Confirmed == {"down", "blind"}            \* remembered until they recover
Sustained == {"rogue", "pend"}            \* a grace clock, then nagging
Standing == {"hog", "hot"}                \* nagging at once
Scheduler == {"down", "pend", "hog"}      \* read from the scheduler's answer
Stages == <<{"down"}, {"blind"}, {"pend"}, {"hog"}, {"rogue"}, {"hot"}, {"free"}>>

Kind(k) == k[1]
Subject(k) == k[2]
Of(kinds) == {k \in Keys : Kind(k) \in kinds}

ASSUME KeysAssumption == \A k \in Keys : k = <<Kind(k), Subject(k)>> /\ Kind(k) \in Kinds
ASSUME FreeAssumption == \A j, k \in Of({"free"}) : j = k
ASSUME TimeAssumption == Grace \in [Keys -> Nat] /\ Gap \in [Keys -> Nat \ {0}]
ASSUME SizeAssumption == QueueSize \in Nat \ {0}
ASSUME MarkersAssumption == NoClock \notin Nat /\ Idle \notin [key : Keys, sort : {"alert", "recovery"}, age : Nat]

VARIABLES
  phase, left,                    \* the cycle: keys not yet judged
  view, roster, clean, padded,    \* the snapshot judged in this cycle
  told, held, mark, below,        \* _down/_blind, first-seen, _last_sent, _free_was_below
  queue, sending, released,       \* _queue, the consumer's alert, _rollbacks
  saved,                          \* notify_state.json
  quiet, settled, fate            \* history: see History below

snapshot == <<view, roster, clean, padded>>
memory == <<told, held, mark, below>>
delivery == <<queue, sending, released>>
history == <<quiet, settled, fate>>
vars == <<phase, left, snapshot, memory, delivery, saved, history>>

-----------------------------------------------------------------------------
(* Ages.                                                                   *)

Older(age, limit) == IF age < limit THEN age + 1 ELSE limit

\* A debounce slot that has expired counts as absent (_ok_to_send, _save).
Expired(k) == mark[k] = Gap[k]

OlderClock(age, limit) == IF age = NoClock THEN NoClock ELSE Older(age, limit)

OlderHeld(clocks) == [k \in Keys |-> OlderClock(clocks[k], Grace[k])]
OlderMarks(marks) == [k \in Keys |-> Older(marks[k], Gap[k])]
OlderMessage(m) == IF m.sort = "alert" THEN [m EXCEPT !.age = Older(@, Gap[m.key])] ELSE m

\* A cycle reads the clock once (now), so time passes between cycles.
Tick ==
  /\ phase = "sleep"
  /\ held' = OlderHeld(held)
  /\ mark' = OlderMarks(mark)
  /\ saved' = [saved EXCEPT !.held = OlderHeld(@), !.mark = OlderMarks(@)]
  /\ queue' = [i \in DOMAIN queue |-> OlderMessage(queue[i])]
  /\ sending' = IF sending = Idle THEN Idle ELSE OlderMessage(sending)
  /\ released' = {OlderMessage(m) : m \in released}
  /\ quiet' = [k \in Keys |-> Older(quiet[k], Grace[k])]
  /\ UNCHANGED <<phase, left, snapshot, told, below, settled, fate>>

Blank == [k \in Keys |-> NoClock]

-----------------------------------------------------------------------------
(* One cycle: process().                                                   *)

\* Mistaken variant of Releases: any slot.
ReleasesAny(m) == TRUE

\* A rollback releases a slot only if the slot is not newer than the alert
\* that failed.
Releases(m) == mark[m.key] >= m.age

\* What a snapshot shows of k when the conditions in real hold.  When the
\* scheduler's last query failed (c is false) its old answer is kept, if there is
\* one, but the allocations are dropped, so that GPUs held by a job without
\* processes count as free.
Shows(k, real, c, looksFree) ==
  CASE Kind(k) = "free" -> k \in real \/ looksFree
    [] Kind(k) \in Scheduler /\ ~c /\ roster -> k \in view
    [] OTHER -> k \in real

BeginCycle(real, c, r, looksFree) ==
  /\ phase = "sleep"
  /\ phase' = "judge"
  /\ left' = Keys
  /\ c \/ roster => r
  /\ looksFree => ~c /\ r
  /\ roster' = r
  /\ clean' = c
  /\ view' = IF r THEN {k \in Keys : Shows(k, real, c, looksFree)} ELSE {}
  /\ padded' = (looksFree /\ Of({"free"}) \cap real = {})
  /\ mark' = [k \in Keys |->
       IF \E m \in released : m.key = k /\ Releases(m) THEN Gap[k] ELSE mark[k]]
  /\ released' = {}
  /\ UNCHANGED <<told, held, below, queue, sending, saved, history>>

\* The condition of k as this cycle judges it.
Holds(k) ==
  /\ k \in view
  /\ Kind(k) = "blind" => <<"down", Subject(k)>> \notin view
  /\ Kind(k) = "rogue" => <<"blind", Subject(k)>> \notin view

\* Kinds whose data a failed scheduler query would falsify are skipped, and
\* node kinds are skipped when there is no roster.
Judged(k) ==
  CASE Kind(k) \in {"rogue", "pend", "hog"} -> clean
    [] Kind(k) \in {"down", "blind", "hot"} -> roster
    [] OTHER -> TRUE

\* Sections run in source order.
Turn(k) ==
  /\ phase = "judge"
  /\ k \in left
  /\ \A i, j \in DOMAIN Stages :
       (Kind(k) \in Stages[i] /\ j < i) => Of(Stages[j]) \cap left = {}

\* Mistaken variant of Started: every snapshot starts the clock again.
StartedNow(k) == 0

Started(k) == IF held[k] = NoClock THEN 0 ELSE held[k]

\* _post: a full queue drops the message and nobody is told.
Post(k, sort) ==
  IF Len(queue) < QueueSize
  THEN queue' = Append(queue, [key |-> k, sort |-> sort, age |-> 0])
  ELSE queue' = queue

\* _ok_to_send takes the slot before the alert is queued.
Alert(k) ==
  /\ mark' = [mark EXCEPT ![k] = 0]
  /\ Post(k, "alert")
  /\ fate' = [fate EXCEPT ![k] = IF Len(queue) < QueueSize THEN "queued" ELSE "lost"]

Silent == UNCHANGED <<mark, queue, fate>>

JudgeConfirmed(k) ==
  /\ Kind(k) \in Confirmed
  /\ LET due == ~told[k] /\ Started(k) >= Grace[k] /\ Expired(k) IN
     \/ /\ Holds(k)
        /\ held' = [held EXCEPT ![k] = Started(k)]
        /\ told' = [told EXCEPT ![k] = @ \/ due]
        /\ IF due THEN Alert(k) ELSE Silent
     \/ /\ ~Holds(k)
        /\ held' = [held EXCEPT ![k] = NoClock]
        /\ told' = [told EXCEPT ![k] = FALSE]
        /\ IF told[k] THEN Post(k, "recovery") ELSE queue' = queue
        /\ UNCHANGED <<mark, fate>>
  /\ UNCHANGED below

JudgeSustained(k) ==
  /\ Kind(k) \in Sustained
  /\ held' = [held EXCEPT ![k] = IF Holds(k) THEN Started(k) ELSE NoClock]
  /\ IF Holds(k) /\ Started(k) >= Grace[k] /\ Expired(k) THEN Alert(k) ELSE Silent
  /\ UNCHANGED <<told, below>>

JudgeStanding(k) ==
  /\ Kind(k) \in Standing
  /\ IF Holds(k) /\ Expired(k) THEN Alert(k) ELSE Silent
  /\ UNCHANGED <<told, held, below>>

JudgeFree(k) ==
  /\ Kind(k) = "free"
  /\ below' = ~Holds(k)
  /\ IF Holds(k) /\ below /\ Expired(k) THEN Alert(k) ELSE Silent
  /\ UNCHANGED <<told, held>>

Watch(k) ==
  /\ quiet' = [quiet EXCEPT ![k] = IF Holds(k) THEN @ ELSE 0]
  /\ settled' = [settled EXCEPT ![k] = @ /\ Holds(k)]

Judge(k) ==
  /\ Turn(k)
  /\ left' = left \ {k}
  /\ IF Judged(k)
     THEN /\ JudgeConfirmed(k) \/ JudgeSustained(k) \/ JudgeStanding(k) \/ JudgeFree(k)
          /\ Watch(k)
     ELSE UNCHANGED <<memory, queue, history>>
  /\ UNCHANGED <<phase, snapshot, sending, released, saved>>

\* Mistaken variants of Image: every clock is saved; outages or the side of the
\* free-GPU threshold are not.
ImageWithClocks == [told |-> told, mark |-> mark, below |-> below, held |-> held]
ImageOfMarks == [told |-> [k \in Keys |-> FALSE], mark |-> mark, below |-> TRUE, held |-> Blank]

\* The grace clocks of pending jobs are saved, the others are not.
Image == [told |-> told, mark |-> mark, below |-> below,
          held |-> [k \in Keys |-> IF Kind(k) = "pend" THEN held[k] ELSE NoClock]]

\* Of the snapshot only the scheduler's answer outlives the cycle.
EndCycle ==
  /\ phase = "judge"
  /\ left = {}
  /\ phase' = "sleep"
  /\ view' = view \cap Of(Scheduler)
  /\ clean' = FALSE /\ padded' = FALSE
  /\ UNCHANGED <<left, roster, memory, delivery, quiet, fate>>

Save ==
  /\ EndCycle
  /\ saved' = Image
  /\ settled' = [k \in Keys |-> told[k] \/ (Kind(k) = "free" /\ ~below)]

SaveFails ==
  /\ EndCycle
  /\ UNCHANGED <<saved, settled>>

-----------------------------------------------------------------------------
(* The consumer thread: _drain().                                          *)

Take ==
  /\ sending = Idle
  /\ queue # <<>>
  /\ sending' = Head(queue)
  /\ queue' = Tail(queue)
  /\ UNCHANGED <<phase, left, snapshot, memory, released, saved, history>>

\* History: fate[k] is what became of the alert that took the slot of k.
Settle(m, what) ==
  fate' = IF m.sort = "alert" /\ Releases(m) /\ ~Expired(m.key)
          THEN [fate EXCEPT ![m.key] = what] ELSE fate

Deliver ==
  /\ sending # Idle
  /\ sending' = Idle
  /\ Settle(sending, "shown")
  /\ UNCHANGED <<phase, left, snapshot, memory, queue, released, saved, quiet, settled>>

\* Mistaken variant of Fail: the slot of a failed alert is not given back.
FailForGood ==
  /\ sending # Idle
  /\ sending' = Idle
  /\ Settle(sending, "failed")
  /\ UNCHANGED <<phase, left, snapshot, memory, queue, released, saved, quiet, settled>>

\* Only alerts carry a key; a recovery that fails is forgotten.
Fail ==
  /\ sending # Idle
  /\ sending' = Idle
  /\ released' = IF sending.sort = "alert" THEN released \cup {sending} ELSE released
  /\ Settle(sending, "failed")
  /\ UNCHANGED <<phase, left, snapshot, memory, queue, saved, quiet, settled>>

-----------------------------------------------------------------------------
(* The process dies, or is stopped, and another one starts.                *)

Restart ==
  /\ phase' = "sleep"
  /\ left' = {}
  /\ view' = {} /\ roster' = FALSE /\ clean' = FALSE /\ padded' = FALSE
  /\ told' = saved.told /\ held' = saved.held /\ mark' = saved.mark /\ below' = saved.below
  /\ queue' = <<>> /\ sending' = Idle /\ released' = {}
  /\ quiet' = [k \in Keys |-> 0]
  /\ fate' = [k \in Keys |-> "lost"]
  /\ UNCHANGED <<saved, settled>>

Init ==
  /\ phase = "sleep" /\ left = {}
  /\ view = {} /\ roster = FALSE /\ clean = FALSE /\ padded = FALSE
  /\ told = [k \in Keys |-> FALSE] /\ held = Blank
  /\ mark = Gap /\ below = TRUE
  /\ queue = <<>> /\ sending = Idle /\ released = {}
  /\ saved = [told |-> told, mark |-> mark, below |-> below, held |-> held]
  /\ quiet = [k \in Keys |-> 0]
  /\ settled = [k \in Keys |-> FALSE]
  /\ fate = [k \in Keys |-> "none"]

Cycle ==
  \/ \E real \in SUBSET Keys, c, r, looksFree \in BOOLEAN : BeginCycle(real, c, r, looksFree)
  \/ \E k \in Keys : Judge(k)
  \/ Save
  \/ SaveFails

Consumer == Take \/ Deliver \/ Fail

Next == Tick \/ Cycle \/ Consumer \/ Restart

Spec == Init /\ [][Next]_vars

\* The main loop runs cycles for ever, the consumer thread is never stopped, and
\* time passes.  A message takes seconds and a tick stands for minutes, so that
\* the queue is empty by the next tick; time passes in the sleep of every cycle,
\* so ticks need strong fairness.
PromptTick == Tick /\ queue = <<>> /\ sending = Idle

PromptSpec ==
  /\ Init /\ [][PromptTick \/ Cycle \/ Consumer \/ Restart]_vars
  /\ WF_vars(Cycle) /\ WF_vars(Consumer) /\ SF_vars(PromptTick)

-----------------------------------------------------------------------------
(* Properties.                                                             *)

Message == [key : Keys, sort : {"alert", "recovery"}, age : Nat]

\* The maps of the notifier hold what their types in __init__ (notify.py:224)
\* say, and the queue stays within its size.
TypeOK ==
  /\ phase \in {"sleep", "judge"} /\ left \subseteq Keys
  /\ view \subseteq Keys /\ {roster, clean, padded, below} \subseteq BOOLEAN
  /\ told \in [Keys -> BOOLEAN]
  /\ held \in [Keys -> Nat \cup {NoClock}]
  /\ mark \in [Keys -> Nat]
  /\ queue \in Seq(Message) /\ Len(queue) <= QueueSize
  /\ sending \in Message \cup {Idle}
  /\ released \subseteq Message
  /\ saved \in [told : [Keys -> BOOLEAN], mark : [Keys -> Nat], below : BOOLEAN,
                held : [Keys -> Nat \cup {NoClock}]]
  /\ quiet \in [Keys -> Nat]
  /\ settled \in [Keys -> BOOLEAN]
  /\ fate \in [Keys -> {"none", "queued", "lost", "shown", "failed"}]

\* An alert of k that is on its way and younger than the debounce gap.
Young(m, k) == m.key = k /\ m.sort = "alert" /\ m.age < Gap[k]

YoungInQueue(k) == {i \in DOMAIN queue : Young(queue[i], k)}
YoungInHand(k) == sending # Idle /\ Young(sending, k)

\* However slow Slack is and however its answers interleave with the cycles, no
\* alert is on its way twice within its debounce gap: the release of an old
\* alert never frees the slot of a newer one (notify.py:685-721).
OneYoungAlert ==
  \A k \in Keys :
    /\ Cardinality(YoungInQueue(k)) <= 1
    /\ YoungInHand(k) => YoungInQueue(k) = {}

\* A key is kept quiet for a reason: its alert is on the way, was delivered, or
\* failed and is about to be released; only a full queue or the end of the
\* process loses it (notify.py:670-721).
SilenceIsOwed ==
  \A k \in Keys : ~Expired(k) =>
    CASE fate[k] = "queued" -> YoungInQueue(k) # {} \/ YoungInHand(k)
      [] fate[k] = "failed" -> \E m \in released : m.key = k /\ Releases(m)
      [] OTHER -> fate[k] \in {"shown", "lost"}

\* The notifier debounces as Debounce says, whatever the queue, the consumer and
\* late rollbacks do: an alert that failed may be repeated by the next cycle,
\* every other one waits for its gap, also over a restart (notify.py:670-721).
Debounced == INSTANCE Debounce WITH
  slot <- [k \in Keys |-> IF Expired(k) THEN "open" ELSE fate[k]],
  age <- mark,
  stored <- saved.mark

ImplementsDebounce == Debounced!Spec

\* A step that takes the slot of k.
Alerts(k) == mark'[k] = 0 /\ Judge(k) /\ mark[k] # 0

\* An outage, a blind node or off-scheduler use is reported only after it was in
\* every snapshot that could show it for the grace time, by one and the same
\* process: a restart starts the clock again, as notify.py:268 promises.
GraceIsServed ==
  [][\A k \in Of({"down", "blind", "rogue"}) : Alerts(k) => quiet[k] >= Grace[k]]_vars

\* An outage, or free GPUs, that were reported and saved are not reported again
\* while they last, over any number of restarts (notify.py:35, docs/ALERTS.md:87).
OldNewsStaysQuiet == [][\A k \in Of(Confirmed \cup {"free"}) : Alerts(k) => ~settled[k]]_vars

\* From some time on every snapshot is sound and shows k, Slack accepts
\* every message and the process is not stopped.
Lasting(k) == <>[](phase = "judge" => clean /\ Holds(k)) /\ <>[][~Fail /\ ~Restart]_vars

\* A standing condition that every snapshot shows is reported again and again,
\* whatever failed before (docs/ALERTS.md:66, notify.py:671).
NagsAreHeard ==
  \A k \in Of(Sustained \cup Standing) :
    Lasting(k) => []<>(fate[k] = "queued") /\ []<>(fate[k] = "shown")

\* _ok_to_send (notify.py:672): "the consumer rolls the mark back if delivery
\* ultimately fails, so the alert can re-fire": an outage that lasts is
\* delivered once Slack accepts messages.
OutagesAreHeard ==
  \A k \in Of(Confirmed) : Lasting(k) => <>(fate[k] = "shown")

\* docs/ALERTS.md:87: the free alert fires when the free-GPU count reaches the
\* threshold, so never on a count made up by a failed scheduler query.
FreeIsCounted == [][\A k \in Of({"free"}) : Alerts(k) => ~padded]_vars
=============================================================================
