------------------------------ MODULE DailyThread ------------------------------
(***************************************************************************)
(* The message under which a day's alerts are collected (notify.py:726-    *)
(* 781, 796-820, 837): made by the thread that delivers alerts or by one   *)
(* that the collect thread starts, whichever is first, under a lock, and   *)
(* remembered on disk by the collect thread's next save.                   *)
(*                                                                         *)
(* Slack may accept a message and the answer may be lost, which the client *)
(* cannot tell from a refusal and tries again.  The name of a message is   *)
(* the day it was made for.                                                *)
(***************************************************************************)
EXTENDS Naturals

CONSTANTS
  LastDate,   \* bound: days are 1..LastDate
  Attempts,   \* attempts of one post
  NoParent

ASSUME DailyThreadAssumption == {LastDate, Attempts} \subseteq Nat \ {0}

Dates == 1..LastDate
Callers == {"consumer", "starter"}

ASSUME NoParentAssumption == NoParent \notin Dates /\ NoParent \notin Callers

VARIABLES
  today,
  threadDay, threadTs,  \* _thread_day, _thread_ts: two assignments
  pausing,              \* a creation failed less than 60 s ago
  calling,                \* what each caller does: "idle", "waits", "posts", "names", "replies"
  callDay, left,        \* the day it computed, its attempts left
  under,                \* the message it replies under
  holder,               \* _post_lock
  savedDay, savedTs,    \* thread_day and thread_ts in the state file
  parents,              \* the channel: parent messages made for each day, up to two
  excuse                \* history: what may have led to a second one

threadState == <<threadDay, threadTs>>
calls == <<calling, callDay, left, under, holder>>
savedState == <<savedDay, savedTs>>
threadVars == <<today, threadState, pausing, calls, savedState, parents, excuse>>

Goes(c, to) == calling' = [calling EXCEPT ![c] = to]
Excused(d, why) == excuse' = [excuse EXCEPT ![d] = @ \cup {why}]
HasParent(d) == threadDay = d /\ threadTs # NoParent

-----------------------------------------------------------------------------
(* The callers.                                                            *)

Call(c) ==
  /\ Goes(c, "waits") /\ callDay' = [callDay EXCEPT ![c] = today]
  /\ UNCHANGED <<today, threadState, pausing, left, under, holder, savedState, parents, excuse>>

\* _post_bot for the next alert.
Deliver == calling["consumer"] = "idle" /\ Call("consumer")

\* _maybe_start_daily_parent, which looks without the lock.
StartParent ==
  /\ calling["starter"] = "idle"
  /\ ~HasParent(today) /\ ~pausing
  /\ Call("starter")

Leaves(c, ts) ==
  /\ Goes(c, IF c = "consumer" THEN "replies" ELSE "idle")
  /\ under' = [under EXCEPT ![c] = ts]

\* Mistaken variant of Known: whoever waited for the lock does not look again.
KnownBefore(c) == FALSE
\* Inside the lock: the parent of the caller's day is there already.
Known(c) == HasParent(callDay[c])

\* _ensure_daily_parent, up to the post.
Enter(c) ==
  /\ calling[c] = "waits" /\ holder = NoParent
  /\ IF Known(c) THEN Leaves(c, threadTs) /\ UNCHANGED <<left, holder>>
     ELSE IF pausing THEN Leaves(c, NoParent) /\ UNCHANGED <<left, holder>>
     ELSE /\ Goes(c, "posts") /\ holder' = c
          /\ left' = [left EXCEPT ![c] = Attempts]
          /\ UNCHANGED under
  /\ UNCHANGED <<today, threadState, pausing, callDay, savedState, parents, excuse>>

\* One attempt of _http_post.  Other errors than 429 of the client's end the post.
Attempt(c, arrives, answered, again) ==
  LET d == callDay[c] IN
  /\ calling[c] = "posts"
  /\ answered => arrives
  /\ parents' = [parents EXCEPT ![d] = IF arrives /\ @ < 2 THEN @ + 1 ELSE @]
  /\ IF arrives /\ ~answered THEN Excused(d, "lost answer") ELSE UNCHANGED excuse
  /\ IF answered THEN Goes(c, "names") /\ UNCHANGED <<pausing, left, under, holder>>
     ELSE IF again /\ left[c] > 1
     THEN left' = [left EXCEPT ![c] = @ - 1] /\ UNCHANGED <<pausing, calling, under, holder>>
     ELSE pausing' = TRUE /\ Leaves(c, NoParent) /\ holder' = NoParent /\ UNCHANGED left
  /\ UNCHANGED <<today, threadState, callDay, savedState>>

\* The day is assigned, then the name; the state file may be written between.
NameDay(c) ==
  /\ calling[c] = "names" /\ threadDay # callDay[c]
  /\ threadDay' = callDay[c]
  /\ excuse' = [d \in Dates |-> IF d = threadDay THEN excuse[d] \cup {"midnight"} ELSE excuse[d]]
  /\ UNCHANGED <<today, threadTs, pausing, calls, savedState, parents>>

NameParent(c) ==
  /\ calling[c] = "names" /\ threadDay = callDay[c]
  /\ threadTs' = callDay[c]
  /\ Leaves(c, callDay[c]) /\ holder' = NoParent
  /\ UNCHANGED <<today, threadDay, pausing, callDay, left, savedState, parents, excuse>>

\* The alert itself, under a parent or on its own.
Reply ==
  /\ calling["consumer"] = "replies"
  /\ Goes("consumer", "idle") /\ under' = [under EXCEPT !["consumer"] = NoParent]
  /\ UNCHANGED <<today, threadState, pausing, callDay, left, holder, savedState, parents, excuse>>

-----------------------------------------------------------------------------
(* Time, the state file, restarts.                                         *)

Midnight ==
  /\ today < LastDate
  /\ today' = today + 1
  /\ UNCHANGED <<threadState, pausing, calls, savedState, parents, excuse>>

PauseEnds ==
  /\ pausing /\ pausing' = FALSE
  /\ UNCHANGED <<today, threadState, calls, savedState, parents, excuse>>

\* _save on the collect thread.
SaveThread ==
  /\ savedDay' = threadDay /\ savedTs' = threadTs
  /\ UNCHANGED <<today, threadState, pausing, calls, parents, excuse>>

\* The process dies; what is not in the file is forgotten.
NotifierDies ==
  /\ threadDay' = savedDay /\ threadTs' = savedTs
  /\ pausing' = FALSE
  /\ calling' = [c \in Callers |-> "idle"] /\ holder' = NoParent
  /\ under' = [c \in Callers |-> NoParent]
  /\ excuse' = [d \in Dates |-> IF parents[d] > 0 /\ ~(savedDay = d /\ savedTs = d)
                                THEN excuse[d] \cup {"crash"} ELSE excuse[d]]
  /\ UNCHANGED <<today, callDay, left, savedState, parents>>

-----------------------------------------------------------------------------
ThreadInit ==
  /\ today = 1
  /\ threadDay = NoParent /\ threadTs = NoParent
  /\ pausing = FALSE
  /\ calling = [c \in Callers |-> "idle"]
  /\ callDay = [c \in Callers |-> 1] /\ left = [c \in Callers |-> Attempts]
  /\ under = [c \in Callers |-> NoParent] /\ holder = NoParent
  /\ savedDay = NoParent /\ savedTs = NoParent
  /\ parents = [d \in Dates |-> 0]
  /\ excuse = [d \in Dates |-> {}]

ThreadNext ==
  \/ Deliver
  \/ StartParent
  \/ \E c \in Callers : Enter(c)
  \/ \E c \in Callers, arrives, answered, again \in BOOLEAN : Attempt(c, arrives, answered, again)
  \/ \E c \in Callers : NameDay(c)
  \/ \E c \in Callers : NameParent(c)
  \/ Reply
  \/ Midnight
  \/ PauseEnds
  \/ SaveThread
  \/ NotifierDies

ThreadSpec == ThreadInit /\ [][ThreadNext]_threadVars

-----------------------------------------------------------------------------
\* A day has a second parent only if an answer of Slack was lost, the process died with
\* the first one unsaved, or a call of another day came between; and an alert is put
\* under its own day's parent, unless the process died between two assignments that a
\* save had split (notify.py:741, 756).
OneParentPerDay ==
  /\ \A d \in Dates : parents[d] > 1 => excuse[d] # {}
  /\ calling["consumer"] = "replies" /\ under["consumer"] # NoParent =>
       \/ under["consumer"] = callDay["consumer"]
       \/ "crash" \in excuse[callDay["consumer"]]
=============================================================================
