---------------------------- MODULE NotifierProofs -----------------------------
(***************************************************************************)
(* Safety of the notifier's alerts for any keys, grace and debounce times  *)
(* and any size of the delivery queue.                                     *)
(***************************************************************************)
EXTENDS Notifier, FiniteSetTheorems, TLAPS

-----------------------------------------------------------------------------
(* The inductive invariant.                                                *)

\* An alert that its debounce slot still covers.
Fresh(m) == m.sort = "alert" /\ m.age < Gap[m.key]

\* The age of such an alert is that of the slot, as long as the alert is in the
\* queue, in the consumer's hand or about to be released.
SlotMatches ==
  /\ \A k \in Keys : mark[k] <= Gap[k] /\ saved.mark[k] <= Gap[k]
  /\ \A i \in DOMAIN queue : Fresh(queue[i]) => mark[queue[i].key] = queue[i].age
  /\ sending # Idle /\ Fresh(sending) => mark[sending.key] = sending.age
  /\ \A m \in released : m.sort = "alert" /\ (Fresh(m) => mark[m.key] = m.age)

\* There is only one such alert of a key, wherever it is.
Rival(m, n) == Fresh(m) /\ Fresh(n) /\ m.key = n.key

OnlyOne ==
  /\ \A i, j \in DOMAIN queue : Rival(queue[i], queue[j]) => i = j
  /\ \A i \in DOMAIN queue :
       /\ sending # Idle => ~Rival(queue[i], sending)
       /\ \A m \in released : ~Rival(queue[i], m)
  /\ sending # Idle => \A m \in released : ~Rival(sending, m)

\* A slot that is taken has a reason; SilenceIsOwed, in a form for the provers.
Owed(k) ==
  ~Expired(k) =>
    /\ fate[k] # "none"
    /\ fate[k] = "queued" =>
         \/ \E i \in DOMAIN queue : queue[i].key = k /\ Fresh(queue[i])
         \/ sending # Idle /\ sending.key = k /\ Fresh(sending)
    /\ fate[k] = "failed" => \E m \in released : m.key = k /\ Releases(m)

AllOwed == \A k \in Keys : Owed(k)

\* A grace clock is never ahead of the time the condition was seen without a
\* break by this process.
ClockIsHonest ==
  \A k \in Of({"down", "blind", "rogue"}) :
    /\ held[k] # NoClock => held[k] <= quiet[k]
    /\ saved.held[k] = NoClock

\* What was reported, saved and never gone is known to this process, and to the
\* next one.
SettledIsKnown ==
  \A k \in Keys :
    /\ Kind(k) \notin Confirmed => ~told[k] /\ ~saved.told[k]
    /\ settled[k] => \/ told[k] /\ saved.told[k]
                     \/ Kind(k) = "free" /\ ~below /\ ~saved.below

-----------------------------------------------------------------------------
(* Ages and messages.                                                      *)

LEMMA OlderAge ==
  ASSUME NEW age \in Nat, NEW limit \in Nat
  PROVE  /\ Older(age, limit) \in Nat
         /\ age <= limit => age <= Older(age, limit) /\ Older(age, limit) <= limit
         /\ Older(age, limit) < limit => age < limit /\ Older(age, limit) = age + 1
  BY DEF Older

LEMMA OlderType ==
  ASSUME NEW m \in Message
  PROVE  /\ OlderMessage(m) \in Message /\ OlderMessage(m) # Idle
         /\ OlderMessage(m).key = m.key /\ OlderMessage(m).sort = m.sort
         /\ m.sort = "alert" => OlderMessage(m).age = Older(m.age, Gap[m.key])
         /\ m.sort # "alert" => OlderMessage(m) = m
<1>1. m.age \in Nat /\ Gap[m.key] \in Nat /\ m.key \in Keys
  BY TimeAssumption DEF Message
<1>2. Older(m.age, Gap[m.key]) \in Nat
  BY <1>1, OlderAge
<1>3. OlderMessage(m) \in Message
  BY <1>1, <1>2 DEF OlderMessage, Message
<1>4. QED
  BY <1>2, <1>3, MarkersAssumption DEF OlderMessage, Message

LEMMA OlderClocks ==
  ASSUME NEW clocks \in [Keys -> Nat \cup {NoClock}]
  PROVE  /\ OlderHeld(clocks) \in [Keys -> Nat \cup {NoClock}]
         /\ \A k \in Keys : /\ clocks[k] = NoClock => OlderHeld(clocks)[k] = NoClock
                            /\ clocks[k] # NoClock => OlderHeld(clocks)[k] = Older(clocks[k], Grace[k])
<1>1. \A k \in Keys : clocks[k] # NoClock => clocks[k] \in Nat /\ Older(clocks[k], Grace[k]) \in Nat
  BY TimeAssumption, OlderAge
<1>2. QED
  BY <1>1 DEF OlderHeld, OlderClock

LEMMA OlderSlots ==
  ASSUME NEW marks \in [Keys -> Nat]
  PROVE  /\ OlderMarks(marks) \in [Keys -> Nat]
         /\ \A k \in Keys : OlderMarks(marks)[k] = Older(marks[k], Gap[k])
<1>1. \A k \in Keys : Older(marks[k], Gap[k]) \in Nat
  BY TimeAssumption, OlderAge
<1>2. QED
  BY <1>1 DEF OlderMarks

LEMMA SameLength ==
  ASSUME NEW S, NEW q \in Seq(S), NEW p \in [DOMAIN q -> S]
  PROVE  p \in Seq(S) /\ Len(p) = Len(q) /\ DOMAIN p = DOMAIN q
<1>1. DOMAIN q = 1..Len(q) /\ Len(q) \in Nat
  OBVIOUS
<1>2. QED
  BY <1>1

\* What a step of the consumer or of Post does to the sequence of messages.
LEMMA Shifted ==
  ASSUME NEW q \in Seq(Message), q # <<>>
  PROVE  /\ Tail(q) \in Seq(Message) /\ Len(q) \in Nat \ {0} /\ Len(Tail(q)) = Len(q) - 1
         /\ DOMAIN q = 1..Len(q) /\ DOMAIN Tail(q) = 1..Len(q) - 1
         /\ Head(q) = q[1] /\ Head(q) \in Message
         /\ \A i \in 1..Len(q) - 1 : Tail(q)[i] = q[i + 1]
  OBVIOUS

LEMMA Posted ==
  ASSUME NEW q \in Seq(Message), NEW m \in Message
  PROVE  /\ Append(q, m) \in Seq(Message) /\ Len(Append(q, m)) = Len(q) + 1 /\ Len(q) \in Nat
         /\ DOMAIN q = 1..Len(q) /\ DOMAIN Append(q, m) = 1..Len(q) + 1
         /\ Append(q, m)[Len(q) + 1] = m
         /\ \A i \in 1..Len(q) : Append(q, m)[i] = q[i]
  OBVIOUS

-----------------------------------------------------------------------------
(* Types.                                                                  *)

\* What the judgement of one key does to slots, queue and fates.
LEMMA JudgeEffect ==
  ASSUME NEW k \in Keys, Judge(k)
  PROVE  /\ UNCHANGED <<phase, snapshot, sending, released, saved>>
         /\ \/ /\ UNCHANGED <<mark, fate>>
               /\ queue' = queue \/ Post(k, "recovery")
            \/ Expired(k) /\ Alert(k)
<1>1. CASE ~Judged(k)
  BY <1>1 DEF Judge, memory, history
<1>2. CASE Judged(k) /\ JudgeConfirmed(k)
  BY <1>2 DEF Judge, JudgeConfirmed, Silent
<1>3. CASE Judged(k) /\ (JudgeSustained(k) \/ JudgeStanding(k) \/ JudgeFree(k))
  BY <1>3 DEF Judge, JudgeSustained, JudgeStanding, JudgeFree, Silent
<1>4. QED
  BY <1>1, <1>2, <1>3 DEF Judge

\* What it does to the clocks and to what is remembered.
LEMMA JudgeTypes ==
  ASSUME TypeOK, NEW k \in Keys, Judge(k)
  PROVE  /\ held' \in [Keys -> Nat \cup {NoClock}] /\ told' \in [Keys -> BOOLEAN] /\ below' \in BOOLEAN
         /\ quiet' \in [Keys -> Nat] /\ settled' \in [Keys -> BOOLEAN]
<1>1. held[k] = NoClock \/ held[k] \in Nat
  BY DEF TypeOK
<1>2. Started(k) \in Nat
  BY <1>1 DEF Started
<1>3. CASE ~Judged(k)
  BY <1>3 DEF Judge, memory, history, TypeOK
<1>4. CASE Judged(k)
  <2>1. JudgeConfirmed(k) \/ JudgeSustained(k) \/ JudgeStanding(k) \/ JudgeFree(k)
    BY <1>4 DEF Judge
  <2>2. /\ held' \in [Keys -> Nat \cup {NoClock}]
    BY <1>2, <2>1 DEF JudgeConfirmed, JudgeSustained, JudgeStanding, JudgeFree, TypeOK
  <2>3. told' \in [Keys -> BOOLEAN]
    BY <2>1 DEF JudgeConfirmed, JudgeSustained, JudgeStanding, JudgeFree, TypeOK
  <2>4. below' \in BOOLEAN
    <3>1. Holds(k) \in BOOLEAN
      BY DEF Holds
    <3>2. QED
      BY <2>1, <3>1 DEF JudgeConfirmed, JudgeSustained, JudgeStanding, JudgeFree, TypeOK
  <2>5. quiet' \in [Keys -> Nat] /\ settled' \in [Keys -> BOOLEAN]
    <3>1. Watch(k)
      BY <1>4 DEF Judge
    <3>2. quiet' \in [Keys -> Nat]
      BY <3>1 DEF Watch, TypeOK
    <3>3. (settled[k] /\ Holds(k)) \in BOOLEAN
      OBVIOUS
    <3>4. settled' \in [Keys -> BOOLEAN]
      BY <3>1, <3>3 DEF Watch, TypeOK
    <3>5. QED
      BY <3>2, <3>4
  <2>6. QED
    BY <2>2, <2>3, <2>4, <2>5
<1>5. QED
  BY <1>3, <1>4

\* What taking a slot does to the types.
LEMMA PostTypes ==
  ASSUME TypeOK, NEW k \in Keys, NEW sort \in {"alert", "recovery"}, Post(k, sort)
  PROVE  queue' \in Seq(Message) /\ Len(queue') <= QueueSize
<1> DEFINE m == [key |-> k, sort |-> sort, age |-> 0]
<1>1. m \in Message /\ queue \in Seq(Message) /\ Len(queue) <= QueueSize
  BY DEF Message, TypeOK
<1>2. queue' = queue \/ (queue' = Append(queue, m) /\ Len(queue) < QueueSize)
  BY DEF Post
<1> HIDE DEF m
<1>3. QED
  BY <1>1, <1>2, Posted, SizeAssumption

LEMMA TypeInit == Init => TypeOK
<1> SUFFICES ASSUME Init PROVE TypeOK
  OBVIOUS
<1>1. queue \in Seq(Message) /\ Len(queue) <= QueueSize
  BY SizeAssumption DEF Init
<1>2. mark \in [Keys -> Nat] /\ held \in [Keys -> Nat \cup {NoClock}]
  BY TimeAssumption DEF Init, Blank
<1>3. QED
  BY <1>1, <1>2 DEF Init, TypeOK

LEMMA TypeNext == TypeOK /\ [Next]_vars => TypeOK'
<1> SUFFICES ASSUME TypeOK, [Next]_vars PROVE TypeOK'
  OBVIOUS
<1>1. CASE Tick
  <2>1. /\ held' = OlderHeld(held) /\ mark' = OlderMarks(mark)
        /\ saved' = [saved EXCEPT !.held = OlderHeld(saved.held), !.mark = OlderMarks(saved.mark)]
        /\ queue' = [i \in DOMAIN queue |-> OlderMessage(queue[i])]
        /\ sending' = IF sending = Idle THEN Idle ELSE OlderMessage(sending)
        /\ released' = {OlderMessage(m) : m \in released}
        /\ quiet' = [k \in Keys |-> Older(quiet[k], Grace[k])]
        /\ UNCHANGED <<phase, left, snapshot, told, below, settled, fate>>
    BY <1>1 DEF Tick
  <2>2. held' \in [Keys -> Nat \cup {NoClock}] /\ mark' \in [Keys -> Nat]
    BY <2>1, OlderClocks, OlderSlots DEF TypeOK
  <2>3. saved' \in [told : [Keys -> BOOLEAN], mark : [Keys -> Nat], below : BOOLEAN,
                    held : [Keys -> Nat \cup {NoClock}]]
    <3>1. OlderHeld(saved.held) \in [Keys -> Nat \cup {NoClock}] /\ OlderMarks(saved.mark) \in [Keys -> Nat]
      BY OlderClocks, OlderSlots DEF TypeOK
    <3>2. QED
      BY <2>1, <3>1 DEF TypeOK
  <2>4. queue' \in Seq(Message) /\ Len(queue') <= QueueSize
    <3>1. \A i \in DOMAIN queue : OlderMessage(queue[i]) \in Message
      BY OlderType DEF TypeOK
    <3>2. queue' \in [DOMAIN queue -> Message]
      BY <2>1, <3>1
    <3>3. queue \in Seq(Message) /\ Len(queue) <= QueueSize
      BY DEF TypeOK
    <3>4. QED
      BY <3>2, <3>3, SameLength
  <2>5. sending' \in Message \cup {Idle} /\ released' \subseteq Message
    BY <2>1, OlderType DEF TypeOK
  <2>6. quiet' \in [Keys -> Nat]
    <3>1. \A k \in Keys : Older(quiet[k], Grace[k]) \in Nat
      BY TimeAssumption, OlderAge DEF TypeOK
    <3>2. QED
      BY <2>1, <3>1
  <2>7. QED
    BY <2>1, <2>2, <2>3, <2>4, <2>5, <2>6 DEF TypeOK, snapshot
<1>2. ASSUME NEW real \in SUBSET Keys, NEW c \in BOOLEAN, NEW r \in BOOLEAN,
             NEW looksFree \in BOOLEAN, BeginCycle(real, c, r, looksFree)
      PROVE  TypeOK'
  <2>1. mark' \in [Keys -> Nat]
    <3>1. \A k \in Keys : mark[k] \in Nat /\ Gap[k] \in Nat
      BY TimeAssumption DEF TypeOK
    <3>2. mark' = [k \in Keys |->
            IF \E m \in released : m.key = k /\ Releases(m) THEN Gap[k] ELSE mark[k]]
      BY <1>2 DEF BeginCycle
    <3>3. QED
      BY <3>1, <3>2
  <2>2. view' \subseteq Keys /\ roster' = r /\ clean' = c /\ padded' \in BOOLEAN
    BY <1>2 DEF BeginCycle
  <2>3. /\ phase' = "judge" /\ left' = Keys /\ released' = {}
        /\ UNCHANGED <<told, held, below, queue, sending, saved, history>>
    BY <1>2 DEF BeginCycle
  <2>4. QED
    BY <2>1, <2>2, <2>3 DEF TypeOK, history
<1>3. ASSUME NEW k \in Keys, Judge(k) PROVE TypeOK'
  <2>1. mark' \in [Keys -> Nat] /\ fate' \in [Keys -> {"none", "queued", "lost", "shown", "failed"}]
    <3>1. CASE UNCHANGED <<mark, fate>>
      BY <3>1 DEF TypeOK
    <3>2. CASE Alert(k)
      <4>1. (IF Len(queue) < QueueSize THEN "queued" ELSE "lost") \in {"queued", "lost"}
        OBVIOUS
      <4>2. QED
        BY <3>2, <4>1 DEF TypeOK, Alert
    <3>3. QED
      BY <1>3, <3>1, <3>2, JudgeEffect
  <2>2. queue' \in Seq(Message) /\ Len(queue') <= QueueSize
    <3>1. CASE queue' = queue
      BY <3>1 DEF TypeOK
    <3>2. CASE Post(k, "recovery") \/ Post(k, "alert")
      BY <3>2, PostTypes
    <3>3. QED
      BY <1>3, <3>1, <3>2, JudgeEffect DEF Alert
  <2>3. left' \subseteq Keys
    BY <1>3 DEF Judge, TypeOK
  <2>4. QED
    BY <1>3, <2>1, <2>2, <2>3, JudgeEffect, JudgeTypes DEF TypeOK, snapshot
<1>4. CASE Save \/ SaveFails
  <2>1. saved' \in [told : [Keys -> BOOLEAN], mark : [Keys -> Nat], below : BOOLEAN,
                    held : [Keys -> Nat \cup {NoClock}]]
    BY <1>4 DEF Save, SaveFails, Image, TypeOK
  <2>2. settled' \in [Keys -> BOOLEAN]
    BY <1>4 DEF Save, SaveFails, TypeOK
  <2>3. QED
    BY <1>4, <2>1, <2>2 DEF Save, SaveFails, EndCycle, TypeOK, memory, delivery
<1>5. CASE Take
  <2>1. queue' \in Seq(Message) /\ Len(queue') <= QueueSize /\ sending' \in Message
    BY <1>5, Shifted, SizeAssumption DEF Take, TypeOK
  <2>2. QED
    BY <1>5, <2>1 DEF Take, TypeOK, snapshot, memory, history
<1>6. CASE Deliver \/ Fail
  <2>1. fate' \in [Keys -> {"none", "queued", "lost", "shown", "failed"}]
    BY <1>6 DEF Deliver, Fail, Settle, TypeOK
  <2>2. released' \subseteq Message
    BY <1>6 DEF Deliver, Fail, TypeOK
  <2>3. QED
    BY <1>6, <2>1, <2>2 DEF Deliver, Fail, TypeOK, snapshot, memory
<1>7. CASE Restart
  <2>1. queue' \in Seq(Message) /\ Len(queue') <= QueueSize
    BY <1>7, SizeAssumption DEF Restart
  <2>2. QED
    BY <1>7, <2>1 DEF Restart, TypeOK
<1>8. CASE UNCHANGED vars
  BY <1>8 DEF vars, TypeOK, snapshot, memory, delivery, history
<1>9. QED
  BY <1>1, <1>2, <1>3, <1>4, <1>5, <1>6, <1>7, <1>8 DEF Next, Cycle, Consumer

-----------------------------------------------------------------------------
(* Slots, the alerts they cover, and what became of them.                  *)

SlotInv == TypeOK /\ SlotMatches /\ OnlyOne /\ AllOwed

LEMMA SlotInit == Init => SlotMatches /\ OnlyOne /\ AllOwed
<1> SUFFICES ASSUME Init PROVE SlotMatches /\ OnlyOne /\ AllOwed
  OBVIOUS
<1>1. /\ mark = Gap /\ saved.mark = Gap /\ queue = <<>> /\ sending = Idle /\ released = {}
  BY DEF Init
<1>2. SlotMatches /\ OnlyOne
  BY <1>1, TimeAssumption DEF SlotMatches, OnlyOne
<1>3. AllOwed
  BY <1>1 DEF AllOwed, Owed, Expired
<1>4. QED
  BY <1>2, <1>3

\* A tick makes an alert and its slot older alike.
LEMMA OlderFresh ==
  ASSUME NEW m \in Message, NEW n \in Message
  PROVE  /\ Fresh(OlderMessage(m)) => Fresh(m) /\ OlderMessage(m).age = Older(m.age, Gap[m.key])
         /\ Rival(OlderMessage(m), OlderMessage(n)) => Rival(m, n)
<1>1. \A o \in Message :
        Fresh(OlderMessage(o)) => Fresh(o) /\ OlderMessage(o).age = Older(o.age, Gap[o.key])
  <2> SUFFICES ASSUME NEW o \in Message, Fresh(OlderMessage(o))
               PROVE  Fresh(o) /\ OlderMessage(o).age = Older(o.age, Gap[o.key])
    OBVIOUS
  <2>1. o.age \in Nat /\ Gap[o.key] \in Nat
    BY TimeAssumption DEF Message
  <2>2. OlderMessage(o).age = Older(o.age, Gap[o.key]) /\ o.sort = "alert"
    BY OlderType DEF Fresh
  <2>3. Older(o.age, Gap[o.key]) < Gap[o.key]
    BY <2>2, OlderType DEF Fresh
  <2>4. QED
    BY <2>1, <2>2, <2>3, OlderAge DEF Fresh
<1>2. QED
  BY <1>1, OlderType DEF Rival

LEMMA TickKeepsSlots == SlotInv /\ Tick => SlotMatches' /\ OnlyOne' /\ AllOwed'
<1> SUFFICES ASSUME SlotInv, Tick PROVE SlotMatches' /\ OnlyOne' /\ AllOwed'
  OBVIOUS
<1>1. /\ mark' = OlderMarks(mark)
      /\ saved' = [saved EXCEPT !.held = OlderHeld(saved.held), !.mark = OlderMarks(saved.mark)]
      /\ queue' = [i \in DOMAIN queue |-> OlderMessage(queue[i])]
      /\ sending' = IF sending = Idle THEN Idle ELSE OlderMessage(sending)
      /\ released' = {OlderMessage(m) : m \in released}
      /\ fate' = fate
  BY DEF Tick
<1>2. /\ mark \in [Keys -> Nat] /\ saved.mark \in [Keys -> Nat]
      /\ \A k \in Keys : Gap[k] \in Nat \ {0}
      /\ \A i \in DOMAIN queue : queue[i] \in Message
      /\ sending # Idle => sending \in Message
      /\ released \subseteq Message
  BY TimeAssumption DEF SlotInv, TypeOK
<1>3. saved'.mark = OlderMarks(saved.mark)
  BY <1>1 DEF SlotInv, TypeOK
<1>4. /\ \A k \in Keys : mark'[k] = Older(mark[k], Gap[k]) /\ saved'.mark[k] = Older(saved.mark[k], Gap[k])
      /\ \A k \in Keys : mark[k] <= Gap[k] /\ saved.mark[k] <= Gap[k]
  BY <1>1, <1>2, <1>3, OlderSlots DEF SlotInv, SlotMatches
<1>5. \A m \in Message : m.key \in Keys /\ m.age \in Nat
  BY DEF Message
<1>6. SlotMatches'
  <2>1. \A k \in Keys : mark'[k] <= Gap[k] /\ saved'.mark[k] <= Gap[k]
    BY <1>2, <1>4, OlderAge
  <2>2. ASSUME NEW m \in Message, Fresh(m) => mark[m.key] = m.age, Fresh(OlderMessage(m))
        PROVE  mark'[OlderMessage(m).key] = OlderMessage(m).age
    BY <1>4, <1>5, <2>2, OlderFresh, OlderType
  <2>3. \A i \in DOMAIN queue' : Fresh(queue'[i]) => mark'[queue'[i].key] = queue'[i].age
    BY <1>1, <1>2, <2>2 DEF SlotInv, SlotMatches
  <2>4. sending' # Idle /\ Fresh(sending') => mark'[sending'.key] = sending'.age
    BY <1>1, <1>2, <2>2 DEF SlotInv, SlotMatches
  <2>5. \A m \in released' : m.sort = "alert" /\ (Fresh(m) => mark'[m.key] = m.age)
    BY <1>1, <1>2, <2>2, OlderType DEF SlotInv, SlotMatches
  <2>6. QED
    BY <2>1, <2>3, <2>4, <2>5 DEF SlotMatches, Fresh
<1>7. OnlyOne'
  <2>1. \A i, j \in DOMAIN queue' : Rival(queue'[i], queue'[j]) => i = j
    BY <1>1, <1>2, OlderFresh DEF SlotInv, OnlyOne
  <2>2. \A i \in DOMAIN queue' : sending' # Idle => ~Rival(queue'[i], sending')
    BY <1>1, <1>2, OlderFresh DEF SlotInv, OnlyOne
  <2>3. \A i \in DOMAIN queue' : \A m \in released' : ~Rival(queue'[i], m)
    BY <1>1, <1>2, OlderFresh DEF SlotInv, OnlyOne
  <2>4. sending' # Idle => \A m \in released' : ~Rival(sending', m)
    BY <1>1, <1>2, OlderFresh DEF SlotInv, OnlyOne
  <2>5. QED
    BY <2>1, <2>2, <2>3, <2>4 DEF OnlyOne, Rival, Fresh
<1>8. ASSUME NEW k \in Keys PROVE Owed(k)'
  <2> SUFFICES ASSUME mark'[k] # Gap[k] PROVE Owed(k)'
    BY DEF Owed, Expired
  <2>1. mark[k] # Gap[k] /\ mark'[k] < Gap[k]
    BY <1>2, <1>4, OlderAge DEF Older
  <2>2. Owed(k) /\ ~Expired(k)
    BY <2>1 DEF SlotInv, AllOwed, Expired
  <2>3. ASSUME NEW m \in Message, m.key = k, Fresh(m), mark[k] = m.age
        PROVE  OlderMessage(m).key = k /\ Fresh(OlderMessage(m))
    BY <1>4, <2>1, <2>3, OlderType DEF Fresh
  <2>4. CASE fate[k] = "queued"
    <3>1. CASE \E i \in DOMAIN queue : queue[i].key = k /\ Fresh(queue[i])
      <4>1. PICK i \in DOMAIN queue : queue[i].key = k /\ Fresh(queue[i])
        BY <3>1
      <4>2. mark[k] = queue[i].age
        BY <4>1 DEF SlotInv, SlotMatches
      <4>3. i \in DOMAIN queue' /\ queue'[i].key = k /\ Fresh(queue'[i])
        BY <1>1, <1>2, <2>3, <4>1, <4>2
      <4>4. QED
        BY <1>1, <2>4, <4>3 DEF Owed, Fresh
    <3>2. CASE sending # Idle /\ sending.key = k /\ Fresh(sending)
      <4>1. mark[k] = sending.age
        BY <3>2 DEF SlotInv, SlotMatches
      <4>2. sending' # Idle /\ sending'.key = k /\ Fresh(sending')
        BY <1>1, <1>2, <2>3, <3>2, <4>1, OlderType
      <4>3. QED
        BY <1>1, <2>4, <4>2 DEF Owed, Fresh
    <3>3. QED
      BY <2>2, <2>4, <3>1, <3>2 DEF Owed
  <2>5. CASE fate[k] = "failed"
    <3>1. PICK m \in released : m.key = k /\ mark[k] >= m.age
      BY <2>2, <2>5 DEF Owed, Releases
    <3>2. m \in Message /\ m.sort = "alert" /\ m.age \in Nat
      BY <1>2, <1>5 DEF SlotInv, SlotMatches
    <3>3. OlderMessage(m) \in released' /\ OlderMessage(m).key = k /\ OlderMessage(m).age = Older(m.age, Gap[k])
      BY <1>1, <3>1, <3>2, OlderType
    <3>4. Older(m.age, Gap[k]) <= Older(mark[k], Gap[k])
      BY <1>2, <1>4, <3>1, <3>2 DEF Older
    <3>5. mark'[OlderMessage(m).key] >= OlderMessage(m).age
      BY <1>2, <1>4, <3>2, <3>3, <3>4 DEF Older
    <3>6. QED
      BY <1>1, <2>5, <3>3, <3>5 DEF Owed, Releases
  <2>6. QED
    BY <1>1, <2>2, <2>4, <2>5 DEF Owed
<1>9. QED
  BY <1>6, <1>7, <1>8 DEF AllOwed

\* A cycle begins with the rollbacks.  What releases a slot is a fresh alert, so
\* no other alert that the slot covers is on its way.
LEMMA BeginKeepsSlots ==
  ASSUME SlotInv, NEW real, NEW c, NEW r, NEW looksFree, BeginCycle(real, c, r, looksFree)
  PROVE  SlotMatches' /\ OnlyOne' /\ AllOwed'
<1>1. /\ mark' = [k \in Keys |->
             IF \E m \in released : m.key = k /\ Releases(m) THEN Gap[k] ELSE mark[k]]
      /\ released' = {} /\ UNCHANGED <<queue, sending, saved, fate>>
  BY DEF BeginCycle, history
<1>2. /\ mark \in [Keys -> Nat] /\ \A k \in Keys : Gap[k] \in Nat \ {0}
      /\ \A i \in DOMAIN queue : queue[i] \in Message
      /\ sending # Idle => sending \in Message
      /\ released \subseteq Message
      /\ \A m \in Message : m.key \in Keys /\ m.age \in Nat
  <2>1. \A m \in Message : m.key \in Keys /\ m.age \in Nat
    BY DEF Message
  <2>2. QED
    BY <2>1, TimeAssumption DEF SlotInv, TypeOK
<1>3. ASSUME NEW n \in Message, Fresh(n), mark[n.key] = n.age,
             \A m \in released : ~Rival(n, m)
      PROVE  mark'[n.key] = n.age
  <2>1. ASSUME NEW m \in released, m.key = n.key, Releases(m) PROVE FALSE
    <3>1. m.age <= mark[n.key] /\ mark[n.key] < Gap[n.key]
      BY <1>2, <1>3, <2>1 DEF Releases, Fresh
    <3>2. Fresh(m)
      BY <1>2, <2>1, <3>1 DEF SlotInv, SlotMatches, Fresh
    <3>3. QED
      BY <1>3, <2>1, <3>2 DEF Rival
  <2>2. QED
    BY <1>1, <1>2, <1>3, <2>1
<1>4. SlotMatches'
  <2>1. \A k \in Keys : mark'[k] <= Gap[k] /\ saved'.mark[k] <= Gap[k]
    BY <1>1, <1>2 DEF SlotInv, SlotMatches
  <2>2. \A i \in DOMAIN queue : Fresh(queue[i]) => mark'[queue[i].key] = queue[i].age
    BY <1>2, <1>3 DEF SlotInv, SlotMatches, OnlyOne
  <2>3. sending # Idle /\ Fresh(sending) => mark'[sending.key] = sending.age
    BY <1>2, <1>3 DEF SlotInv, SlotMatches, OnlyOne
  <2>4. QED
    BY <1>1, <2>1, <2>2, <2>3 DEF SlotMatches, Fresh
<1>5. OnlyOne'
  BY <1>1 DEF SlotInv, OnlyOne, Rival, Fresh
<1>6. ASSUME NEW k \in Keys PROVE Owed(k)'
  BY <1>1, <1>2 DEF SlotInv, AllOwed, Owed, Expired, Fresh, Releases
<1>7. QED
  BY <1>4, <1>5, <1>6 DEF AllOwed

\* A recovery is posted, or nothing: slots and fates stay.
LEMMA RecoveryKeepsSlots ==
  ASSUME SlotInv, NEW k \in Keys,
         UNCHANGED <<mark, fate, sending, released, saved>>,
         queue' = queue \/ Post(k, "recovery")
  PROVE  SlotMatches' /\ OnlyOne' /\ AllOwed'
<1> DEFINE n == [key |-> k, sort |-> "recovery", age |-> 0]
<1>1. n \in Message /\ ~Fresh(n) /\ queue \in Seq(Message)
  BY DEF Message, Fresh, SlotInv, TypeOK
<1>2. queue' = queue \/ queue' = Append(queue, n)
  BY DEF Post
<1> HIDE DEF n
<1>3. CASE queue' = queue
  BY <1>3 DEF SlotInv, SlotMatches, OnlyOne, AllOwed, Owed, Expired, Fresh, Rival, Releases
<1>4. CASE queue' = Append(queue, n)
  <2>1. /\ \A i \in DOMAIN queue' : (i \in DOMAIN queue /\ queue'[i] = queue[i]) \/ queue'[i] = n
        /\ \A i \in DOMAIN queue : i \in DOMAIN queue' /\ queue'[i] = queue[i]
    <3>1. /\ Len(queue) \in Nat /\ DOMAIN queue = 1..Len(queue) /\ DOMAIN queue' = 1..Len(queue) + 1
          /\ queue'[Len(queue) + 1] = n /\ \A i \in 1..Len(queue) : queue'[i] = queue[i]
      BY <1>1, <1>4, Posted
    <3>2. QED
      BY <3>1
  <2>2. SlotMatches'
    BY <1>1, <2>1 DEF SlotInv, SlotMatches, Fresh
  <2>3. OnlyOne'
    BY <1>1, <2>1 DEF SlotInv, OnlyOne, Rival, Fresh
  <2>4. AllOwed'
    BY <2>1 DEF SlotInv, AllOwed, Owed, Expired, Fresh, Releases
  <2>5. QED
    BY <2>2, <2>3, <2>4
<1>5. QED
  BY <1>2, <1>3, <1>4

\* An alert takes an expired slot: no alert of this key is fresh any more.
LEMMA AlertKeepsSlots ==
  ASSUME SlotInv, NEW k \in Keys, Expired(k), Alert(k), UNCHANGED <<sending, released, saved>>
  PROVE  SlotMatches' /\ OnlyOne' /\ AllOwed'
<1> DEFINE n == [key |-> k, sort |-> "alert", age |-> 0]
<1>1. /\ n \in Message /\ n.key = k /\ n.age = 0 /\ queue \in Seq(Message)
      /\ mark \in [Keys -> Nat] /\ fate \in [Keys -> {"none", "queued", "lost", "shown", "failed"}]
      /\ \A j \in Keys : Gap[j] \in Nat \ {0}
      /\ \A i \in DOMAIN queue : queue[i] \in Message
      /\ sending # Idle => sending \in Message
      /\ released \subseteq Message
      /\ \A m \in Message : m.key \in Keys /\ m.age \in Nat
  <2>1. n \in Message /\ n.key = k /\ n.age = 0 /\ \A m \in Message : m.key \in Keys /\ m.age \in Nat
    BY DEF Message
  <2> HIDE DEF n
  <2>2. QED
    BY <2>1, TimeAssumption DEF SlotInv, TypeOK
<1>2. /\ mark' = [mark EXCEPT ![k] = 0] /\ mark[k] = Gap[k]
      /\ \/ queue' = queue /\ fate' = [fate EXCEPT ![k] = "lost"]
         \/ queue' = Append(queue, n) /\ fate' = [fate EXCEPT ![k] = "queued"]
  BY DEF Alert, Post, Expired
<1>3. Fresh(n)
  BY <1>1 DEF Fresh
<1> HIDE DEF n
<1>4. /\ \A i \in DOMAIN queue : queue[i].key = k => ~Fresh(queue[i])
      /\ sending # Idle /\ sending.key = k => ~Fresh(sending)
      /\ \A m \in released : m.key = k => ~Fresh(m)
  BY <1>1, <1>2 DEF SlotInv, SlotMatches, Fresh
<1>5. mark'[k] = 0 /\ \A j \in Keys \ {k} : mark'[j] = mark[j] /\ fate'[j] = fate[j]
  BY <1>1, <1>2
<1>6. \A i \in DOMAIN queue' : (i \in DOMAIN queue /\ queue'[i] = queue[i])
                               \/ (queue'[i] = n /\ i \notin DOMAIN queue)
  <2>1. CASE queue' = Append(queue, n)
    <3>1. /\ Len(queue) \in Nat /\ DOMAIN queue = 1..Len(queue) /\ DOMAIN queue' = 1..Len(queue) + 1
          /\ queue'[Len(queue) + 1] = n /\ \A i \in 1..Len(queue) : queue'[i] = queue[i]
      BY <1>1, <2>1, Posted
    <3>2. QED
      BY <3>1
  <2>2. QED
    BY <1>2, <2>1
<1>7. /\ \A i, j \in DOMAIN queue' : i = j \/ i \in DOMAIN queue \/ j \in DOMAIN queue
      /\ \A i \in DOMAIN queue : i \in DOMAIN queue' /\ queue'[i] = queue[i]
      /\ fate'[k] = "lost" \/ (fate'[k] = "queued" /\ \E i \in DOMAIN queue' : queue'[i] = n)
  <2>1. CASE queue' = Append(queue, n) /\ fate' = [fate EXCEPT ![k] = "queued"]
    <3>1. /\ Len(queue) \in Nat /\ DOMAIN queue = 1..Len(queue) /\ DOMAIN queue' = 1..Len(queue) + 1
          /\ queue'[Len(queue) + 1] = n /\ \A i \in 1..Len(queue) : queue'[i] = queue[i]
      BY <1>1, <2>1, Posted
    <3>2. fate'[k] = "queued"
      BY <1>1, <2>1
    <3>3. Len(queue) + 1 \in DOMAIN queue'
      BY <3>1
    <3>4. \A i \in DOMAIN queue' : i \in DOMAIN queue \/ i = Len(queue) + 1
      BY <3>1
    <3>5. \A i \in DOMAIN queue : i \in DOMAIN queue' /\ queue'[i] = queue[i]
      BY <3>1
    <3>6. QED
      BY <3>1, <3>2, <3>3, <3>4, <3>5
  <2>2. CASE queue' = queue /\ fate' = [fate EXCEPT ![k] = "lost"]
    BY <1>1, <2>2
  <2>3. QED
    BY <1>2, <2>1, <2>2
<1>8. SlotMatches'
  <2>1. \A j \in Keys : mark'[j] <= Gap[j] /\ saved'.mark[j] <= Gap[j]
    BY <1>1, <1>5 DEF SlotInv, SlotMatches
  <2>2. ASSUME NEW i \in DOMAIN queue', Fresh(queue'[i])
        PROVE  mark'[queue'[i].key] = queue'[i].age
    <3>1. CASE queue'[i] = n
      BY <1>1, <1>5, <3>1
    <3>2. CASE i \in DOMAIN queue /\ queue'[i] = queue[i]
      <4>1. queue[i].key \in Keys \ {k} /\ mark[queue[i].key] = queue[i].age
        BY <1>1, <1>4, <2>2, <3>2 DEF SlotInv, SlotMatches
      <4>2. QED
        BY <1>5, <3>2, <4>1
    <3>3. QED
      BY <1>6, <3>1, <3>2
  <2>3. sending # Idle /\ Fresh(sending) => mark'[sending.key] = sending.age
    BY <1>1, <1>4, <1>5 DEF SlotInv, SlotMatches
  <2>4. \A m \in released : m.sort = "alert" /\ (Fresh(m) => mark'[m.key] = m.age)
    BY <1>1, <1>4, <1>5 DEF SlotInv, SlotMatches
  <2>5. QED
    BY <2>1, <2>2, <2>3, <2>4 DEF SlotMatches, Fresh
<1>9. OnlyOne'
  <2>1. \A i, j \in DOMAIN queue' : Rival(queue'[i], queue'[j]) => i = j
    BY <1>1, <1>4, <1>6, <1>7 DEF SlotInv, OnlyOne, Rival
  <2>2. \A i \in DOMAIN queue' :
          /\ sending # Idle => ~Rival(queue'[i], sending)
          /\ \A m \in released : ~Rival(queue'[i], m)
    BY <1>1, <1>4, <1>6 DEF SlotInv, OnlyOne, Rival
  <2>3. QED
    BY <2>1, <2>2 DEF SlotInv, OnlyOne, Rival, Fresh
<1>10. ASSUME NEW j \in Keys PROVE Owed(j)'
  <2>1. CASE j = k
    BY <1>1, <1>3, <1>7, <2>1 DEF Owed, Fresh
  <2>2. CASE j # k
    BY <1>5, <1>7, <2>2 DEF SlotInv, AllOwed, Owed, Expired, Fresh, Releases
  <2>3. QED
    BY <2>1, <2>2
<1>11. QED
  BY <1>8, <1>9, <1>10 DEF AllOwed

LEMMA TakeKeepsSlots == SlotInv /\ Take => SlotMatches' /\ OnlyOne' /\ AllOwed'
<1> SUFFICES ASSUME SlotInv, Take PROVE SlotMatches' /\ OnlyOne' /\ AllOwed'
  OBVIOUS
<1>1. /\ sending = Idle /\ queue # <<>> /\ sending' = Head(queue) /\ queue' = Tail(queue)
      /\ UNCHANGED <<mark, released, saved, fate>> /\ queue \in Seq(Message)
  BY DEF Take, memory, history, SlotInv, TypeOK
<1>2. /\ Len(queue) \in Nat \ {0} /\ DOMAIN queue = 1..Len(queue) /\ DOMAIN queue' = 1..Len(queue) - 1
      /\ sending' = queue[1] /\ sending' \in Message /\ sending' # Idle
      /\ \A i \in 1..Len(queue) - 1 : queue'[i] = queue[i + 1]
  BY <1>1, Shifted, MarkersAssumption DEF Message
<1>3. /\ 1 \in DOMAIN queue
      /\ \A i \in DOMAIN queue' : i + 1 \in DOMAIN queue /\ i + 1 # 1 /\ queue'[i] = queue[i + 1]
      /\ \A i \in DOMAIN queue : i = 1 \/ (i - 1 \in DOMAIN queue' /\ queue'[i - 1] = queue[i])
  BY <1>2
<1>4. SlotMatches'
  BY <1>1, <1>2, <1>3 DEF SlotInv, SlotMatches, Fresh
<1>5. OnlyOne'
  <2>1. ASSUME NEW i \in DOMAIN queue', NEW j \in DOMAIN queue', Rival(queue'[i], queue'[j])
        PROVE  i = j
    <3>1. i + 1 = j + 1
      BY <1>3, <2>1 DEF SlotInv, OnlyOne
    <3>2. QED
      BY <1>2, <3>1
  <2>2. \A i \in DOMAIN queue' : ~Rival(queue'[i], sending') /\ \A m \in released : ~Rival(queue'[i], m)
    BY <1>2, <1>3 DEF SlotInv, OnlyOne
  <2>3. \A m \in released : ~Rival(sending', m)
    BY <1>2, <1>3 DEF SlotInv, OnlyOne
  <2>4. QED
    BY <1>1, <2>1, <2>2, <2>3 DEF OnlyOne, Rival, Fresh
<1>6. ASSUME NEW k \in Keys PROVE Owed(k)'
  <2>1. ASSUME NEW i \in DOMAIN queue, queue[i].key = k, Fresh(queue[i])
        PROVE  \/ \E j \in DOMAIN queue' : queue'[j].key = k /\ Fresh(queue'[j])
               \/ sending' # Idle /\ sending'.key = k /\ Fresh(sending')
    BY <1>2, <1>3, <2>1
  <2>2. QED
    BY <1>1, <2>1 DEF SlotInv, AllOwed, Owed, Expired, Fresh, Releases
<1>7. QED
  BY <1>4, <1>5, <1>6 DEF AllOwed

\* Whatever becomes of an alert its slot still covers is written down.
LEMMA SettleKeepsSlots ==
  SlotInv /\ (Deliver \/ Fail) => SlotMatches' /\ OnlyOne' /\ AllOwed'
<1> SUFFICES ASSUME SlotInv, Deliver \/ Fail PROVE SlotMatches' /\ OnlyOne' /\ AllOwed'
  OBVIOUS
<1>1. /\ sending # Idle /\ sending' = Idle
      /\ UNCHANGED <<mark, queue, saved>>
      /\ \/ Settle(sending, "shown") /\ released' = released
         \/ /\ Settle(sending, "failed")
            /\ released' = IF sending.sort = "alert" THEN released \cup {sending} ELSE released
  BY DEF Deliver, Fail, memory
<1>2. /\ sending \in Message /\ sending.key \in Keys /\ sending.age \in Nat
      /\ mark \in [Keys -> Nat] /\ \A k \in Keys : Gap[k] \in Nat \ {0}
      /\ fate \in [Keys -> {"none", "queued", "lost", "shown", "failed"}]
  BY <1>1, TimeAssumption DEF SlotInv, TypeOK, Message
<1>3. SlotMatches'
  BY <1>1 DEF SlotInv, SlotMatches, Fresh
<1>4. OnlyOne'
  <2>1. \A m \in released' : m \in released \/ m = sending
    BY <1>1
  <2>2. \A i \in DOMAIN queue : \A m \in released' : ~Rival(queue[i], m)
    BY <1>1, <2>1 DEF SlotInv, OnlyOne
  <2>3. QED
    BY <1>1, <2>2 DEF SlotInv, OnlyOne, Rival, Fresh
<1>5. ASSUME NEW k \in Keys PROVE Owed(k)'
  <2> SUFFICES ASSUME ~Expired(k) PROVE Owed(k)'
    BY <1>1 DEF Owed, Expired
  <2>1. Owed(k)
    BY DEF SlotInv, AllOwed
  <2>2. CASE sending.key = k /\ sending.sort = "alert" /\ Releases(sending)
    <3>1. CASE fate' = [fate EXCEPT ![k] = "shown"]
      <4>1. fate'[k] = "shown"
        BY <1>2, <3>1
      <4>2. QED
        BY <4>1 DEF Owed
    <3>2. CASE fate' = [fate EXCEPT ![k] = "failed"] /\ released' = released \cup {sending}
      <4>1. fate'[k] = "failed" /\ sending \in released'
        BY <1>2, <3>2
      <4>2. mark'[sending.key] >= sending.age
        BY <1>1, <2>2 DEF Releases
      <4>3. QED
        BY <2>2, <4>1, <4>2 DEF Owed, Releases
    <3>3. QED
      BY <1>1, <2>2, <3>1, <3>2 DEF Settle
  <2>3. CASE ~(sending.key = k /\ sending.sort = "alert" /\ Releases(sending))
    <3>1. fate'[k] = fate[k]
      BY <1>1, <1>2, <2>3 DEF Settle
    <3>2. ~(sending.key = k /\ Fresh(sending))
      BY <1>1, <1>2, <2>3 DEF SlotInv, SlotMatches, Fresh, Releases
    <3>3. released \subseteq released'
      BY <1>1
    <3>4. QED
      BY <1>1, <2>1, <3>1, <3>2, <3>3 DEF Owed, Expired, Fresh, Releases
  <2>4. QED
    BY <2>2, <2>3
<1>6. QED
  BY <1>3, <1>4, <1>5 DEF AllOwed

LEMMA SlotNext == SlotInv /\ [Next]_vars => SlotInv'
<1> SUFFICES ASSUME SlotInv, [Next]_vars PROVE SlotMatches' /\ OnlyOne' /\ AllOwed'
  BY TypeNext DEF SlotInv
<1>1. ASSUME NEW k \in Keys, Judge(k) PROVE SlotMatches' /\ OnlyOne' /\ AllOwed'
  BY <1>1, JudgeEffect, RecoveryKeepsSlots, AlertKeepsSlots
<1>2. CASE Save \/ SaveFails
  <2>1. /\ UNCHANGED <<mark, queue, sending, released, fate>>
        /\ saved' = saved \/ saved'.mark = mark
    BY <1>2 DEF Save, SaveFails, EndCycle, Image, memory, delivery
  <2>2. QED
    BY <2>1 DEF SlotInv, SlotMatches, OnlyOne, AllOwed, Owed, Expired, Fresh, Rival, Releases
<1>3. CASE Restart
  <2>1. /\ mark' = saved.mark /\ saved' = saved
        /\ queue' = <<>> /\ sending' = Idle /\ released' = {}
        /\ fate' = [k \in Keys |-> "lost"]
    BY <1>3 DEF Restart
  <2>2. QED
    BY <2>1 DEF SlotInv, SlotMatches, OnlyOne, AllOwed, Owed, Expired
<1>4. CASE UNCHANGED vars
  BY <1>4 DEF vars, memory, delivery, history,
     SlotInv, SlotMatches, OnlyOne, AllOwed, Owed, Expired, Fresh, Rival, Releases
<1>5. QED
  BY <1>1, <1>2, <1>3, <1>4, TickKeepsSlots, BeginKeepsSlots, TakeKeepsSlots, SettleKeepsSlots
  DEF Next, Cycle, Consumer

-----------------------------------------------------------------------------
(* Debounce, the promise.                                                  *)

\* A fresh alert is where its fate says.
FateMatches ==
  /\ \A i \in DOMAIN queue : Fresh(queue[i]) => fate[queue[i].key] = "queued"
  /\ sending # Idle /\ Fresh(sending) => fate[sending.key] = "queued"
  /\ \A m \in released : Fresh(m) => fate[m.key] = "failed"

DebounceInv == SlotInv /\ FateMatches

\* What the answer to an alert changes, if anything: the fate of the alert that
\* holds the slot.
LEMMA SettleEffect ==
  ASSUME SlotInv, sending # Idle, NEW what, Settle(sending, what)
  PROVE  \/ Fresh(sending) /\ fate' = [fate EXCEPT ![sending.key] = what]
         \/ ~Fresh(sending) /\ fate' = fate
<1>1. /\ sending.key \in Keys /\ sending.age \in Nat /\ mark[sending.key] \in Nat
      /\ Gap[sending.key] \in Nat /\ mark[sending.key] <= Gap[sending.key]
  BY TimeAssumption DEF SlotInv, SlotMatches, TypeOK, Message
<1>2. Fresh(sending) => mark[sending.key] = sending.age
  BY DEF SlotInv, SlotMatches
<1>3. Fresh(sending) <=> sending.sort = "alert" /\ Releases(sending) /\ ~Expired(sending.key)
  BY <1>1, <1>2 DEF Fresh, Releases, Expired
<1>4. QED
  BY <1>3 DEF Settle

LEMMA FateNext == DebounceInv /\ [Next]_vars => DebounceInv'
<1> SUFFICES ASSUME DebounceInv, [Next]_vars PROVE FateMatches'
  BY SlotNext DEF DebounceInv
<1>1. /\ queue \in Seq(Message) /\ \A i \in DOMAIN queue : queue[i] \in Message
      /\ sending # Idle => sending \in Message
      /\ released \subseteq Message
      /\ fate \in [Keys -> {"none", "queued", "lost", "shown", "failed"}]
      /\ \A m \in Message : m.key \in Keys
  <2>1. \A m \in Message : m.key \in Keys
    BY DEF Message
  <2>2. QED
    BY <2>1 DEF DebounceInv, SlotInv, TypeOK
<1>2. CASE Tick
  <2>1. /\ queue' = [i \in DOMAIN queue |-> OlderMessage(queue[i])]
        /\ sending' = IF sending = Idle THEN Idle ELSE OlderMessage(sending)
        /\ released' = {OlderMessage(m) : m \in released}
        /\ fate' = fate
    BY <1>2 DEF Tick
  <2>2. \A m \in Message : OlderMessage(m).key = m.key /\ (Fresh(OlderMessage(m)) => Fresh(m))
    BY OlderFresh, OlderType
  <2>3. QED
    BY <1>1, <2>1, <2>2 DEF DebounceInv, FateMatches, Fresh
<1>3. ASSUME NEW real, NEW c, NEW r, NEW looksFree, BeginCycle(real, c, r, looksFree)
      PROVE  FateMatches'
  BY <1>3 DEF BeginCycle, history, DebounceInv, FateMatches, Fresh
<1>4. ASSUME NEW k \in Keys, Judge(k) PROVE FateMatches'
  <2>1. UNCHANGED <<sending, released>>
    BY <1>4, JudgeEffect
  <2>2. CASE UNCHANGED <<mark, fate>> /\ (queue' = queue \/ Post(k, "recovery"))
    <3>1. CASE queue' = queue
      BY <2>1, <2>2, <3>1 DEF DebounceInv, FateMatches, Fresh
    <3>2. CASE Post(k, "recovery") /\ queue' # queue
      <4> DEFINE n == [key |-> k, sort |-> "recovery", age |-> 0]
      <4>1. n \in Message /\ ~Fresh(n)
        BY DEF Message, Fresh
      <4>2. queue' = Append(queue, n)
        BY <3>2 DEF Post
      <4> HIDE DEF n
      <4>3. \A i \in DOMAIN queue' : (i \in DOMAIN queue /\ queue'[i] = queue[i]) \/ queue'[i] = n
        <5>1. /\ Len(queue) \in Nat /\ DOMAIN queue = 1..Len(queue) /\ DOMAIN queue' = 1..Len(queue) + 1
              /\ queue'[Len(queue) + 1] = n /\ \A i \in 1..Len(queue) : queue'[i] = queue[i]
          BY <1>1, <4>1, <4>2, Posted
        <5>2. QED
          BY <5>1
      <4>4. QED
        BY <2>1, <2>2, <4>1, <4>3 DEF DebounceInv, FateMatches, Fresh
    <3>3. QED
      BY <2>2, <3>1, <3>2
  <2>3. CASE Expired(k) /\ Alert(k)
    <3> DEFINE n == [key |-> k, sort |-> "alert", age |-> 0]
    <3>1. n \in Message /\ n.key = k
      BY DEF Message
    <3>2. \/ queue' = queue /\ fate' = [fate EXCEPT ![k] = "lost"]
          \/ queue' = Append(queue, n) /\ fate' = [fate EXCEPT ![k] = "queued"]
      BY <2>3 DEF Alert, Post
    <3> HIDE DEF n
    <3>3. mark[k] = Gap[k] /\ Gap[k] \in Nat
      BY <2>3, TimeAssumption DEF Expired
    <3>4. /\ \A i \in DOMAIN queue : Fresh(queue[i]) => queue[i].key # k
          /\ sending # Idle /\ Fresh(sending) => sending.key # k
          /\ \A m \in released : Fresh(m) => m.key # k
      BY <3>3 DEF DebounceInv, SlotInv, SlotMatches, Fresh
    <3>5. \A j \in Keys : j # k => fate'[j] = fate[j]
      BY <1>1, <3>2
    <3>6. \A i \in DOMAIN queue' : \/ i \in DOMAIN queue /\ queue'[i] = queue[i]
                                   \/ queue'[i] = n /\ fate'[k] = "queued"
      <4>1. CASE queue' = Append(queue, n) /\ fate' = [fate EXCEPT ![k] = "queued"]
        <5>1. /\ Len(queue) \in Nat /\ DOMAIN queue = 1..Len(queue) /\ DOMAIN queue' = 1..Len(queue) + 1
              /\ queue'[Len(queue) + 1] = n /\ \A i \in 1..Len(queue) : queue'[i] = queue[i]
          BY <1>1, <3>1, <4>1, Posted
        <5>2. fate'[k] = "queued"
          BY <1>1, <4>1
        <5>3. QED
          BY <5>1, <5>2
      <4>2. QED
        BY <3>2, <4>1
    <3>7. QED
      BY <1>1, <2>1, <3>1, <3>4, <3>5, <3>6 DEF DebounceInv, FateMatches, Fresh
  <2>4. QED
    BY <1>4, <2>2, <2>3, JudgeEffect
<1>5. CASE Take
  <2>1. /\ queue # <<>> /\ sending' = Head(queue) /\ queue' = Tail(queue)
        /\ UNCHANGED <<released, fate>>
    BY <1>5 DEF Take, history
  <2>2. /\ 1 \in DOMAIN queue /\ sending' = queue[1]
        /\ \A i \in DOMAIN queue' : i + 1 \in DOMAIN queue /\ queue'[i] = queue[i + 1]
    BY <1>1, <2>1, Shifted
  <2>3. QED
    BY <2>1, <2>2 DEF DebounceInv, FateMatches, Fresh
<1>6. CASE Deliver \/ Fail
  <2>1. /\ sending # Idle /\ sending' = Idle /\ queue' = queue
        /\ \/ Settle(sending, "shown") /\ released' = released
           \/ /\ Settle(sending, "failed")
              /\ released' = IF sending.sort = "alert" THEN released \cup {sending} ELSE released
    BY <1>6 DEF Deliver, Fail
  <2>2. CASE ~Fresh(sending) /\ fate' = fate
    <3>1. \A m \in released' : m \in released \/ ~Fresh(m)
      BY <2>1, <2>2
    <3>2. QED
      BY <2>1, <2>2, <3>1 DEF DebounceInv, FateMatches, Fresh
  <2>3. ASSUME Fresh(sending), NEW what, fate' = [fate EXCEPT ![sending.key] = what],
               \A m \in released' : m \in released \/ (m = sending /\ what = "failed")
        PROVE  FateMatches'
    <3>1. fate'[sending.key] = what /\ \A j \in Keys : j # sending.key => fate'[j] = fate[j]
      BY <1>1, <2>1, <2>3
    <3>2. /\ \A i \in DOMAIN queue : Fresh(queue[i]) => queue[i].key # sending.key
          /\ \A m \in released : Fresh(m) => m.key # sending.key
      BY <2>1, <2>3 DEF DebounceInv, SlotInv, OnlyOne, Rival
    <3>3. QED
      BY <1>1, <2>1, <2>3, <3>1, <3>2 DEF DebounceInv, FateMatches, Fresh
  <2>4. QED
    BY <2>1, <2>2, <2>3, SettleEffect DEF DebounceInv
<1>7. CASE Save \/ SaveFails
  BY <1>7 DEF Save, SaveFails, EndCycle, delivery, DebounceInv, FateMatches, Fresh
<1>8. CASE Restart
  BY <1>8 DEF Restart, FateMatches
<1>9. CASE UNCHANGED vars
  BY <1>9 DEF vars, delivery, history, DebounceInv, FateMatches, Fresh
<1>10. QED
  BY <1>2, <1>3, <1>4, <1>5, <1>6, <1>7, <1>8, <1>9 DEF Next, Cycle, Consumer

LEMMA DebouncedInit == Init => Debounced!Init
BY DEF Init, Debounced!Init, Expired

\* What the slot of k shows of it.
Slots == [k \in Keys |-> IF Expired(k) THEN "open" ELSE fate[k]]

LEMMA TickDebounces == DebounceInv /\ Tick => Debounced!Tick
<1> SUFFICES ASSUME DebounceInv, Tick PROVE Debounced!Tick
  OBVIOUS
<1>1. /\ phase = "sleep" /\ phase' = phase /\ mark' = OlderMarks(mark) /\ fate' = fate
      /\ saved' = [saved EXCEPT !.held = OlderHeld(saved.held), !.mark = OlderMarks(saved.mark)]
  BY DEF Tick
<1>2. saved'.mark = OlderMarks(saved.mark)
  BY <1>1 DEF DebounceInv, SlotInv, TypeOK
<1>3. \A marks : OlderMarks(marks) = [k \in Keys |-> Debounced!OlderAge(marks[k], k)]
  BY DEF OlderMarks, Older, Debounced!OlderAge
<1>4. \A k \in Keys : mark'[k] # Gap[k] => mark[k] # Gap[k]
  BY <1>1, TimeAssumption DEF OlderMarks, Older
<1>5. Slots' = [k \in Keys |-> IF mark'[k] = Gap[k] THEN "open" ELSE Slots[k]]
  BY <1>1, <1>4 DEF Slots, Expired
<1>6. QED
  BY <1>1, <1>2, <1>3, <1>5 DEF Debounced!Tick, Slots

LEMMA BeginDebounces ==
  ASSUME DebounceInv, NEW real, NEW c, NEW r, NEW looksFree, BeginCycle(real, c, r, looksFree)
  PROVE  Debounced!Begin
<1>1. /\ phase = "sleep" /\ phase' = "judge" /\ saved' = saved /\ fate' = fate
      /\ mark' = [k \in Keys |->
           IF \E m \in released : m.key = k /\ Releases(m) THEN Gap[k] ELSE mark[k]]
  BY DEF BeginCycle, history
<1>2. ASSUME NEW k \in Keys
      PROVE  ~Expired(k) => ((\E m \in released : m.key = k /\ Releases(m)) <=> fate[k] = "failed")
  <2>1. ASSUME ~Expired(k), NEW m \in released, m.key = k, Releases(m) PROVE fate[k] = "failed"
    <3>1. m.age \in Nat /\ mark[k] \in Nat /\ Gap[k] \in Nat /\ mark[k] <= Gap[k] /\ m.sort = "alert"
      BY TimeAssumption DEF DebounceInv, SlotInv, SlotMatches, TypeOK, Message
    <3>2. Fresh(m)
      BY <2>1, <3>1 DEF Fresh, Releases, Expired
    <3>3. QED
      BY <2>1, <3>2 DEF DebounceInv, FateMatches
  <2>2. QED
    BY <2>1 DEF DebounceInv, SlotInv, AllOwed, Owed
<1>3. /\ Slots' = [k \in Keys |-> IF Slots[k] = "failed" THEN "open" ELSE Slots[k]]
      /\ mark' = [k \in Keys |-> IF Slots[k] = "failed" THEN Gap[k] ELSE mark[k]]
  BY <1>1, <1>2 DEF Slots, Expired
<1>4. QED
  BY <1>1, <1>3 DEF Debounced!Begin, Slots

LEMMA AlertDebounces ==
  ASSUME DebounceInv, NEW k \in Keys, Expired(k), Alert(k), phase = "judge", UNCHANGED <<phase, saved>>
  PROVE  Debounced!Send(k)
<1>1. /\ mark \in [Keys -> Nat] /\ Gap[k] \in Nat \ {0}
      /\ fate \in [Keys -> {"none", "queued", "lost", "shown", "failed"}]
  BY TimeAssumption DEF DebounceInv, SlotInv, TypeOK
<1>2. PICK how \in {"queued", "lost"} : fate' = [fate EXCEPT ![k] = how]
  BY DEF Alert
<1>3. mark' = [mark EXCEPT ![k] = 0]
  BY DEF Alert
<1>4. Slots' = [Slots EXCEPT ![k] = how]
  BY <1>1, <1>2, <1>3 DEF Slots, Expired
<1>5. Slots[k] = "open"
  BY DEF Slots
<1>6. QED
  BY <1>2, <1>3, <1>4, <1>5 DEF Debounced!Send, Slots

LEMMA SettleDebounces ==
  DebounceInv /\ (Deliver \/ Fail) => Debounced!Next \/ UNCHANGED Debounced!vars
<1> SUFFICES ASSUME DebounceInv, Deliver \/ Fail PROVE Debounced!Next \/ UNCHANGED Debounced!vars
  OBVIOUS
<1>1. PICK how \in {"shown", "failed"} : Settle(sending, how)
  BY DEF Deliver, Fail
<1>2. sending # Idle /\ UNCHANGED <<phase, mark, saved>>
  BY DEF Deliver, Fail, memory
<1>3. CASE fate' = fate
  BY <1>2, <1>3 DEF Debounced!vars, Expired
<1>4. CASE Fresh(sending) /\ fate' = [fate EXCEPT ![sending.key] = how]
  <2>0. PICK k \in Keys : k = sending.key
    BY <1>2 DEF DebounceInv, SlotInv, TypeOK, Message
  <2>1. /\ k = sending.key /\ fate \in [Keys -> {"none", "queued", "lost", "shown", "failed"}]
        /\ sending.age \in Nat /\ Gap[k] \in Nat
    BY <1>2, <2>0, TimeAssumption DEF DebounceInv, SlotInv, TypeOK, Message
  <2>2. fate[k] = "queued" /\ ~Expired(k)
    BY <1>2, <1>4, <2>1 DEF DebounceInv, FateMatches, SlotInv, SlotMatches, Fresh, Expired
  <2>3. Slots' = [Slots EXCEPT ![k] = how] /\ Slots[k] = "queued"
    BY <1>2, <1>4, <2>1, <2>2 DEF Slots, Expired
  <2>4. Debounced!Answer(k)
    BY <1>2, <2>3 DEF Debounced!Answer, Slots
  <2>5. QED
    BY <2>1, <2>4 DEF Debounced!Next
<1>5. QED
  BY <1>1, <1>2, <1>3, <1>4, SettleEffect DEF DebounceInv

LEMMA DebouncedNext == DebounceInv /\ [Next]_vars => [Debounced!Next]_(Debounced!vars)
<1> SUFFICES ASSUME DebounceInv, [Next]_vars
             PROVE  Debounced!Next \/ UNCHANGED Debounced!vars
  OBVIOUS
<1>1. CASE Tick
  BY <1>1, TickDebounces DEF Debounced!Next
<1>2. ASSUME NEW real, NEW c, NEW r, NEW looksFree, BeginCycle(real, c, r, looksFree)
      PROVE  Debounced!Next
  BY <1>2, BeginDebounces DEF Debounced!Next
<1>3. ASSUME NEW k \in Keys, Judge(k) PROVE Debounced!Next \/ UNCHANGED Debounced!vars
  <2>1. phase = "judge" /\ UNCHANGED <<phase, saved>>
    BY <1>3 DEF Judge, Turn
  <2>2. CASE UNCHANGED <<mark, fate>>
    BY <2>1, <2>2 DEF Debounced!vars, Expired
  <2>3. CASE Expired(k) /\ Alert(k)
    BY <2>1, <2>3, AlertDebounces DEF Debounced!Next
  <2>4. QED
    BY <1>3, <2>2, <2>3, JudgeEffect
<1>4. CASE Save \/ SaveFails
  <2>1. /\ phase = "judge" /\ phase' = "sleep" /\ UNCHANGED <<mark, fate>>
        /\ saved'.mark \in {saved.mark, mark}
    BY <1>4 DEF Save, SaveFails, EndCycle, Image, memory
  <2>2. QED
    BY <2>1 DEF Debounced!Next, Debounced!End, Expired
<1>5. CASE Take
  BY <1>5 DEF Take, memory, history, Debounced!vars, Expired
<1>6. CASE Restart
  <2>1. /\ phase' = "sleep" /\ mark' = saved.mark /\ saved' = saved
        /\ fate' = [k \in Keys |-> "lost"]
    BY <1>6 DEF Restart
  <2>2. QED
    BY <2>1 DEF Debounced!Next, Debounced!Restart, Expired
<1>7. CASE UNCHANGED vars
  BY <1>7 DEF vars, memory, history, Debounced!vars, Expired
<1>8. QED
  BY <1>1, <1>2, <1>3, <1>4, <1>5, <1>6, <1>7, SettleDebounces DEF Next, Cycle, Consumer

-----------------------------------------------------------------------------
(* Grace clocks.                                                           *)

Clocked == Of({"down", "blind", "rogue"})

ClockInv == TypeOK /\ ClockIsHonest

\* What a step that takes the slot of an outage or of off-scheduler use found.
LEMMA AlertIsDue ==
  ASSUME TypeOK, NEW k \in Clocked, Alerts(k)
  PROVE  /\ Started(k) >= Grace[k]
         /\ Kind(k) \in Confirmed => ~told[k]
<1>1. Judge(k) /\ mark'[k] # mark[k]
  BY DEF Alerts
<1>2. Judged(k) /\ (JudgeConfirmed(k) \/ JudgeSustained(k))
  BY <1>1 DEF Judge, memory, JudgeStanding, JudgeFree, Standing, Clocked, Of
<1>3. CASE JudgeConfirmed(k)
  BY <1>1, <1>3 DEF JudgeConfirmed, Silent
<1>4. CASE JudgeSustained(k)
  BY <1>1, <1>4 DEF JudgeSustained, Silent, Sustained, Confirmed
<1>5. QED
  BY <1>2, <1>3, <1>4

LEMMA ClockNext == ClockInv /\ [Next]_vars => ClockInv'
<1> SUFFICES ASSUME ClockInv, [Next]_vars PROVE ClockIsHonest'
  BY TypeNext DEF ClockInv
<1> USE DEF Clocked
<1>1. CASE Tick
  <2>1. /\ held' = OlderHeld(held) /\ quiet' = [k \in Keys |-> Older(quiet[k], Grace[k])]
        /\ saved' = [saved EXCEPT !.held = OlderHeld(saved.held), !.mark = OlderMarks(saved.mark)]
    BY <1>1 DEF Tick
  <2>2. saved'.held = OlderHeld(saved.held)
    BY <2>1 DEF ClockInv, TypeOK
  <2>3. ASSUME NEW k \in Clocked PROVE saved'.held[k] = NoClock
    <3>1. saved.held \in [Keys -> Nat \cup {NoClock}] /\ k \in Keys /\ saved.held[k] = NoClock
      BY DEF ClockInv, ClockIsHonest, TypeOK, Of
    <3>2. QED
      BY <2>2, <3>1, OlderClocks
  <2>4. ASSUME NEW k \in Clocked, held'[k] # NoClock PROVE held'[k] <= quiet'[k]
    <3>1. k \in Keys /\ held[k] # NoClock /\ held'[k] = Older(held[k], Grace[k])
      BY <2>1, <2>4, OlderClocks DEF ClockInv, TypeOK, Of
    <3>2. held[k] \in Nat /\ quiet[k] \in Nat /\ Grace[k] \in Nat /\ held[k] <= quiet[k]
      BY <3>1, TimeAssumption DEF ClockInv, ClockIsHonest, TypeOK
    <3>3. QED
      BY <2>1, <3>1, <3>2 DEF Older
  <2>5. QED
    BY <2>3, <2>4 DEF ClockIsHonest
<1>2. ASSUME NEW k \in Keys, Judge(k) PROVE ClockIsHonest'
  <2>1. saved' = saved
    BY <1>2 DEF Judge
  <2>2. CASE ~Judged(k)
    BY <1>2, <2>1, <2>2 DEF Judge, memory, history, ClockInv, ClockIsHonest
  <2>3. CASE Judged(k)
    <3>1. /\ Watch(k)
          /\ JudgeConfirmed(k) \/ JudgeSustained(k) \/ JudgeStanding(k) \/ JudgeFree(k)
      BY <1>2, <2>3 DEF Judge
    <3>2. /\ held \in [Keys -> Nat \cup {NoClock}] /\ quiet \in [Keys -> Nat]
          /\ quiet' = [quiet EXCEPT ![k] = IF Holds(k) THEN quiet[k] ELSE 0]
      BY <3>1 DEF Watch, ClockInv, TypeOK
    <3>3. ASSUME NEW j \in Clocked, j # k PROVE held'[j] = held[j] /\ quiet'[j] = quiet[j]
      BY <3>1, <3>2, <3>3 DEF JudgeConfirmed, JudgeSustained, JudgeStanding, JudgeFree, Of
    <3>4. ASSUME k \in Clocked, held'[k] # NoClock PROVE held'[k] <= quiet'[k]
      <4>1. Holds(k) /\ held'[k] = Started(k)
        BY <3>1, <3>2, <3>4 DEF JudgeConfirmed, JudgeSustained, JudgeStanding, JudgeFree, Standing, Of
      <4>2. quiet'[k] = quiet[k] /\ quiet[k] \in Nat
        BY <3>2, <4>1
      <4>3. QED
        BY <3>4, <4>1, <4>2 DEF Started, ClockInv, ClockIsHonest
    <3>5. QED
      BY <2>1, <3>3, <3>4 DEF ClockInv, ClockIsHonest
  <2>4. QED
    BY <2>2, <2>3
<1>3. CASE Save \/ SaveFails
  <2>1. UNCHANGED <<held, quiet>> /\ (saved' = saved \/ saved' = Image)
    BY <1>3 DEF Save, SaveFails, EndCycle, memory
  <2>2. \A k \in Clocked : Image.held[k] = NoClock
    BY DEF Image, Of
  <2>3. QED
    BY <2>1, <2>2 DEF ClockInv, ClockIsHonest
<1>4. CASE Restart
  BY <1>4 DEF Restart, ClockInv, ClockIsHonest
<1>5. CASE Consumer \/ UNCHANGED vars
  BY <1>5 DEF Consumer, Take, Deliver, Fail, vars, memory, history, ClockInv, ClockIsHonest
<1>6. ASSUME NEW real, NEW c, NEW r, NEW looksFree, BeginCycle(real, c, r, looksFree)
      PROVE  ClockIsHonest'
  BY <1>6 DEF BeginCycle, history, ClockInv, ClockIsHonest
<1>7. QED
  BY <1>1, <1>2, <1>3, <1>4, <1>5, <1>6 DEF Next, Cycle

-----------------------------------------------------------------------------
(* News that is old.                                                       *)

SettledInv == TypeOK /\ SettledIsKnown

LEMMA SettledNext == SettledInv /\ [Next]_vars => SettledInv'
<1> SUFFICES ASSUME SettledInv, [Next]_vars PROVE SettledIsKnown'
  BY TypeNext DEF SettledInv
<1>1. CASE Tick
  <2>1. /\ UNCHANGED <<told, below, settled>>
        /\ saved' = [saved EXCEPT !.held = OlderHeld(saved.held), !.mark = OlderMarks(saved.mark)]
    BY <1>1 DEF Tick
  <2>2. saved'.told = saved.told /\ saved'.below = saved.below
    BY <2>1 DEF SettledInv, TypeOK
  <2>3. QED
    BY <2>1, <2>2 DEF SettledInv, SettledIsKnown
<1>2. ASSUME NEW k \in Keys, Judge(k) PROVE SettledIsKnown'
  <2>1. saved' = saved
    BY <1>2 DEF Judge
  <2>2. CASE ~Judged(k)
    BY <1>2, <2>1, <2>2 DEF Judge, memory, history, SettledInv, SettledIsKnown
  <2>3. CASE Judged(k)
    <3>1. /\ settled' = [settled EXCEPT ![k] = settled[k] /\ Holds(k)]
          /\ JudgeConfirmed(k) \/ JudgeSustained(k) \/ JudgeStanding(k) \/ JudgeFree(k)
      BY <1>2, <2>3 DEF Judge, Watch
    <3>2. told \in [Keys -> BOOLEAN] /\ settled \in [Keys -> BOOLEAN]
      BY DEF SettledInv, TypeOK
    <3>3. ASSUME NEW j \in Keys \ {k} PROVE told'[j] = told[j] /\ settled'[j] = settled[j]
      BY <3>1, <3>2 DEF JudgeConfirmed, JudgeSustained, JudgeStanding, JudgeFree
    <3>4. below' = below \/ Kind(k) = "free"
      BY <3>1 DEF JudgeConfirmed, JudgeSustained, JudgeStanding, JudgeFree
    <3>5. ASSUME NEW j \in Keys \ {k}, Kind(j) = "free" PROVE below' = below
      BY <3>4, <3>5, FreeAssumption DEF Of
    <3>6. settled'[k] => settled[k] /\ Holds(k)
      BY <3>1, <3>2
    <3>7. CASE JudgeConfirmed(k)
      <4>1. Kind(k) \in Confirmed /\ Kind(k) # "free"
        BY <3>7 DEF JudgeConfirmed, Confirmed
      <4>2. Holds(k) /\ told[k] => told'[k]
        BY <3>2, <3>7 DEF JudgeConfirmed
      <4>3. QED
        BY <2>1, <3>3, <3>4, <3>6, <4>1, <4>2 DEF SettledInv, SettledIsKnown
    <3>8. CASE JudgeFree(k)
      <4>1. /\ Kind(k) = "free" /\ Kind(k) \notin Confirmed
            /\ told' = told /\ (Holds(k) => ~below')
        BY <3>8 DEF JudgeFree, Confirmed
      <4>2. QED
        BY <2>1, <3>3, <3>5, <3>6, <4>1 DEF SettledInv, SettledIsKnown
    <3>9. CASE JudgeSustained(k) \/ JudgeStanding(k)
      <4>1. told' = told /\ below' = below
        BY <3>9 DEF JudgeSustained, JudgeStanding
      <4>2. QED
        BY <2>1, <3>3, <3>6, <4>1 DEF SettledInv, SettledIsKnown
    <3>10. QED
      BY <3>1, <3>7, <3>8, <3>9
  <2>4. QED
    BY <2>2, <2>3
<1>3. CASE Save
  <2>1. /\ told' = told /\ below' = below /\ saved'.told = told /\ saved'.below = below
        /\ \A k \in Keys : settled'[k] = (told[k] \/ (Kind(k) = "free" /\ ~below))
    BY <1>3 DEF Save, EndCycle, memory, Image
  <2>2. QED
    BY <2>1 DEF SettledInv, SettledIsKnown
<1>4. CASE SaveFails \/ Consumer \/ UNCHANGED vars
  BY <1>4 DEF SaveFails, EndCycle, Consumer, Take, Deliver, Fail, vars, memory, history,
     SettledInv, SettledIsKnown
<1>5. CASE Restart
  BY <1>5 DEF Restart, SettledInv, SettledIsKnown
<1>6. ASSUME NEW real, NEW c, NEW r, NEW looksFree, BeginCycle(real, c, r, looksFree)
      PROVE  SettledIsKnown'
  BY <1>6 DEF BeginCycle, history, SettledInv, SettledIsKnown
<1>7. QED
  BY <1>1, <1>2, <1>3, <1>4, <1>5, <1>6 DEF Next, Cycle

-----------------------------------------------------------------------------
(* The theorems.                                                           *)

Inv == SlotInv /\ ClockIsHonest /\ SettledIsKnown

\* The inductive invariant holds in every reachable state, for any keys, times
\* and size of the queue (notify.py:304-560, 670-721).
THEOREM AlertInvariance == Spec => []Inv
<1>1. Init => Inv
  <2>1. Init => ClockIsHonest
    BY DEF Init, ClockIsHonest, Blank, Of
  <2>2. Init => SettledIsKnown
    BY DEF Init, SettledIsKnown
  <2>3. QED
    BY <2>1, <2>2, TypeInit, SlotInit DEF Inv, SlotInv
<1>2. Inv /\ [Next]_vars => Inv'
  BY SlotNext, ClockNext, SettledNext DEF Inv, SlotInv, ClockInv, SettledInv
<1>3. QED
  BY <1>1, <1>2, PTL DEF Spec

\* Every variable keeps its type, and the delivery queue its bound (notify.py:253).
THEOREM AlertTypes == Spec => []TypeOK
<1>1. Inv => TypeOK
  BY DEF Inv, SlotInv
<1>2. QED
  BY <1>1, AlertInvariance, PTL

\* No alert is on its way twice within its gap, whatever fails and however late
\* a rollback comes (notify.py:712-721).
THEOREM OneAlert == Spec => []OneYoungAlert
<1>1. ASSUME Inv, NEW k \in Keys
      PROVE  /\ Cardinality(YoungInQueue(k)) <= 1
             /\ YoungInHand(k) => YoungInQueue(k) = {}
  <2>1. \A m : Young(m, k) => Fresh(m) /\ m.key = k
    BY DEF Young, Fresh
  <2>2. \A i, j \in YoungInQueue(k) : i = j
    BY <1>1, <2>1 DEF YoungInQueue, Inv, SlotInv, OnlyOne, Rival
  <2>3. CASE YoungInQueue(k) = {}
    BY <2>3, FS_EmptySet
  <2>4. CASE YoungInQueue(k) # {}
    <3>1. PICK i : YoungInQueue(k) = {i}
      BY <2>2, <2>4
    <3>2. Cardinality(YoungInQueue(k)) = 1
      BY <3>1, FS_Singleton
    <3>3. ~YoungInHand(k)
      BY <1>1, <2>1, <3>1 DEF YoungInQueue, YoungInHand, Inv, SlotInv, OnlyOne, Rival
    <3>4. QED
      BY <3>2, <3>3
  <2>5. QED
    BY <2>3, <2>4
<1>2. Inv => OneYoungAlert
  BY <1>1 DEF OneYoungAlert
<1>3. QED
  BY <1>2, AlertInvariance, PTL

\* Silence about a key has a reason: its alert is on the way, was shown, failed
\* and is about to be released, or went with a full queue or the process
\* (notify.py:670-721).
THEOREM SilenceHasReason == Spec => []SilenceIsOwed
<1>1. ASSUME Inv, NEW k \in Keys, ~Expired(k)
      PROVE  CASE fate[k] = "queued" -> YoungInQueue(k) # {} \/ YoungInHand(k)
               [] fate[k] = "failed" -> \E m \in released : m.key = k /\ Releases(m)
               [] OTHER -> fate[k] \in {"shown", "lost"}
  <2>1. Owed(k) /\ fate[k] \in {"none", "queued", "lost", "shown", "failed"}
    BY <1>1 DEF Inv, SlotInv, AllOwed, TypeOK
  <2>2. \A m : m.key = k /\ Fresh(m) => Young(m, k)
    BY DEF Young, Fresh
  <2>3. CASE fate[k] = "queued"
    BY <1>1, <2>1, <2>2, <2>3 DEF Owed, YoungInQueue, YoungInHand
  <2>4. CASE fate[k] # "queued"
    BY <1>1, <2>1, <2>4 DEF Owed
  <2>5. QED
    BY <2>3, <2>4
<1>2. Inv => SilenceIsOwed
  BY <1>1 DEF SilenceIsOwed
<1>3. QED
  BY <1>2, AlertInvariance, PTL

\* The notifier implements its debounce: a failed alert opens its key to the next
\* cycle, and nothing else does within the gap (notify.py:670-721).
THEOREM DebounceIsKept == Spec => ImplementsDebounce
<1>1. Init => DebounceInv
  <2>1. Init => FateMatches
    BY DEF Init, FateMatches
  <2>2. QED
    BY <2>1, TypeInit, SlotInit DEF DebounceInv, SlotInv
<1>2. Spec => []DebounceInv
  BY <1>1, FateNext, PTL DEF Spec
<1>3. Spec => Debounced!Spec
  BY <1>2, DebouncedInit, DebouncedNext, PTL DEF Spec, Debounced!Spec
<1>4. QED
  BY <1>3 DEF ImplementsDebounce

\* An outage or off-scheduler use is alerted only after this process saw it for
\* the grace time without a break (notify.py:268, 356-398, 491-520).
THEOREM GraceIsKept == Spec => GraceIsServed
<1>1. ASSUME Inv, NEW k \in Of({"down", "blind", "rogue"}), Alerts(k)
      PROVE  quiet[k] >= Grace[k]
  <2>1. TypeOK /\ ClockIsHonest /\ k \in Keys
    BY <1>1 DEF Inv, SlotInv, Of
  <2>2. Started(k) >= Grace[k]
    BY <1>1, <2>1, AlertIsDue DEF Clocked
  <2>3. Started(k) \in Nat /\ Started(k) <= quiet[k] /\ quiet[k] \in Nat /\ Grace[k] \in Nat
    BY <1>1, <2>1, TimeAssumption DEF Started, ClockIsHonest, TypeOK
  <2>4. QED
    BY <2>2, <2>3
<1>2. Inv => [\A k \in Of({"down", "blind", "rogue"}) : Alerts(k) => quiet[k] >= Grace[k]]_vars
  BY <1>1
<1>3. QED
  BY <1>2, AlertInvariance, PTL DEF GraceIsServed

\* An outage, or free GPUs, reported and saved are not reported again while they
\* last, over any number of restarts (notify.py:35, docs/ALERTS.md:87).
THEOREM OldNews == Spec => OldNewsStaysQuiet
<1>1. ASSUME Inv, NEW k \in Of(Confirmed \cup {"free"}), Alerts(k) PROVE ~settled[k]
  <2>1. TypeOK /\ SettledIsKnown /\ k \in Keys
    BY <1>1 DEF Inv, SlotInv, Of
  <2>2. CASE Kind(k) \in Confirmed
    <3>1. ~told[k] /\ Kind(k) # "free"
      BY <1>1, <2>1, <2>2, AlertIsDue DEF Clocked, Confirmed, Of
    <3>2. QED
      BY <2>1, <3>1 DEF SettledIsKnown
  <2>3. CASE Kind(k) = "free"
    <3>1. Judge(k) /\ mark'[k] # mark[k]
      BY <1>1 DEF Alerts
    <3>2. below
      BY <2>3, <3>1 DEF Judge, memory, JudgeConfirmed, JudgeSustained, JudgeStanding, JudgeFree,
         Silent, Confirmed, Sustained, Standing
    <3>3. QED
      BY <2>1, <2>3, <3>2 DEF SettledIsKnown, Confirmed
  <2>4. QED
    BY <1>1, <2>2, <2>3 DEF Of
<1>2. Inv => [\A k \in Of(Confirmed \cup {"free"}) : Alerts(k) => ~settled[k]]_vars
  BY <1>1
<1>3. QED
  BY <1>2, AlertInvariance, PTL DEF OldNewsStaysQuiet

=============================================================================
