------------------------------- MODULE Allocation ------------------------------
(***************************************************************************)
(* Which card belongs to which job (common.py:1868-1942; cells.py:193-214).*)
(* The scheduler names a card by a GRES index, which on mixed nodes is not *)
(* the number of the device; the processes on the cards say more.          *)
(*                                                                         *)
(* The state machine is one node: jobs get cards, their processes come and *)
(* go, are seen with their cgroup or without, and people log in and        *)
(* compute outside the scheduler.  Users that are never counted            *)
(* (ROGUE_IGNORE) are left out.                                            *)
(***************************************************************************)
EXTENDS Naturals, FiniteSets, SequencesExt

CONSTANTS
  NCards,    \* cards, in the order of their device numbers
  CardJobs,  \* jobs
  CardUser,  \* the user of each job
  Outsiders, \* users who compute outside the scheduler
  Hints,     \* permutations: the GRES index the scheduler has for a card
  Unbound    \* no job

Cards == 1..NCards

ASSUME CardsAssumption ==
  /\ NCards \in Nat /\ Unbound \notin CardJobs
  /\ \A h \in Hints : h \in [Cards -> Cards] /\ IsInjective(h)

Procs == {"none", "user", "cgroup"}

VARIABLES
  holds,     \* the job that really has a card
  shows,     \* what the probe sees of that job on the card: nothing, its user, its cgroup
  outside,   \* the user outside the scheduler on the card
  hint,      \* the index of each card, fixed for a node
  order      \* the jobs in the order in which the scheduler lists them

nodeVars == <<holds, shows, outside, hint, order>>

-----------------------------------------------------------------------------
(* The node.                                                               *)

CardsStart(j, cards, front) ==
  /\ j \notin ToSet(order) /\ cards # {}
  /\ \A c \in cards : holds[c] = Unbound
  /\ holds' = [c \in Cards |-> IF c \in cards THEN j ELSE holds[c]]
  /\ order' = IF front THEN <<j>> \o order ELSE Append(order, j)
  /\ UNCHANGED <<shows, outside, hint>>

CardsEnd(j) ==
  /\ j \in ToSet(order)
  /\ holds' = [c \in Cards |-> IF holds[c] = j THEN Unbound ELSE holds[c]]
  /\ shows' = [c \in Cards |-> IF holds[c] = j THEN "none" ELSE shows[c]]
  /\ order' = RemoveFirst(order, j)
  /\ UNCHANGED <<outside, hint>>

Computes(c, how) ==
  /\ holds[c] # Unbound
  /\ shows' = [shows EXCEPT ![c] = how]
  /\ UNCHANGED <<holds, outside, hint, order>>

Intrudes(c, u) ==
  /\ outside' = [outside EXCEPT ![c] = u]
  /\ UNCHANGED <<holds, shows, hint, order>>

-----------------------------------------------------------------------------
(* What the collector is given: a card's users and job ids, the allocations. *)

Users(c) ==
  (IF shows[c] # "none" THEN {CardUser[holds[c]]} ELSE {})
    \cup (IF outside[c] # Unbound THEN {outside[c]} ELSE {})
JobIds(c) == IF shows[c] = "cgroup" THEN {holds[c]} ELSE {}
Indices(j) == {hint[c] : c \in {d \in Cards : holds[d] = j}}

\* One entry per allocated GPU, in the scheduler's order.
Entries ==
  FoldLeft(LAMBDA seq, j : seq \o [i \in 1..Cardinality(Indices(j)) |-> j], <<>>, order)

-----------------------------------------------------------------------------
(* reconcile_gpu_alloc.                                                    *)

Start == [bound |-> [c \in Cards |-> Unbound], left |-> Entries]
Bind(b, c, j) == [bound |-> [b.bound EXCEPT ![c] = j], left |-> RemoveFirst(b.left, j)]
CardList == [c \in Cards |-> c]

\* A card's first remaining job that passes the test.
BindFirst(b, c, Test(_)) ==
  LET i == SelectInSeq(b.left, Test) IN IF i = 0 THEN b ELSE Bind(b, c, b.left[i])

\* 0) The process names its job.
ByCgroup(b, c) == BindFirst(b, c, LAMBDA j : j \in JobIds(c))

\* Mistaken variant of ByUser: cards that are bound already are bound again.
ByUserAgain(b, c) == BindFirst(b, c, LAMBDA j : CardUser[j] \in Users(c))
\* 1) The process names a user, who has a job here.
ByUser(b, c) ==
  IF b.bound[c] # Unbound THEN b ELSE BindFirst(b, c, LAMBDA j : CardUser[j] \in Users(c))

\* 2) A reservation without a process goes to a card without one, by its index if it can.
ByHint(b, j) ==
  LET free == {c \in Cards : b.bound[c] = Unbound /\ Users(c) = {}}
      hinted == {c \in free : c \in Indices(j)}
      best == IF hinted # {} THEN hinted ELSE free
  IN IF best = {} THEN b
     ELSE [b EXCEPT !.bound[CHOOSE c \in best : \A d \in best : c <= d] = j]

Reconciled ==
  LET sure == FoldLeft(ByUser, FoldLeft(ByCgroup, Start, CardList), CardList)
  IN FoldLeft(ByHint, sure, sure.left).bound

\* classify_gpu: used by somebody, reserved by nobody.
RogueCards(bound) == {c \in Cards : Users(c) # {} /\ bound[c] = Unbound}

-----------------------------------------------------------------------------
NodeInit ==
  /\ holds = [c \in Cards |-> Unbound] /\ shows = [c \in Cards |-> "none"]
  /\ outside = [c \in Cards |-> Unbound]
  /\ hint \in Hints
  /\ order = <<>>

NodeNext ==
  \/ \E j \in CardJobs, cards \in SUBSET Cards, front \in BOOLEAN : CardsStart(j, cards, front)
  \/ \E j \in CardJobs : CardsEnd(j)
  \/ \E c \in Cards, how \in Procs : Computes(c, how)
  \/ \E c \in Cards, u \in Outsiders \cup {Unbound} : Intrudes(c, u)

NodeSpec == NodeInit /\ [][NodeNext]_nodeVars

-----------------------------------------------------------------------------
CardsOf(bound, j) == {c \in Cards : bound[c] = j}
Alone == \A c \in Cards : outside[c] = Unbound
Traced == \A c \in Cards : shows[c] # "user"
Exact == \A c \in Cards : hint[c] = c

\* A job never gets more cards than it has, and a card whose process names its job is
\* that job's.  With no one outside the scheduler no card is lost, called rogue or
\* given to another user than the one who computes there.  Where processes name their
\* jobs, only a card with an outsider is rogue, and if indices are device numbers, the
\* result is the truth (common.py:1868, 1906).
CardsAreRight ==
  LET bound == Reconciled IN
  /\ \A j \in CardJobs : Cardinality(CardsOf(bound, j)) <= Cardinality(CardsOf(holds, j))
  /\ \A c \in Cards : shows[c] = "cgroup" => bound[c] = holds[c]
  /\ Alone =>
       /\ \A j \in CardJobs : Cardinality(CardsOf(bound, j)) = Cardinality(CardsOf(holds, j))
       /\ RogueCards(bound) = {}
       /\ \A c \in Cards : shows[c] = "user" => CardUser[bound[c]] = CardUser[holds[c]]
  /\ Traced => \A c \in RogueCards(bound) : outside[c] # Unbound
  /\ Traced /\ Alone /\ Exact => bound = holds
=============================================================================
