--------------------------------- MODULE Agent ---------------------------------
(***************************************************************************)
(* The resident agent of one GPU node (agent.py:185-278, 327-392;          *)
(* common.py:1648-1744): what it publishes about the cards, put together   *)
(* from a probe, a cached topology and cached health, each with an age of  *)
(* its own.                                                                *)
(*                                                                         *)
(* A driver reset may hide boards and number the devices anew.  Boards     *)
(* are numbered as the PCI bus orders them; a board's index is its rank    *)
(* among the visible ones.  A collection takes at most MaxTook ticks.  What  *)
(* nvidia-smi says of a board's health is represented by the board.        *)
(***************************************************************************)
EXTENDS Naturals, FiniteSets

CONSTANTS
  NBoards,                        \* boards in the node
  TopologyTtl, HealthTtl,         \* GPU_TOPOLOGY_TTL, the period of _apply_gpu_health
  HealthRetry,                    \* its pause after a failure
  MaxTook,                        \* bound: ticks in a collection
  Unnumbered, Unread              \* no minor known, no health known

ASSUME AgentTimesAssumption ==
  {NBoards, TopologyTtl, HealthTtl, HealthRetry, MaxTook} \subseteq Nat

Boards == 1..NBoards
Minors == 0..(NBoards - 1)
Longest == IF TopologyTtl >= HealthTtl THEN TopologyTtl ELSE HealthTtl

VARIABLES
  visible, numbers, known,  \* boards nvidia-smi lists, their minors, those /proc has a minor for
  doing, took, dynamic,     \* step of a collection, its length, whether minors are not asked for
  rows,                     \* what it has so far: index -> [board, minor]
  topology, topologyLeft,   \* _gpu_topology_cache: rows, and time until "expires"
  health, healthLeft,       \* _health_cache: index -> board, and time until "next"
  steady                    \* history: time since a reset

cards == <<visible, numbers, known>>
caches == <<topology, topologyLeft, health, healthLeft>>
agentVars == <<cards, doing, took, dynamic, rows, caches, steady>>

Less(n) == IF n = 0 THEN 0 ELSE n - 1
More(n, limit) == IF n < limit THEN n + 1 ELSE n
NoRows == <<>>
Indices(set) == 0..(Cardinality(set) - 1)
\* The board with an index.
At(set, i) == CHOOSE b \in set : Cardinality({c \in set : c < b}) = i

-----------------------------------------------------------------------------
(* The node.                                                               *)

Reset(boards, minors) ==
  /\ visible' = boards /\ numbers' = minors /\ known' \in {{}, boards}
  /\ steady' = 0
  /\ UNCHANGED <<doing, took, dynamic, rows, caches>>

\* /proc is complete at last.
Settles ==
  /\ known # visible
  /\ known' = visible
  /\ UNCHANGED <<visible, numbers, doing, took, dynamic, rows, caches, steady>>

AgentTick ==
  /\ doing # "sleep" => took < MaxTook
  /\ took' = IF doing = "sleep" THEN 0 ELSE took + 1
  /\ topologyLeft' = Less(topologyLeft) /\ healthLeft' = Less(healthLeft)
  /\ steady' = More(steady, Longest + MaxTook + 1)
  /\ UNCHANGED <<cards, doing, dynamic, rows, topology, health>>

-----------------------------------------------------------------------------
(* parse_node_payload on the answer of a probe, with minors or without.    *)

Probed(full) ==
  [i \in Indices(visible) |->
     LET board == At(visible, i) IN
     [board |-> board, minor |-> IF full /\ board \in known THEN numbers[board] ELSE Unnumbered]]

\* _gpu_set: which boards, in which order.
GpuSet(r) == [i \in DOMAIN r |-> r[i].board]

-----------------------------------------------------------------------------
(* _collect_gpu_payload.                                                   *)

\* Mistaken variant of Complete: a probe during a driver reset is as good as any.
CompleteEnough(r) == r # NoRows
Complete(r) == r # NoRows /\ \A i \in DOMAIN r : r[i].minor # Unnumbered

\* _remember_gpu_topology.  Time is read before the probe.
Remember(r) ==
  /\ topology' = IF Complete(r) THEN r ELSE NoRows
  /\ topologyLeft' = IF Complete(r) /\ TopologyTtl > took THEN TopologyTtl - took ELSE 0

Begin ==
  /\ doing = "sleep"
  /\ doing' = "probe" /\ took' = 0
  /\ dynamic' = (topology # NoRows /\ topologyLeft > 0)
  /\ UNCHANGED <<cards, rows, caches, steady>>

\* The cached minors go with the indices; a different set is probed again, in full.
Probe ==
  /\ doing = "probe"
  /\ LET r == Probed(~dynamic) IN
     IF ~dynamic
     THEN rows' = r /\ Remember(r) /\ doing' = "health" /\ UNCHANGED dynamic
     ELSE IF GpuSet(r) # GpuSet(topology)
     THEN dynamic' = FALSE /\ UNCHANGED <<rows, topology, topologyLeft, doing>>
     ELSE /\ rows' = [i \in DOMAIN r |-> [r[i] EXCEPT !.minor = topology[i].minor]]
          /\ dynamic' = FALSE /\ doing' = "health"
          /\ UNCHANGED <<topology, topologyLeft>>
  /\ UNCHANGED <<cards, took, health, healthLeft, steady>>

(* _apply_gpu_health.                                                      *)

\* Mistaken variant of Forgotten: a failed query leaves the old values.
ForgottenNever(old) == old
Forgotten(old) == NoRows

Examine(ok) ==
  /\ doing = "health"
  /\ doing' = "write"
  /\ IF healthLeft > 0 THEN UNCHANGED <<health, healthLeft>>
     ELSE IF ok THEN /\ health' = GpuSet(Probed(FALSE))
                     /\ healthLeft' = HealthTtl
     ELSE health' = Forgotten(health) /\ healthLeft' = HealthRetry
  /\ UNCHANGED <<cards, took, dynamic, rows, topology, topologyLeft, steady>>

HealthAt(i) == IF i \in DOMAIN health THEN health[i] ELSE Unread

(* The write of run_agent: nothing without cards.                          *)

Publishable == rows # NoRows

Payload ==
  [i \in DOMAIN rows |-> [board |-> rows[i].board, minor |-> rows[i].minor, health |-> HealthAt(i)]]

\* Payload goes to <host>.json if it is publishable and the write succeeds.
Publish(written) ==
  /\ doing = "write" /\ (written => Publishable)
  /\ doing' = "sleep" /\ took' = 0 /\ rows' = NoRows
  /\ UNCHANGED <<cards, dynamic, caches, steady>>

\* A command that takes too long ends the collection.
CollectFails ==
  /\ doing = "probe"
  /\ doing' = "sleep" /\ took' = 0 /\ dynamic' = FALSE
  /\ UNCHANGED <<cards, rows, caches, steady>>

AgentRestart ==
  /\ doing' = "sleep" /\ took' = 0 /\ rows' = NoRows /\ dynamic' = FALSE
  /\ topology' = NoRows /\ topologyLeft' = 0
  /\ health' = NoRows /\ healthLeft' = 0
  /\ UNCHANGED <<cards, steady>>

-----------------------------------------------------------------------------
Numberings == {f \in [Boards -> Minors] : \A b, c \in Boards : f[b] = f[c] => b = c}

AgentInit ==
  /\ visible = Boards /\ known = Boards
  /\ numbers \in Numberings
  /\ doing = "sleep" /\ took = 0 /\ dynamic = FALSE /\ rows = NoRows
  /\ topology = NoRows /\ topologyLeft = 0 /\ health = NoRows /\ healthLeft = 0
  /\ steady = 0

AgentNext ==
  \/ \E boards \in SUBSET Boards, minors \in Numberings : Reset(boards, minors)
  \/ Settles
  \/ AgentTick
  \/ Begin
  \/ Probe
  \/ \E ok \in BOOLEAN : Examine(ok)
  \/ \E ok \in BOOLEAN : Publish(ok)
  \/ CollectFails
  \/ AgentRestart

AgentSpec == AgentInit /\ [][AgentNext]_agentVars

-----------------------------------------------------------------------------
\* Once the driver has been quiet for the life of a cached topology, a probe has every
\* card and the number of its device, as soon as the driver tells them: a cache filled
\* before or during a reset does not outlive it.  Neither does a sample of the cards'
\* health, which goes by index: what is written of a card is that card's (agent.py:192,
\* 207, 232).
PayloadIsTheCards ==
  [][/\ Probe /\ rows' # rows /\ steady > TopologyTtl + MaxTook /\ known = visible =>
          rows' = [i \in Indices(visible) |-> [board |-> At(visible, i), minor |-> numbers[At(visible, i)]]]
     /\ Publish(TRUE) /\ steady > HealthTtl + MaxTook =>
          \A i \in DOMAIN Payload : Payload[i].health \in {Unread, Payload[i].board}]_agentVars
=============================================================================
