--------------------------------- MODULE DataMC --------------------------------
(***************************************************************************)
(* Small instances of the components that turn what others report into     *)
(* what is shown.  As in StateMC, "part" is the one that moves.            *)
(***************************************************************************)
EXTENDS Records, Sampler, Allocation, Meters, UsageDays, NodeLists

CONSTANTS n1, n2, u1, u2, j1, j2, j3, p1, p2, p3, m1, m2, v1, v2

VARIABLE part

Parts == {"records", "sampler", "allocation", "meters", "days", "lists"}

\* Two nodes, one with two cards; two jobs of one user; a mixed-up node and two others.
ThreeGpus == {<<n1, 0>>, <<n1, 1>>, <<n2, 0>>}
Users12 == <<u1, u2, u1>>
OneGpu == {<<n1, 0>>}
OneOwner == <<u1>>
UserOf == (j1 :> u1) @@ (j2 :> u1) @@ (j3 :> u2)
SomeHints == {<<1, 2, 3>>, <<2, 1, 3>>, <<2, 3, 1>>}
TwoScans == (p1 :> v1) @@ (p2 :> v1) @@ (p3 :> v2)
SomeLayouts == {{}, {p1}}
OneAndTwo == {<<1, 1>>, <<2, 2>>}

Rest(moving) ==
  /\ UNCHANGED part
  /\ moving # "records" => UNCHANGED cluster
  /\ moving # "sampler" => UNCHANGED samplerVars
  /\ moving # "allocation" => UNCHANGED nodeVars
  /\ moving # "meters" => UNCHANGED meterVars
  /\ moving # "days" => UNCHANGED usageVars
  /\ moving # "lists" => UNCHANGED listVars

DataInit ==
  /\ part \in Parts
  /\ UsageInit
  /\ part # "days" =>
       /\ begin = 0 /\ end = 1 /\ now = 1 /\ gpus = 1 /\ cutoff = 1
       /\ recorded = [d \in Days |-> [u \in DayUsers |-> 0]]
  /\ QueueInit /\ ListInit
  /\ SamplerInit /\ (part # "sampler" => modern)
  /\ NodeInit /\ (part # "allocation" => hint = <<1, 2, 3>>)
  /\ MetersInit /\ (part # "meters" => EnergyDomains = {})

DataNext ==
  \/ part = "records" /\ QueueNext /\ Rest(part)
  \/ part = "sampler" /\ SamplerNext /\ Rest(part)
  \/ part = "allocation" /\ NodeNext /\ Rest(part)
  \/ part = "meters" /\ MetersNext /\ Rest(part)
  \/ part = "days" /\ UsageNext /\ Rest(part)
  \/ part = "lists" /\ ListNext /\ Rest(part)

DataSpec == DataInit /\ [][DataNext]_<<part, cluster, samplerVars, nodeVars, meterVars, usageVars, listVars>>
=============================================================================
