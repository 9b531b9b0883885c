-------------------------------- MODULE Meters ---------------------------------
(***************************************************************************)
(* Counters that a node's agent turns into rates (node_telemetry.py:54-    *)
(* 258; agent.py:93-127): the CPU time of job cgroups, found by walking    *)
(* Slurm's part of the cgroup tree, and the energy of RAPL domains.  A     *)
(* rate is the difference of two samples, so it is only as good as the     *)
(* sampler's memory of the first one.                                      *)
(*                                                                         *)
(* A cgroup is known by its inode, which a later cgroup may get again, and *)
(* its counter starts over; the counter of an energy domain wraps.  An     *)
(* energy domain is a place that always belongs to Domain.                 *)
(*                                                                         *)
(* What fails on the way is passed over without a word: an error while a   *)
(* directory is scanned, a cgroup that vanished among them, ends the scan  *)
(* of that directory and nothing else (node_telemetry.py:244).             *)
(***************************************************************************)
EXTENDS Naturals, SequencesExt

CONSTANTS
  Inodes,      \* identities of cgroup directories
  Under,       \* the directory in which each is found: a scope, or a user's in it
  MeterJobs,   \* job ids, as the directory's name or its step daemon tells
  Domain, Void, \* the owner of energy domains, of no directory
  Wrap,        \* energy counters are below Wrap, and as a bound all counters
  Layouts,     \* which places are energy domains
  MaxSampled,  \* max_jobs
  NoRate, NoValue

ASSUME MetersAssumption ==
  /\ IsFiniteSet(Inodes) /\ Wrap \in Nat \ {0} /\ MaxSampled \in Nat \ {0}
  /\ Domain \notin MeterJobs /\ Void \notin MeterJobs

VARIABLES
  owner,       \* whose counter a place has now
  counter,     \* its value
  previous,    \* job_previous and _rapl_prev
  sampled,     \* a sample just taken: rates by job, jobs_truncated, rates by domain;
               \* and, as history, the directories that errors kept from it
  spent        \* history: what its owner has used since it was last read

meterVars == <<owner, counter, previous, sampled, spent>>

Dirs == {p \in Inodes : owner[p] \in MeterJobs}
EnergyDomains == {p \in Inodes : owner[p] = Domain}
Nothing == [rates |-> <<>>, truncated |-> FALSE, energy |-> <<>>, missed |-> {}]

-----------------------------------------------------------------------------
(* The node.                                                               *)

Consumes(p) ==
  /\ owner[p] # Void /\ spent[p] < Wrap
  /\ counter[p] + 1 = Wrap => owner[p] = Domain
  /\ counter' = [counter EXCEPT ![p] = (@ + 1) % Wrap]
  /\ spent' = [spent EXCEPT ![p] = @ + 1]
  /\ sampled' = Nothing
  /\ UNCHANGED <<owner, previous>>

\* A directory goes, and another job's may come in its place.  A job may have several.
Replaces(p, j) ==
  /\ owner[p] # Domain /\ owner[p] # j
  /\ owner' = [owner EXCEPT ![p] = j]
  /\ counter' = [counter EXCEPT ![p] = 0] /\ spent' = [spent EXCEPT ![p] = 0]
  /\ sampled' = Nothing
  /\ UNCHANGED previous

-----------------------------------------------------------------------------
(* One sample.                                                             *)

\* Mistaken variant of Difference: a smaller value is taken for a counter that wrapped.
DifferenceUnwrapped(p, value) == IF previous[p] = NoValue THEN NoRate ELSE (value + Wrap - previous[p]) % Wrap
\* Without an earlier value, or with a larger one, there is no rate.
Difference(p, value) ==
  IF previous[p] = NoValue \/ value < previous[p] THEN NoRate ELSE value - previous[p]

\* What comes of a place: its counter is read or not, it is gone when it is opened, its
\* step daemon does not tell the job, or 4096 entries have been looked at before it.
Fates == {"read", "unreadable", "gone", "nameless", "cut"}
Legible(fate) == {p \in Inodes : fate[p] = "read"}
Parents == {Under[p] : p \in Inodes}

\* _jobs: directories to leave alone from the start are those that could not be scanned.
Outset(unscanned) == [rates |-> <<>>, twice |-> {}, seen |-> {}, read |-> {}, left |-> unscanned, truncated |-> FALSE]
With(rates, j, rate) == [i \in DOMAIN rates \cup {j} |-> IF i = j THEN rate ELSE rates[i]]

\* Mistaken variant of Found: a job that was left out comes back with one more directory.
FoundAgain(fate, walk, p) ==
  LET j == owner[p] IN
  IF j \in DOMAIN walk.rates
  THEN [walk EXCEPT !.seen = @ \cup {p}, !.twice = @ \cup {j}, !.rates = Restrict(@, DOMAIN @ \ {j})]
  ELSE [walk EXCEPT !.seen = @ \cup {p}, !.read = @ \cup {p},
                    !.rates = With(@, j, IF fate[p] = "read" THEN Difference(p, counter[p]) ELSE NoRate)]
\* A job with a second directory is left out, whichever came first, and that directory
\* is passed without reading.
Found(fate, walk, p) ==
  LET j == owner[p] IN
  IF j \in DOMAIN walk.rates \cup walk.twice
  THEN [walk EXCEPT !.seen = @ \cup {p}, !.twice = @ \cup {j}, !.rates = Restrict(@, DOMAIN @ \ {j})]
  ELSE [walk EXCEPT !.seen = @ \cup {p}, !.read = @ \cup {p},
                    !.rates = With(@, j, IF fate[p] = "read" THEN Difference(p, counter[p]) ELSE NoRate)]

\* The walk stops when enough jobs are found, or entries looked at; an error leaves the
\* rest of the directory it is in.
Visit(fate, walk, p) ==
  IF Under[p] \in walk.left THEN walk
  ELSE IF walk.truncated \/ fate[p] = "cut" \/ Cardinality(DOMAIN walk.rates) >= MaxSampled
  THEN [walk EXCEPT !.truncated = TRUE]
  ELSE CASE fate[p] = "gone" -> [walk EXCEPT !.left = @ \cup {Under[p]}]
         [] fate[p] = "nameless" -> walk
         [] OTHER -> Found(fate, walk, p)

\* The directories that errors may keep from a walk, wherever it comes upon them.
Hidden(fate, unscanned) ==
  {p \in Dirs : \/ fate[p] = "nameless"
                \/ Under[p] \in unscanned \cup {Under[q] : q \in {d \in Dirs : fate[d] = "gone"}}}

\* What is remembered of directories and domains.
Remembered(walk, readable) ==
  [p \in Inodes |->
     IF p \in (walk.read \cup EnergyDomains) \cap readable THEN counter[p]
     ELSE IF p \in (walk.seen \ walk.read) \cup EnergyDomains THEN previous[p]
     ELSE NoValue]

Sampling(order, fate, unscanned) ==
  LET walk == FoldLeft(LAMBDA w, p : Visit(fate, w, p), Outset(unscanned), order)
      readable == Legible(fate) IN
  /\ sampled = Nothing
  /\ sampled' = [rates |-> walk.rates, truncated |-> walk.truncated,
                 energy |-> [p \in EnergyDomains \cap readable |-> Difference(p, counter[p])],
                 missed |-> Hidden(fate, unscanned)]
  /\ previous' = Remembered(walk, readable)
  /\ spent' = [p \in Inodes |-> IF p \in (walk.read \cup EnergyDomains) \cap readable
                                THEN 0 ELSE spent[p]]
  /\ UNCHANGED <<owner, counter>>

\* No cgroup tree: the directories are forgotten.
NoTree ==
  /\ sampled = Nothing
  /\ previous' = [p \in Inodes |-> IF p \in EnergyDomains THEN previous[p] ELSE NoValue]
  /\ UNCHANGED <<owner, counter, sampled, spent>>

\* The agent sends a sample before it takes the next.
Sent ==
  /\ sampled # Nothing
  /\ sampled' = Nothing
  /\ UNCHANGED <<owner, counter, previous, spent>>

-----------------------------------------------------------------------------
MetersInit ==
  /\ \E domains \in Layouts : owner = [p \in Inodes |-> IF p \in domains THEN Domain ELSE Void]
  /\ counter = [p \in Inodes |-> 0] /\ previous = [p \in Inodes |-> NoValue]
  /\ sampled = Nothing
  /\ spent = [p \in Inodes |-> 0]

\* The directories in the order of a walk, one scan after the other.
Orders ==
  {order \in SetToSeqs(Dirs) :
     \A i, k \in DOMAIN order : \A m \in i..k :
       Under[order[i]] = Under[order[k]] => Under[order[m]] = Under[order[i]]}

\* Bound: one place of a sample is not read, and one directory not scanned, which is
\* unscanned with a place that is gone from the one above, or by itself.
SomeFates == {f \in [Inodes -> Fates] : Cardinality({p \in Inodes : f[p] # "read"}) <= 1}
SomeUnscanned(fate) ==
  {l \in SUBSET Parents : /\ Cardinality(l) <= 1
                          /\ l # {} => \A p \in Inodes : fate[p] \in {"read", "gone"}}

MetersNext ==
  \/ \E p \in Inodes : Consumes(p)
  \/ \E p \in Inodes, j \in MeterJobs \cup {Void} : Replaces(p, j)
  \/ \E order \in Orders, fate \in SomeFates :
       \E unscanned \in SomeUnscanned(fate) : Sampling(order, fate, unscanned)
  \/ NoTree
  \/ Sent

MetersSpec == MetersInit /\ [][MetersNext]_meterVars

-----------------------------------------------------------------------------
\* No rate is more than its owner used since the reading it starts from, though inodes
\* are used again, counters wrap and readings fail, and a job is reported for one directory
\* of its own (node_telemetry.py:169, 232; agent.py:121).  Unless the walk was cut short,
\* errors cost what they hide and nothing else: of the other directories, a job's only one
\* is reported, and none of two (node_telemetry.py:237, 244; docs/PUSH.md:106).
MetersAreHonest ==
  [][sampled' # sampled /\ sampled' # Nothing =>
       /\ \A j \in DOMAIN sampled'.rates :
            \E p \in Dirs : owner[p] = j /\ sampled'.rates[j] \in {NoRate} \cup 0..spent[p]
       /\ \A p \in DOMAIN sampled'.energy : sampled'.energy[p] \in {NoRate} \cup 0..spent[p]
       /\ Cardinality(DOMAIN sampled'.rates) <= MaxSampled
       /\ ~sampled'.truncated => \A p \in Dirs \ sampled'.missed :
            /\ (\A q \in Dirs : owner[q] = owner[p] => q = p) => owner[p] \in DOMAIN sampled'.rates
            /\ (\E q \in Dirs \ sampled'.missed : q # p /\ owner[q] = owner[p])
                 => owner[p] \notin DOMAIN sampled'.rates]_meterVars
=============================================================================
