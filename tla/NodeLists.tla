------------------------------- MODULE NodeLists -------------------------------
(***************************************************************************)
(* How host lists and card lists are read (common.py:447-504, 655-733,     *)
(* 1124-1141).  There are two readers of host lists: a lenient one that    *)
(* degrades on odd spellings, for the allocation that squeue and scontrol  *)
(* give, and a strict one that rejects them, for job records.              *)
(*                                                                         *)
(* A line is a sequence of tokens: brackets, commas, dashes, a letter for  *)
(* the other characters of names, and numerals with their width.  No two   *)
(* numerals are adjacent, for they would be one.                           *)
(***************************************************************************)
EXTENDS Integers, Sequences, FiniteSets, SequencesExt

CONSTANTS
  Numerals,      \* those that occur: pairs of a number and a width
  MaxTokens,     \* bound: tokens of a line
  StrictLimit,   \* _LEGACY_MAX_NODES
  LenientLimit   \* _MAX_EXPANSION

ASSUME ListAssumption ==
  /\ Numerals \subseteq Nat \X (Nat \ {0})
  /\ {MaxTokens, StrictLimit, LenientLimit} \subseteq Nat
  /\ StrictLimit <= LenientLimit

VARIABLES line, meant   \* what was printed, and the hosts it is for if Slurm printed it

listVars == <<line, meant>>

Mark(c) == [char |-> c, n |-> 0, width |-> 0]
Num(n, w) == [char |-> "0", n |-> n, width |-> w]
Tokens == {Mark(c) : c \in {"[", "]", ",", "-", "x"}} \cup {Num(p[1], p[2]) : p \in Numerals}
IsNumeral(s) == Len(s) = 1 /\ s[1].char = "0"

\* str(i).zfill(width), for every i of a range.
Padded(lo, hi, width) == [i \in 1..(hi - lo + 1) |-> <<Num(lo + i - 1, width)>>]

Reject == [ok |-> FALSE, values |-> {}]

-----------------------------------------------------------------------------
(* Splitting.                                                              *)

\* _split_top_level: at the commas outside brackets; empty pieces are dropped.
Kept(done, piece) == IF piece = <<>> THEN done ELSE Append(done, piece)
Fed(acc, t) ==
  LET depth == IF t.char = "[" THEN acc.depth + 1
               ELSE IF t.char = "]" /\ acc.depth > 0 THEN acc.depth - 1 ELSE acc.depth
  IN  IF t.char = "," /\ depth = 0
      THEN [depth |-> depth, done |-> Kept(acc.done, acc.piece), piece |-> <<>>]
      ELSE [depth |-> depth, done |-> acc.done, piece |-> Append(acc.piece, t)]
SplitTopLevel(s) ==
  LET end == FoldLeft(Fed, [depth |-> 0, done |-> <<>>, piece |-> <<>>], s)
  IN  Kept(end.done, end.piece)

\* spec.split(","): empty pieces are kept.
Apart(acc, t) ==
  IF t.char = "," THEN Append(acc, <<>>) ELSE [acc EXCEPT ![Len(acc)] = Append(@, t)]
SplitAll(s) == FoldLeft(Apart, << <<>> >>, s)

First(s, from, chars) ==
  LET found == {i \in from..Len(s) : s[i].char \in chars}
  IN  IF found = {} THEN Len(s) + 1 ELSE CHOOSE i \in found : \A j \in found : i <= j

\* _NODE_TOKEN_RE: literals and closed brackets, and what neither matches.
Sections(name) ==
  LET part[i \in 1..(Len(name) + 1)] ==
        IF i > Len(name) THEN <<>>
        ELSE LET close == First(name, i + 1, {"]"})
                 stop == First(name, i, {"[", "]"})
             IN IF name[i].char = "[" /\ close <= Len(name)
                THEN <<[kind |-> "spec", text |-> SubSeq(name, i + 1, close - 1)]>> \o part[close + 1]
                ELSE IF stop = i THEN <<[kind |-> "gap", text |-> <<>>]>> \o part[i + 1]
                ELSE <<[kind |-> "literal", text |-> SubSeq(name, i, stop - 1)]>> \o part[stop]
  IN  part[1]

\* r.partition("-")
Before(r) == SubSeq(r, 1, First(r, 1, {"-"}) - 1)
Dashed(r) == First(r, 1, {"-"}) <= Len(r)
After(r) == SubSeq(r, First(r, 1, {"-"}) + 1, Len(r))
IsRange(r) == Dashed(r) /\ IsNumeral(Before(r)) /\ IsNumeral(After(r))
Low(r) == Before(r)[1].n
High(r) == After(r)[1].n
\* Mistaken variant of Spelled: int() forgets the zeros in front.
SpelledBare(r) == Padded(Low(r), High(r), 1)
\* The numbers of a range, as wide as the first one.
Spelled(r) == Padded(Low(r), High(r), Before(r)[1].width)

\* itertools.product, joined.
Product(groups) ==
  FoldLeft(LAMBDA acc, g : FlattenSeq([i \in DOMAIN acc |-> [j \in DOMAIN g |-> acc[i] \o g[j]]]),
           << <<>> >>, groups)
Size(groups) == FoldLeft(LAMBDA n, g : n * Len(g), 1, groups)

-----------------------------------------------------------------------------
(* The lenient reader.                                                     *)

\* _expand_range_spec: what is not a range of a possible size stays as it is.
ExpandRangeSpec(spec) ==
  FlattenSeq([i \in DOMAIN SplitAll(spec) |->
    LET r == SplitAll(spec)[i] IN
    IF r = <<>> THEN <<>>
    ELSE IF IsRange(r) /\ Low(r) <= High(r) /\ High(r) - Low(r) < LenientLimit THEN Spelled(r)
    ELSE <<r>>])

\* Mistaken variant of Joined: parsing starts again at every bracket.
JoinedEach(groups) ==
  IF Len(groups) < 2 THEN Product(groups)
  ELSE FlattenSeq([i \in 1..(Len(groups) - 1) |-> Product(<<groups[1], groups[i + 1]>>)])
\* Every value of a group with every value of the others.
Joined(groups) == Product(groups)

\* What neither alternative matches is passed over, like an empty literal.
LenientGroups(name) ==
  [i \in DOMAIN Sections(name) |-> LET p == Sections(name)[i] IN
     IF p.kind = "spec" THEN ExpandRangeSpec(p.text) ELSE <<p.text>>]
\* total *= max(1, len(g))
AtMost(groups) == FoldLeft(LAMBDA n, g : n * (IF g = <<>> THEN 1 ELSE Len(g)), 1, groups)

\* expand_nodelist: a name of an implausible size stays as it is.
LenientHosts(name) ==
  IF \A i \in DOMAIN Sections(name) : Sections(name)[i].kind = "gap" THEN <<>>
  ELSE IF AtMost(LenientGroups(name)) > LenientLimit THEN <<name>> ELSE Joined(LenientGroups(name))
ExpandNodelist(s) ==
  FlattenSeq([i \in DOMAIN SplitTopLevel(s) |-> LenientHosts(SplitTopLevel(s)[i])])

\* _expand_idx: the numbers of a list of cards; there is no padding.
ExpandIdx(spec) ==
  FlattenSeq([i \in DOMAIN SplitAll(spec) |->
    LET r == SplitAll(spec)[i] IN
    IF r = <<>> THEN <<>>
    ELSE IF IsRange(r) /\ Low(r) <= High(r) THEN Padded(Low(r), High(r), 1) ELSE <<r>>])

-----------------------------------------------------------------------------
(* The strict reader.                                                      *)

\* _strict_range_values: <<>> for None, for no accepted spec is empty.
StrictRangeValues(spec) ==
  LET pieces == SplitAll(spec)
      value(r) == IF Dashed(r) THEN Spelled(r) ELSE <<r>>
      fine(r) == /\ IsNumeral(Before(r))
                 /\ Dashed(r) => IsNumeral(After(r)) /\ Low(r) <= High(r)
      all == FlattenSeq([i \in DOMAIN pieces |-> value(pieces[i])])
  IN  IF (\A i \in DOMAIN pieces : fine(pieces[i])) /\ Len(all) <= StrictLimit THEN all ELSE <<>>

\* _strict_expand_nodes: no gaps, no empty groups, at most so many hosts, none twice.
StrictGroups(name) ==
  [i \in DOMAIN Sections(name) |-> LET p == Sections(name)[i] IN
     IF p.kind = "literal" THEN <<p.text>>
     ELSE IF p.kind = "spec" THEN StrictRangeValues(p.text) ELSE <<>>]
StrictExpandNodes(s) ==
  LET names == SplitTopLevel(s)
      groups == [i \in DOMAIN names |-> StrictGroups(names[i])]
      hosts == FlattenSeq([i \in DOMAIN names |-> Product(groups[i])])
      fine == /\ \A i \in DOMAIN names : groups[i] # <<>> /\ \A k \in DOMAIN groups[i] : groups[i][k] # <<>>
              /\ SumFunction([i \in DOMAIN names |-> Size(groups[i])]) <= StrictLimit
              /\ hosts # <<>> /\ IsInjective(hosts)
  IN  IF s = <<>> THEN [ok |-> TRUE, values |-> {}]
      ELSE IF fine THEN [ok |-> TRUE, values |-> ToSet(hosts)] ELSE Reject

\* _strict_gpu_indices: str(int(value)).
StrictGpuIndices(spec) ==
  LET values == StrictRangeValues(spec) IN [i \in DOMAIN values |-> <<Num(values[i][1].n, 1)>>]

-----------------------------------------------------------------------------
(* Lines.                                                                  *)

Unsaid == [ok |-> FALSE, values |-> {}]

\* Anybody's line, token by token.
Type(t) ==
  /\ ~meant.ok /\ Len(line) < MaxTokens
  /\ line # <<>> => ~(line[Len(line)].char = "0" /\ t.char = "0")
  /\ line' = Append(line, t)
  /\ UNCHANGED meant

\* Slurm prints ranges of equal width in brackets, several groups in a name, several
\* names with a letter in front.
Bracket(lo, hi, w) ==
  <<Mark("["), Num(lo, w)>> \o (IF lo = hi THEN <<>> ELSE <<Mark("-"), Num(hi, w)>>) \o <<Mark("]")>>
Numbers(lo, hi, w) == {<<Num(i, w)>> : i \in lo..hi}
Named(a, x) == {<<Mark("x")>> \o p \o q : p \in a, q \in x}
SlurmPrints(lo, hi, w, tail, single) ==
  LET first == <<Mark("x")>> \o Bracket(lo, hi, w) \o tail
      rest == IF single THEN <<>> ELSE <<Mark(","), Mark("x"), Mark("x")>>
      tails == IF tail = <<>> THEN {<<>>}
               ELSE IF tail[1].char = "[" THEN Numbers(1, 2, 1) ELSE {tail}
  IN
  /\ line = <<>>
  /\ line' = first \o rest
  /\ meant' = [ok |-> TRUE,
               values |-> Named(Numbers(lo, hi, w), tails)
                          \cup (IF single THEN {} ELSE {<<Mark("x"), Mark("x")>>})]

ListInit == line = <<>> /\ meant = Unsaid

ListNext ==
  \/ \E t \in Tokens : Type(t)
  \/ \E lo, hi \in 1..3, w \in 1..2, single \in BOOLEAN,
        tail \in {<<>>, <<Mark("-"), Mark("x")>>, Bracket(1, 2, 1)} :
       lo <= hi /\ SlurmPrints(lo, hi, w, tail, single)

ListSpec == ListInit /\ [][ListNext]_listVars

-----------------------------------------------------------------------------
\* What the strict reader accepts, the lenient one expands to the same hosts, none
\* twice (common.py:470, 697); and a list of numbers names the same cards to both,
\* unless it is padded, which Slurm's never is.
ReadersAgree ==
  LET strict == StrictExpandNodes(line)
      lenient == ExpandNodelist(line)
      numbers == StrictRangeValues(line)
  IN
  /\ strict.ok => ToSet(lenient) = strict.values /\ IsInjective(lenient)
  /\ numbers # <<>> =>
       /\ ExpandRangeSpec(line) = numbers
       /\ (\A i \in DOMAIN line : line[i].width < 2) => ExpandIdx(line) = StrictGpuIndices(line)

\* What Slurm prints is accepted up to the limit and names the hosts it is for, also
\* with several groups or a tail (common.py:470).
PrintedIsRead ==
  meant.ok => IF Cardinality(meant.values) <= StrictLimit
              THEN StrictExpandNodes(line) = meant ELSE ~StrictExpandNodes(line).ok

\* A list of hosts or cards means the same to both readers, and if Slurm printed it,
\* what Slurm means (common.py:447-504, 655-733).
ListsAreRead == ReadersAgree /\ PrintedIsRead
=============================================================================
