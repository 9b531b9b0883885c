---------------------------- MODULE NodeListsProofs ----------------------------
(***************************************************************************)
(* Theorems about the readers of host and card lists (NodeLists), for any  *)
(* numerals, limits and lines: the two readers agree on what the strict    *)
(* one accepts, and what Slurm prints is read as what it means.  They      *)
(* speak of recursive definitions and folds, so most of the module says    *)
(* what those give, token by token and section by section.                 *)
(***************************************************************************)
EXTENDS DataProofs, NodeLists

-----------------------------------------------------------------------------
(* What a fold or a recursive function over a line is made of.             *)

\* The states a fold goes through.
Path(walk, n, base, f, next) ==
  /\ walk[0] = base /\ walk[n] = f[1..n]
  /\ \A i \in Nat : i + 1 \in 1..n => walk[i] = f[1..i] /\ walk[i + 1] = next[1..(i + 1)]

\* A fold whose steps stay in a set walks through it.
LEMMA FoldWalks ==
  ASSUME NEW n \in Nat, NEW D, NEW base \in D, NEW f, NEW next,
         f = [s \in SUBSET (1..n) |-> IF s = {} THEN base ELSE next[s]],
         \A i \in Nat : i + 1 \in 1..n /\ f[1..i] \in D => next[1..(i + 1)] \in D
  PROVE  \E walk \in [0..n -> D] : Path(walk, n, base, f, next)
  <1> DEFINE Q(m) == m <= n => f[1..m] \in D
             S == {m \in Nat : Q(m)}
             walk == [i \in 0..n |-> f[1..i]]
  <1>1. f[1..0] = base
    <2>1. 1..0 = {} /\ {} \in SUBSET (1..n) OBVIOUS
    <2>2. f[{}] = base BY <2>1
    <2>3. QED BY <2>1, <2>2
  <1>2. ASSUME NEW m \in Nat, m + 1 <= n PROVE f[1..(m + 1)] = next[1..(m + 1)] /\ m + 1 \in 1..n
    <2>1. m + 1 \in 1..n BY <1>2
    <2>2. 1..(m + 1) \in SUBSET (1..n) /\ 1..(m + 1) # {} BY <2>1, FirstOnes
    <2>3. QED BY <2>1, <2>2
  <1>3. \A m \in Nat : Q(m) => Q(m + 1)
    <2> SUFFICES ASSUME NEW m \in Nat, Q(m) PROVE Q(m + 1) OBVIOUS
    <2>1. CASE m + 1 <= n
      <3>1. m <= n BY <2>1
      <3>2. QED BY <1>2, <2>1, <3>1
    <2>2. CASE ~(m + 1 <= n) BY <2>2
    <2>3. QED BY <2>1, <2>2
  <1>4. Q(0) BY <1>1
  <1> HIDE DEF Q
  <1>5. 0 \in S /\ \A m \in Nat : m \in S => m + 1 \in S BY <1>3, <1>4
  <1> HIDE DEF S
  <1>6. \A m \in Nat : m \in S BY <1>5, Upwards
  <1>7. \A m \in 0..n : f[1..m] \in D
    <2>1. \A m \in 0..n : m \in Nat /\ m <= n OBVIOUS
    <2>2. QED BY <1>6, <2>1 DEF S, Q
  <1>8. walk \in [0..n -> D] BY <1>7
  <1>9. 0 \in 0..n /\ n \in 0..n OBVIOUS
  <1>10. walk[0] = base /\ walk[n] = f[1..n] BY <1>1, <1>9
  <1>11. ASSUME NEW i \in Nat, i + 1 \in 1..n PROVE walk[i] = f[1..i] /\ walk[i + 1] = next[1..(i + 1)]
    <2>1. i \in 0..n /\ i + 1 \in 0..n /\ i + 1 <= n BY <1>11
    <2>2. QED BY <1>2, <2>1
  <1> HIDE DEF walk
  <1>12. Path(walk, n, base, f, next) BY <1>10, <1>11 DEF Path
  <1>13. QED BY <1>8, <1>12

\* The places of a sequence of sequences, joined.
Flattens(flat, seqs) == flat = [i \in 1..Len(seqs) |-> IF i = 1 THEN seqs[i] ELSE flat[i - 1] \o seqs[i]]

\* So they are defined from the first sequence to the last.
LEMMA FlattensExist ==
  ASSUME NEW X, NEW seqs \in Seq(Seq(X)) PROVE \E flat : Flattens(flat, seqs)
  <1> DEFINE n == Len(seqs)
             D == Seq(X)
             step == [x \in D \X (1..n) |-> x[1] \o seqs[x[2]]]
  <1>1. n \in Nat /\ <<>> \in D /\ \A i \in 1..n : seqs[i] \in D OBVIOUS
  <1>2. step \in [D \X (1..n) -> D]
    <2>1. ASSUME NEW w \in D, NEW i \in 1..n PROVE w \o seqs[i] \in D BY <1>1
    <2> HIDE DEF D, n
    <2>2. QED BY <2>1
  <1>3. PICK iter \in [SUBSET (1..n) -> D] : Iterates(iter, 1..n, <<>>, step)
    <2> HIDE DEF D, step, n
    <2>1. QED BY <1>1, <1>2, IteratesExist
  <1> DEFINE flat == [i \in 1..n |-> iter[1..i]]
  <1>4. ASSUME NEW i \in Nat, i + 1 \in 1..n PROVE iter[1..i] \in D /\ iter[1..(i + 1)] = iter[1..i] \o seqs[i + 1]
    <2>1. /\ 1..(i + 1) \in SUBSET (1..n) /\ 1..(i + 1) # {} /\ Max(1..(i + 1)) = i + 1
          /\ (1..(i + 1)) \ {i + 1} = 1..i
      BY <1>1, <1>4, FirstOnes
    <2>2. 1..i \in SUBSET (1..n) BY <2>1
    <2>3. iter[1..i] \in D BY <2>2
    <2>4. iter[1..(i + 1)] = step[<<iter[1..i], i + 1>>]
      <3> HIDE DEF step, D, n
      <3>1. QED BY <1>3, <2>1 DEF Iterates
    <2>5. <<iter[1..i], i + 1>> \in D \X (1..n) BY <1>4, <2>3
    <2> HIDE DEF D, n
    <2>6. QED BY <2>3, <2>4, <2>5
  <1>5. iter[1..0] = <<>>
    <2>1. 1..0 = {} /\ {} \in SUBSET (1..n) OBVIOUS
    <2>2. QED BY <1>3, <2>1 DEF Iterates
  <1>6. ASSUME NEW i \in 1..n PROVE flat[i] = IF i = 1 THEN seqs[i] ELSE flat[i - 1] \o seqs[i]
    <2>1. i - 1 \in Nat /\ (i - 1) + 1 = i BY <1>1
    <2>2. iter[1..i] = iter[1..(i - 1)] \o seqs[i] BY <1>4, <2>1
    <2>3. CASE i = 1
      <3>1. seqs[1] \in Seq(X) BY <1>1, <2>3
      <3>2. <<>> \o seqs[1] = seqs[1] BY <3>1
      <3>3. i - 1 = 0 BY <2>3
      <3>4. iter[1..(i - 1)] = <<>> BY <1>5, <3>3
      <3>5. QED BY <2>2, <2>3, <3>2, <3>4
    <2>4. CASE i # 1
      <3>1. i - 1 \in 1..n BY <1>1, <2>4
      <3>2. QED BY <2>2, <2>4, <3>1
    <2>5. QED BY <2>3, <2>4
  <1>7. flat = [i \in 1..n |-> flat[i]] OBVIOUS
  <1> HIDE DEF flat
  <1>8. flat = [i \in 1..n |-> IF i = 1 THEN seqs[i] ELSE flat[i - 1] \o seqs[i]] BY <1>6, <1>7
  <1>9. QED BY <1>8 DEF Flattens

\* Joined, they are as long as any of them.
LEMMA FlattenType ==
  ASSUME NEW X, NEW seqs \in Seq(Seq(X))
  PROVE  /\ FlattenSeq(seqs) \in Seq(X)
         /\ \A i \in 1..Len(seqs) : Len(seqs[i]) <= Len(FlattenSeq(seqs))
  <1> DEFINE n == Len(seqs)
             flat == CHOOSE f : Flattens(f, seqs)
             Q(m) == m + 1 <= n => /\ flat[m + 1] \in Seq(X)
                                   /\ \A i \in 1..(m + 1) : Len(seqs[i]) <= Len(flat[m + 1])
             S == {m \in Nat : Q(m)}
  <1>1. n \in Nat /\ \A i \in 1..n : seqs[i] \in Seq(X) OBVIOUS
  <1>2. CASE n = 0
    <2>1. FlattenSeq(seqs) = seqs /\ seqs = <<>> BY <1>2 DEF FlattenSeq
    <2>2. QED BY <1>2, <2>1
  <1>3. CASE n # 0
    <2>1. Flattens(flat, seqs) BY FlattensExist
    <2>2. FlattenSeq(seqs) = flat[n] BY <1>3 DEF FlattenSeq, Flattens
    <2> HIDE DEF flat
    <2>3. \A i \in 1..n : flat[i] = IF i = 1 THEN seqs[i] ELSE flat[i - 1] \o seqs[i] BY <2>1 DEF Flattens
    <2>4. Q(0)
      <3> SUFFICES ASSUME 1 <= n PROVE flat[1] \in Seq(X) /\ Len(seqs[1]) <= Len(flat[1]) OBVIOUS
      <3>1. flat[1] = seqs[1] /\ seqs[1] \in Seq(X) BY <1>1, <2>3
      <3>2. QED BY <3>1
    <2>5. ASSUME NEW m \in Nat, Q(m), (m + 1) + 1 <= n PROVE Q(m + 1)
      <3>1. m + 1 <= n /\ (m + 1) + 1 \in 1..n /\ (m + 1) + 1 # 1 /\ ((m + 1) + 1) - 1 = m + 1 BY <2>5
      <3>2. flat[(m + 1) + 1] = flat[m + 1] \o seqs[(m + 1) + 1] BY <2>3, <3>1
      <3>3. flat[m + 1] \in Seq(X) /\ \A i \in 1..(m + 1) : Len(seqs[i]) <= Len(flat[m + 1]) BY <2>5, <3>1
      <3>4. seqs[(m + 1) + 1] \in Seq(X) BY <1>1, <3>1
      <3>5. /\ flat[(m + 1) + 1] \in Seq(X)
            /\ Len(flat[(m + 1) + 1]) = Len(flat[m + 1]) + Len(seqs[(m + 1) + 1])
            /\ Len(flat[m + 1]) \in Nat /\ Len(seqs[(m + 1) + 1]) \in Nat
        BY <3>2, <3>3, <3>4
      <3>6. ASSUME NEW i \in 1..((m + 1) + 1) PROVE Len(seqs[i]) <= Len(flat[(m + 1) + 1])
        <4> DEFINE a == Len(flat[m + 1])
                   b == Len(seqs[(m + 1) + 1])
                   c == Len(flat[(m + 1) + 1])
                   d == Len(seqs[i])
        <4>1. a \in Nat /\ b \in Nat /\ c = a + b BY <3>5
        <4>2. CASE i = (m + 1) + 1
          <5>1. d = b BY <4>2
          <5> HIDE DEF a, b, c, d
          <5>2. d <= c BY <4>1, <5>1
          <5>3. QED BY <5>2 DEF c, d
        <4>3. CASE i # (m + 1) + 1
          <5>1. i \in 1..(m + 1) /\ i \in 1..n BY <3>1, <4>3
          <5>2. d <= a /\ d \in Nat BY <1>1, <3>3, <5>1
          <5> HIDE DEF a, b, c, d
          <5>3. d <= c BY <4>1, <5>2
          <5>4. QED BY <5>3 DEF c, d
        <4>4. QED BY <4>2, <4>3
      <3>7. QED BY <3>5, <3>6
    <2>6. \A m \in Nat : Q(m) => Q(m + 1)
      <3> SUFFICES ASSUME NEW m \in Nat, Q(m) PROVE Q(m + 1) OBVIOUS
      <3>1. CASE (m + 1) + 1 <= n BY <2>5, <3>1
      <3>2. CASE ~((m + 1) + 1 <= n) BY <3>2
      <3>3. QED BY <3>1, <3>2
    <2> HIDE DEF Q
    <2>7. 0 \in S /\ \A m \in Nat : m \in S => m + 1 \in S BY <2>4, <2>6
    <2> HIDE DEF S
    <2>8. n - 1 \in Nat /\ (n - 1) + 1 = n /\ n <= n BY <1>1, <1>3
    <2>9. n - 1 \in S BY <2>7, <2>8, Upwards
    <2>10. Q(n - 1) BY <2>9 DEF S
    <2>11. QED BY <2>2, <2>8, <2>10 DEF Q
  <1>4. QED BY <1>2, <1>3

\* The tokens of any line, Slurm's own included, and the lines of them.
Punctuation == {"[", "]", ",", "-", "x"}
Glyphs == {Mark(c) : c \in Punctuation} \cup {Num(k, w) : k \in Nat, w \in Nat \ {0}}
Lines == Seq(Glyphs)

\* The first of some characters is where a line goes on, or past its end.
LEMMA FirstIs ==
  ASSUME NEW X, NEW s \in Seq(X), NEW from \in 1..(Len(s) + 1), NEW chars
  PROVE  First(s, from, chars) \in from..(Len(s) + 1)
  <1> DEFINE found == {i \in from..Len(s) : s[i].char \in chars}
  <1>1. Len(s) \in Nat /\ from \in Nat /\ Len(s) + 1 \in from..(Len(s) + 1) OBVIOUS
  <1>2. found \in SUBSET Nat /\ found \in SUBSET (from..(Len(s) + 1)) BY <1>1
  <1>3. First(s, from, chars) = IF found = {} THEN Len(s) + 1 ELSE CHOOSE i \in found : \A j \in found : i <= j
    BY DEF First
  <1> HIDE DEF found
  <1>4. found # {} => \E i \in found : \A j \in found : i <= j BY <1>2, SmallestOf
  <1>5. QED BY <1>1, <1>2, <1>3, <1>4

-----------------------------------------------------------------------------
(* The sections of a name.                                                 *)

Pieces == [kind : {"spec", "literal", "gap"}, text : Lines]

\* The three alternatives of the pattern at a place.
Closes(name, i) == name[i].char = "[" /\ First(name, i + 1, {"]"}) <= Len(name)
Stop(name, i) == First(name, i, {"[", "]"})
\* The section that begins at i, and where the next one begins.
PieceAt(name, i) ==
  IF Closes(name, i)
  THEN [kind |-> "spec", text |-> SubSeq(name, i + 1, First(name, i + 1, {"]"}) - 1)]
  ELSE IF Stop(name, i) = i THEN [kind |-> "gap", text |-> <<>>]
  ELSE [kind |-> "literal", text |-> SubSeq(name, i, Stop(name, i) - 1)]
NextAt(name, i) ==
  IF Closes(name, i) THEN First(name, i + 1, {"]"}) + 1
  ELSE IF Stop(name, i) = i THEN i + 1 ELSE Stop(name, i)

\* What Sections is defined by: the sections from each place on.
Parts(part, name) ==
  part = [i \in 1..(Len(name) + 1) |->
            IF i > Len(name) THEN <<>> ELSE <<PieceAt(name, i)>> \o part[NextAt(name, i)]]

\* A section is part of the name, and the next one begins after it.
LEMMA PieceIs ==
  ASSUME NEW name \in Lines, NEW i \in 1..Len(name)
  PROVE  PieceAt(name, i) \in Pieces /\ NextAt(name, i) \in (i + 1)..(Len(name) + 1)
  <1> DEFINE n == Len(name)
             close == First(name, i + 1, {"]"})
             stop == Stop(name, i)
  <1>1. n \in Nat /\ i \in Nat /\ i + 1 \in 1..(n + 1) /\ i \in 1..(n + 1) BY DEF Lines
  <1>2. close \in (i + 1)..(n + 1) BY <1>1, FirstIs DEF Lines
  <1>3. stop \in i..(n + 1) BY <1>1, FirstIs DEF Lines, Stop
  <1>4. ASSUME NEW a \in Nat \ {0}, NEW b \in 0..n PROVE SubSeq(name, a, b) \in Lines
    BY <1>4, SubSeqProperties DEF Lines
  <1>5. PieceAt(name, i) = IF Closes(name, i) THEN [kind |-> "spec", text |-> SubSeq(name, i + 1, close - 1)]
                           ELSE IF stop = i THEN [kind |-> "gap", text |-> <<>>]
                           ELSE [kind |-> "literal", text |-> SubSeq(name, i, stop - 1)]
    BY DEF PieceAt
  <1>6. NextAt(name, i) = IF Closes(name, i) THEN close + 1 ELSE IF stop = i THEN i + 1 ELSE stop
    BY DEF NextAt
  <1>7. Closes(name, i) => close <= n BY DEF Closes
  <1>8. <<>> \in Lines BY DEF Lines
  <1> HIDE DEF n, close, stop
  <1>9. NextAt(name, i) \in (i + 1)..(n + 1) BY <1>1, <1>2, <1>3, <1>6, <1>7
  <1>10. SubSeq(name, i + 1, close - 1) \in Lines
    <2>1. i + 1 \in Nat \ {0} /\ close - 1 \in 0..n BY <1>1, <1>2
    <2>2. QED BY <1>4, <2>1
  <1>11. SubSeq(name, i, stop - 1) \in Lines
    <2>1. i \in Nat \ {0} /\ stop - 1 \in 0..n BY <1>1, <1>3
    <2>2. QED BY <1>4, <2>1
  <1>12. PieceAt(name, i) \in Pieces BY <1>5, <1>8, <1>10, <1>11 DEF Pieces
  <1>13. QED BY <1>9, <1>12 DEF n

\* So they are defined from the end of the name to its beginning.
LEMMA PartsExist == ASSUME NEW name \in Lines PROVE \E part : Parts(part, name)
  <1> DEFINE n == Len(name)
             D == Seq(Pieces)
             Right(part, m) == \A i \in (n + 1 - m)..(n + 1) :
                part[i] = IF i > n THEN <<>> ELSE <<PieceAt(name, i)>> \o part[NextAt(name, i)]
             Q(m) == m <= n => \E part \in [1..(n + 1) -> D] : Right(part, m)
             S == {m \in Nat : Q(m)}
  <1>1. n \in Nat BY DEF Lines
  <1>2. Q(0)
    <2>1. [i \in 1..(n + 1) |-> <<>>] \in [1..(n + 1) -> D] OBVIOUS
    <2>2. \A i \in (n + 1 - 0)..(n + 1) : i > n /\ i \in 1..(n + 1) BY <1>1
    <2>3. Right([i \in 1..(n + 1) |-> <<>>], 0) BY <2>2
    <2>4. QED BY <2>1, <2>3
  <1>3. ASSUME NEW m \in Nat, Q(m), m + 1 <= n PROVE Q(m + 1)
    <2>1. PICK old \in [1..(n + 1) -> D] : Right(old, m) BY <1>1, <1>3
    <2> DEFINE k == n - m
               new == [old EXCEPT ![k] = <<PieceAt(name, k)>> \o old[NextAt(name, k)]]
    <2>2. k \in 1..n /\ k \in 1..(n + 1) /\ n + 1 - (m + 1) = k /\ n + 1 - m = k + 1 BY <1>1, <1>3
    <2> HIDE DEF k
    <2>3. PieceAt(name, k) \in Pieces /\ NextAt(name, k) \in (k + 1)..(n + 1) BY <2>2, PieceIs
    <2>4. new \in [1..(n + 1) -> D]
      <3>1. NextAt(name, k) \in 1..(n + 1) BY <2>2, <2>3
      <3>2. old[NextAt(name, k)] \in D BY <3>1
      <3>3. <<PieceAt(name, k)>> \o old[NextAt(name, k)] \in D BY <2>3, <3>2
      <3> HIDE DEF D, n
      <3>4. QED BY <3>3
    <2>5. ASSUME NEW i \in k..(n + 1)
          PROVE  new[i] = IF i > n THEN <<>> ELSE <<PieceAt(name, i)>> \o new[NextAt(name, i)]
      <3>0. i \in 1..(n + 1) BY <1>1, <2>2
      <3>1. ASSUME i <= n PROVE NextAt(name, i) \in 1..(n + 1) /\ NextAt(name, i) # k
        <4>1. i \in 1..n BY <1>1, <3>0, <3>1
        <4>2. NextAt(name, i) \in (i + 1)..(n + 1) BY <4>1, PieceIs
        <4>3. QED BY <1>1, <2>2, <4>1, <4>2
      <3>2. i <= n => new[NextAt(name, i)] = old[NextAt(name, i)] BY <3>1
      <3>3. CASE i = k
        <4>1. i <= n /\ ~(i > n) BY <1>1, <2>2, <3>3
        <4>2. new[i] = <<PieceAt(name, k)>> \o old[NextAt(name, k)] BY <2>2, <3>3
        <4> HIDE DEF new
        <4>3. QED BY <3>2, <3>3, <4>1, <4>2
      <3>4. CASE i # k
        <4>1. new[i] = old[i] BY <3>0, <3>4
        <4>2. i \in (n + 1 - m)..(n + 1) BY <1>1, <2>2, <3>4
        <4>3. old[i] = IF i > n THEN <<>> ELSE <<PieceAt(name, i)>> \o old[NextAt(name, i)] BY <2>1, <4>2
        <4>4. i > n \/ i <= n BY <1>1, <2>2
        <4> HIDE DEF new
        <4>5. QED BY <3>2, <4>1, <4>3, <4>4
      <3>5. QED BY <3>3, <3>4
    <2> HIDE DEF new, D
    <2>6. Right(new, m + 1) BY <2>2, <2>5
    <2>7. QED BY <2>4, <2>6
  <1>4. \A m \in Nat : Q(m) => Q(m + 1)
    <2> SUFFICES ASSUME NEW m \in Nat, Q(m) PROVE Q(m + 1) OBVIOUS
    <2>1. CASE m + 1 <= n BY <1>3, <2>1
    <2>2. CASE ~(m + 1 <= n) BY <2>2
    <2>3. QED BY <2>1, <2>2
  <1> HIDE DEF Q
  <1>5. 0 \in S /\ \A m \in Nat : m \in S => m + 1 \in S BY <1>2, <1>4
  <1> HIDE DEF S
  <1>6. n \in S BY <1>1, <1>5, Upwards
  <1>7. Q(n) BY <1>6 DEF S
  <1>8. PICK part \in [1..(n + 1) -> D] : Right(part, n) BY <1>1, <1>7 DEF Q
  <1>9. n + 1 - n = 1 BY <1>1
  <1>10. \A i \in 1..(n + 1) : part[i] = IF i > n THEN <<>> ELSE <<PieceAt(name, i)>> \o part[NextAt(name, i)]
    BY <1>8, <1>9
  <1>11. part = [i \in 1..(n + 1) |-> part[i]] BY <1>8
  <1>12. part = [i \in 1..(n + 1) |-> IF i > n THEN <<>> ELSE <<PieceAt(name, i)>> \o part[NextAt(name, i)]]
    BY <1>10, <1>11
  <1>13. QED BY <1>12 DEF Parts

\* A name falls into literals, specs and gaps.
LEMMA SectionsType == ASSUME NEW name \in Lines PROVE Sections(name) \in Seq(Pieces)
  <1> DEFINE n == Len(name)
             part == CHOOSE f : Parts(f, name)
             Q(m) == m <= n => \A i \in (n + 1 - m)..(n + 1) : part[i] \in Seq(Pieces)
             S == {m \in Nat : Q(m)}
  <1>1. n \in Nat BY DEF Lines
  <1>2. Sections(name) = part[1]
    BY DEF Sections, Parts, PieceAt, NextAt, Closes, Stop
  <1>3. Parts(part, name) BY PartsExist
  <1> HIDE DEF part
  <1>4. \A i \in 1..(n + 1) : part[i] = IF i > n THEN <<>> ELSE <<PieceAt(name, i)>> \o part[NextAt(name, i)]
    BY <1>3 DEF Parts
  <1>5. Q(0)
    <2>1. \A i \in (n + 1 - 0)..(n + 1) : i > n /\ i \in 1..(n + 1) BY <1>1
    <2>2. \A i \in (n + 1 - 0)..(n + 1) : part[i] = <<>> BY <1>4, <2>1
    <2>3. <<>> \in Seq(Pieces) OBVIOUS
    <2>4. QED BY <2>2, <2>3
  <1>6. ASSUME NEW m \in Nat, Q(m), m + 1 <= n PROVE Q(m + 1)
    <2> DEFINE k == n - m
    <2>1. k \in 1..n /\ k \in 1..(n + 1) /\ n + 1 - (m + 1) = k /\ n + 1 - m = k + 1 /\ ~(k > n) BY <1>1, <1>6
    <2> HIDE DEF k
    <2>2. PieceAt(name, k) \in Pieces /\ NextAt(name, k) \in (k + 1)..(n + 1) BY <2>1, PieceIs
    <2>3. \A i \in (k + 1)..(n + 1) : part[i] \in Seq(Pieces) BY <1>1, <1>6, <2>1
    <2>4. part[k] \in Seq(Pieces)
      <3>1. part[NextAt(name, k)] \in Seq(Pieces) BY <2>2, <2>3
      <3>2. part[k] = <<PieceAt(name, k)>> \o part[NextAt(name, k)] BY <1>4, <2>1
      <3>3. QED BY <2>2, <3>1, <3>2
    <2>5. \A i \in k..(n + 1) : part[i] \in Seq(Pieces)
      <3>1. \A i \in k..(n + 1) : i = k \/ i \in (k + 1)..(n + 1) BY <1>1, <2>1
      <3>2. QED BY <2>3, <2>4, <3>1
    <2>6. QED BY <2>1, <2>5
  <1>7. \A m \in Nat : Q(m) => Q(m + 1)
    <2> SUFFICES ASSUME NEW m \in Nat, Q(m) PROVE Q(m + 1) OBVIOUS
    <2>1. CASE m + 1 <= n BY <1>6, <2>1
    <2>2. CASE ~(m + 1 <= n) BY <2>2
    <2>3. QED BY <2>1, <2>2
  <1> HIDE DEF Q
  <1>8. 0 \in S /\ \A m \in Nat : m \in S => m + 1 \in S BY <1>5, <1>7
  <1> HIDE DEF S
  <1>9. n \in S BY <1>1, <1>8, Upwards
  <1>10. Q(n) BY <1>9 DEF S
  <1>11. 1 \in (n + 1 - n)..(n + 1) /\ n <= n BY <1>1
  <1>12. part[1] \in Seq(Pieces) BY <1>10, <1>11 DEF Q
  <1>13. QED BY <1>2, <1>12

-----------------------------------------------------------------------------
(* What a line is split into, and how many hosts groups name.              *)

\* Before the first character of a line.
Empty == [depth |-> 0, done |-> <<>>, piece |-> <<>>]

\* Reading a line to its end, token by token.
LEMMA FedWalks ==
  ASSUME NEW s \in Lines
  PROVE  \E walk \in [0..Len(s) -> [depth : Nat, done : Seq(Lines), piece : Lines]] :
           /\ walk[0] = Empty /\ walk[Len(s)] = FoldLeft(Fed, Empty, s)
           /\ \A i \in Nat : i + 1 \in 1..Len(s) => walk[i + 1] = Fed(walk[i], s[i + 1])
  <1> DEFINE n == Len(s)
             D == [depth : Nat, done : Seq(Lines), piece : Lines]
             step == [x \in D \X (1..n) |-> Fed(x[1], s[x[2]])]
             Unfolds(f) == f = [r \in SUBSET (1..n) |->
                             IF r = {} THEN Empty ELSE Fed(f[r \ {Max(r)}], s[Max(r)])]
             chosen == CHOOSE f : Unfolds(f)
             next == [r \in SUBSET (1..n) |-> Fed(chosen[r \ {Max(r)}], s[Max(r)])]
  <1>1. n \in Nat /\ DOMAIN s = 1..n /\ Empty \in D BY DEF Lines, Empty
  <1>2. ASSUME NEW w \in D, NEW i \in 1..n PROVE Fed(w, s[i]) \in D
    <2>1. s[i] \in Glyphs BY DEF Lines
    <2>2. /\ w.depth \in Nat /\ w.done \in Seq(Lines) /\ w.piece \in Lines OBVIOUS
    <2>3. Append(w.piece, s[i]) \in Lines BY <2>1, <2>2 DEF Lines
    <2>4. Kept(w.done, w.piece) \in Seq(Lines) BY <2>2 DEF Kept
    <2>5. w.depth + 1 \in Nat /\ (w.depth > 0 => w.depth - 1 \in Nat) /\ <<>> \in Lines BY <2>2 DEF Lines
    <2>6. QED BY <2>2, <2>3, <2>4, <2>5 DEF Fed
  <1>3. step \in [D \X (1..n) -> D]
    <2> HIDE DEF D
    <2>1. QED BY <1>2
  <1>4. \E f : Unfolds(f)
    <2>1. PICK iter \in [SUBSET (1..n) -> D] : Iterates(iter, 1..n, Empty, step)
      <3> HIDE DEF D, step, n
      <3>1. QED BY <1>1, <1>3, IteratesExist
    <2>2. ASSUME NEW r \in SUBSET (1..n), r # {}
          PROVE  step[<<iter[r \ {Max(r)}], Max(r)>>] = Fed(iter[r \ {Max(r)}], s[Max(r)])
      <3>1. Max(r) \in 1..n BY <1>1, <2>2, LargestOf
      <3>2. iter[r \ {Max(r)}] \in D OBVIOUS
      <3> HIDE DEF D, n
      <3>3. QED BY <3>1, <3>2
    <2> HIDE DEF step, D, n
    <2>3. Unfolds(iter) BY <2>1, <2>2 DEF Iterates
    <2>4. QED BY <2>3
  <1>5. Unfolds(chosen) BY <1>4
  <1>6. FoldLeft(Fed, Empty, s) = chosen[1..n] BY <1>1 DEF FoldLeft, MapThenFoldSet
  <1> HIDE DEF chosen
  <1>7. chosen = [r \in SUBSET (1..n) |-> IF r = {} THEN Empty ELSE next[r]] BY <1>5
  <1>8. ASSUME NEW i \in Nat, i + 1 \in 1..n PROVE next[1..(i + 1)] = Fed(chosen[1..i], s[i + 1])
    <2>1. 1..(i + 1) \in SUBSET (1..n) /\ Max(1..(i + 1)) = i + 1 /\ (1..(i + 1)) \ {i + 1} = 1..i
      BY <1>1, <1>8, FirstOnes
    <2>2. QED BY <2>1
  <1> HIDE DEF next, D, n
  <1>9. \A i \in Nat : i + 1 \in 1..n /\ chosen[1..i] \in D => next[1..(i + 1)] \in D BY <1>2, <1>8
  <1>10. PICK walk \in [0..n -> D] : Path(walk, n, Empty, chosen, next)
    BY <1>1, <1>7, <1>9, FoldWalks
  <1>11. /\ walk[0] = Empty /\ walk[n] = chosen[1..n]
         /\ \A i \in Nat : i + 1 \in 1..n => walk[i + 1] = Fed(walk[i], s[i + 1])
    BY <1>8, <1>10 DEF Path
  <1>12. QED BY <1>6, <1>10, <1>11 DEF n, D

\* A line is split into names, which are lines.
LEMMA NamesType == ASSUME NEW s \in Lines PROVE SplitTopLevel(s) \in Seq(Lines)
  <1> DEFINE last == FoldLeft(Fed, Empty, s)
             D == [depth : Nat, done : Seq(Lines), piece : Lines]
  <1>1. PICK walk \in [0..Len(s) -> D] : walk[Len(s)] = last BY FedWalks
  <1>2. Len(s) \in 0..Len(s) BY DEF Lines
  <1>3. SplitTopLevel(s) = Kept(last.done, last.piece) BY DEF SplitTopLevel, Empty
  <1> HIDE DEF last
  <1>4. last \in D BY <1>1, <1>2
  <1>5. last.done \in Seq(Lines) /\ last.piece \in Lines BY <1>4
  <1>6. QED BY <1>3, <1>5 DEF Kept

\* Splitting a spec: there is always a last piece.
LEMMA ApartWalks ==
  ASSUME NEW X, NEW s \in Seq(X)
  PROVE  \E walk \in [0..Len(s) -> Seq(Seq(X)) \ {<<>>}] :
           /\ walk[0] = << <<>> >> /\ walk[Len(s)] = SplitAll(s)
           /\ \A i \in Nat : i + 1 \in 1..Len(s) => walk[i + 1] = Apart(walk[i], s[i + 1])
  <1> DEFINE n == Len(s)
             D == Seq(Seq(X)) \ {<<>>}
             step == [x \in D \X (1..n) |-> Apart(x[1], s[x[2]])]
             Unfolds(f) == f = [r \in SUBSET (1..n) |->
                             IF r = {} THEN << <<>> >> ELSE Apart(f[r \ {Max(r)}], s[Max(r)])]
             chosen == CHOOSE f : Unfolds(f)
             next == [r \in SUBSET (1..n) |-> Apart(chosen[r \ {Max(r)}], s[Max(r)])]
  <1>1. n \in Nat /\ DOMAIN s = 1..n /\ << <<>> >> \in D OBVIOUS
  <1>2. ASSUME NEW w \in D, NEW i \in 1..n PROVE Apart(w, s[i]) \in D
    <2>1. s[i] \in X /\ w \in Seq(Seq(X)) /\ Len(w) \in 1..Len(w) OBVIOUS
    <2>2. <<>> \in Seq(X) OBVIOUS
    <2>3. Append(w, <<>>) \in Seq(Seq(X)) BY <2>1, <2>2
    <2>4. Append(w, <<>>) # <<>> BY <2>1, <2>2, AppendProperties, SMTT(30)
    <2>5. w[Len(w)] \in Seq(X) BY <2>1
    <2>6. Append(w[Len(w)], s[i]) \in Seq(X) BY <2>1, <2>5
    <2> DEFINE v == [w EXCEPT ![Len(w)] = Append(@, s[i])]
    <2>7. v \in Seq(Seq(X)) /\ Len(v) = Len(w) BY <2>1, <2>6
    <2>8. v # <<>> BY <2>1, <2>7
    <2>9. QED BY <2>3, <2>4, <2>7, <2>8 DEF Apart
  <1>3. step \in [D \X (1..n) -> D]
    <2> HIDE DEF D
    <2>1. QED BY <1>2
  <1>4. \E f : Unfolds(f)
    <2>1. PICK iter \in [SUBSET (1..n) -> D] : Iterates(iter, 1..n, << <<>> >>, step)
      <3> HIDE DEF D, step, n
      <3>1. QED BY <1>1, <1>3, IteratesExist
    <2>2. ASSUME NEW r \in SUBSET (1..n), r # {}
          PROVE  step[<<iter[r \ {Max(r)}], Max(r)>>] = Apart(iter[r \ {Max(r)}], s[Max(r)])
      <3>1. Max(r) \in 1..n BY <1>1, <2>2, LargestOf
      <3>2. iter[r \ {Max(r)}] \in D OBVIOUS
      <3> HIDE DEF D, n
      <3>3. QED BY <3>1, <3>2
    <2> HIDE DEF step, D, n
    <2>3. Unfolds(iter) BY <2>1, <2>2 DEF Iterates
    <2>4. QED BY <2>3
  <1>5. Unfolds(chosen) BY <1>4
  <1>6. SplitAll(s) = chosen[1..n] BY <1>1 DEF SplitAll, FoldLeft, MapThenFoldSet
  <1> HIDE DEF chosen
  <1>7. chosen = [r \in SUBSET (1..n) |-> IF r = {} THEN << <<>> >> ELSE next[r]] BY <1>5
  <1>8. ASSUME NEW i \in Nat, i + 1 \in 1..n PROVE next[1..(i + 1)] = Apart(chosen[1..i], s[i + 1])
    <2>1. 1..(i + 1) \in SUBSET (1..n) /\ Max(1..(i + 1)) = i + 1 /\ (1..(i + 1)) \ {i + 1} = 1..i
      BY <1>1, <1>8, FirstOnes
    <2>2. QED BY <2>1
  <1> HIDE DEF next, D, n
  <1>9. \A i \in Nat : i + 1 \in 1..n /\ chosen[1..i] \in D => next[1..(i + 1)] \in D BY <1>2, <1>8
  <1>10. PICK walk \in [0..n -> D] : Path(walk, n, << <<>> >>, chosen, next)
    BY <1>1, <1>7, <1>9, FoldWalks
  <1>11. /\ walk[0] = << <<>> >> /\ walk[n] = chosen[1..n]
         /\ \A i \in Nat : i + 1 \in 1..n => walk[i + 1] = Apart(walk[i], s[i + 1])
    BY <1>8, <1>10 DEF Path
  <1>12. QED BY <1>6, <1>10, <1>11 DEF n, D

\* A spec is split into at least one piece, of the same tokens.
LEMMA SplitAllType ==
  ASSUME NEW X, NEW s \in Seq(X)
  PROVE  SplitAll(s) \in Seq(Seq(X)) /\ SplitAll(s) # <<>>
  <1> DEFINE D == Seq(Seq(X)) \ {<<>>}
  <1>1. PICK walk \in [0..Len(s) -> D] : walk[Len(s)] = SplitAll(s) BY ApartWalks
  <1>2. Len(s) \in 0..Len(s) OBVIOUS
  <1> HIDE DEF D
  <1>3. SplitAll(s) \in D BY <1>1, <1>2
  <1>4. QED BY <1>3 DEF D

\* The number of hosts that groups name.
LEMMA SizeWalks ==
  ASSUME NEW Y, NEW groups \in Seq(Seq(Y))
  PROVE  \E walk \in [0..Len(groups) -> Nat] :
           /\ walk[0] = 1 /\ walk[Len(groups)] = Size(groups)
           /\ \A i \in Nat : i + 1 \in 1..Len(groups) => walk[i + 1] = walk[i] * Len(groups[i + 1])
  <1> DEFINE n == Len(groups)
             D == Nat
             step == [x \in D \X (1..n) |-> x[1] * Len(groups[x[2]])]
             Unfolds(f) == f = [r \in SUBSET (1..n) |->
                             IF r = {} THEN 1 ELSE f[r \ {Max(r)}] * Len(groups[Max(r)])]
             chosen == CHOOSE f : Unfolds(f)
             next == [r \in SUBSET (1..n) |-> chosen[r \ {Max(r)}] * Len(groups[Max(r)])]
  <1>1. n \in Nat /\ DOMAIN groups = 1..n /\ 1 \in D OBVIOUS
  <1>2. ASSUME NEW w \in D, NEW i \in 1..n PROVE w * Len(groups[i]) \in D
    <2>1. groups[i] \in Seq(Y) OBVIOUS
    <2>2. Len(groups[i]) \in Nat BY <2>1
    <2>3. QED BY <2>2
  <1>3. step \in [D \X (1..n) -> D]
    <2> HIDE DEF D
    <2>1. QED BY <1>2
  <1>4. \E f : Unfolds(f)
    <2>1. PICK iter \in [SUBSET (1..n) -> D] : Iterates(iter, 1..n, 1, step)
      <3> HIDE DEF D, step, n
      <3>1. QED BY <1>1, <1>3, IteratesExist
    <2>2. ASSUME NEW r \in SUBSET (1..n), r # {}
          PROVE  step[<<iter[r \ {Max(r)}], Max(r)>>] = iter[r \ {Max(r)}] * Len(groups[Max(r)])
      <3>1. Max(r) \in 1..n BY <1>1, <2>2, LargestOf
      <3>2. iter[r \ {Max(r)}] \in D OBVIOUS
      <3> HIDE DEF D, n
      <3>3. QED BY <3>1, <3>2
    <2> HIDE DEF step, D, n
    <2>3. Unfolds(iter) BY <2>1, <2>2 DEF Iterates
    <2>4. QED BY <2>3
  <1>5. Unfolds(chosen) BY <1>4
  <1>6. Size(groups) = chosen[1..n] BY <1>1 DEF Size, FoldLeft, MapThenFoldSet
  <1> HIDE DEF chosen
  <1>7. chosen = [r \in SUBSET (1..n) |-> IF r = {} THEN 1 ELSE next[r]] BY <1>5
  <1>8. ASSUME NEW i \in Nat, i + 1 \in 1..n PROVE next[1..(i + 1)] = chosen[1..i] * Len(groups[i + 1])
    <2>1. 1..(i + 1) \in SUBSET (1..n) /\ Max(1..(i + 1)) = i + 1 /\ (1..(i + 1)) \ {i + 1} = 1..i
      BY <1>1, <1>8, FirstOnes
    <2>2. QED BY <2>1
  <1> HIDE DEF next, D, n
  <1>9. \A i \in Nat : i + 1 \in 1..n /\ chosen[1..i] \in D => next[1..(i + 1)] \in D BY <1>2, <1>8
  <1>10. PICK walk \in [0..n -> D] : Path(walk, n, 1, chosen, next)
    BY <1>1, <1>7, <1>9, FoldWalks
  <1>11. /\ walk[0] = 1 /\ walk[n] = chosen[1..n]
         /\ \A i \in Nat : i + 1 \in 1..n => walk[i + 1] = walk[i] * Len(groups[i + 1])
    BY <1>8, <1>10 DEF Path
  <1>12. QED BY <1>6, <1>10, <1>11 DEF n, D

\* That is a number.
LEMMA SizeIsNat ==
  ASSUME NEW Y, NEW groups \in Seq(Seq(Y))
  PROVE  Size(groups) \in Nat
  <1>1. PICK walk \in [0..Len(groups) -> Nat] : walk[Len(groups)] = Size(groups) BY SizeWalks
  <1>2. Len(groups) \in 0..Len(groups) OBVIOUS
  <1>3. QED BY <1>1, <1>2

\* The lenient reader counts as the strict one does when no group is empty.
LEMMA AtMostIsSize ==
  ASSUME NEW Y, NEW groups \in Seq(Seq(Y)), \A i \in DOMAIN groups : groups[i] # <<>>
  PROVE  AtMost(groups) = Size(groups)
  <1> DEFINE n == Len(groups)
             Sized(f) == f = [r \in SUBSET (1..n) |-> IF r = {} THEN 1 ELSE f[r \ {Max(r)}] * Len(groups[Max(r)])]
             Counted(f) == f = [r \in SUBSET (1..n) |-> IF r = {} THEN 1 ELSE
                f[r \ {Max(r)}] * (IF groups[Max(r)] = <<>> THEN 1 ELSE Len(groups[Max(r)]))]
  <1>1. n \in Nat /\ DOMAIN groups = 1..n OBVIOUS
  <1>2. Size(groups) = (CHOOSE f : Sized(f))[1..n] BY <1>1 DEF Size, FoldLeft, MapThenFoldSet
  <1>3. AtMost(groups) = (CHOOSE f : Counted(f))[1..n] BY <1>1 DEF AtMost, FoldLeft, MapThenFoldSet
  <1>4. ASSUME NEW f PROVE Sized(f) <=> Counted(f)
    <2>1. \A r \in SUBSET (1..n) : r # {} => groups[Max(r)] # <<>>
      <3>1. \A r \in SUBSET (1..n) : r # {} => Max(r) \in 1..n BY <1>1, LargestOf
      <3>2. QED BY <1>1, <3>1
    <2> DEFINE A == [r \in SUBSET (1..n) |-> IF r = {} THEN 1 ELSE f[r \ {Max(r)}] * Len(groups[Max(r)])]
               B == [r \in SUBSET (1..n) |-> IF r = {} THEN 1 ELSE
                f[r \ {Max(r)}] * (IF groups[Max(r)] = <<>> THEN 1 ELSE Len(groups[Max(r)]))]
    <2>2. A = B BY <2>1
    <2> HIDE DEF A, B
    <2>3. QED BY <2>2 DEF A, B
  <1> HIDE DEF Sized, Counted
  <1>5. QED BY <1>2, <1>3, <1>4

-----------------------------------------------------------------------------
(* Ranges.                                                                 *)

\* The tokens of what a range is expanded to.
Chars == {"[", "]", ",", "-", "x", "0"}
Signs == [char : Chars, n : Int, width : Nat]

\* Tokens are such, and a token of a digit is a numeral.
LEMMA GlyphsAreSigns ==
  /\ Glyphs \subseteq Signs
  /\ \A t \in Glyphs : t.char = "0" => t.n \in Nat /\ t.width \in Nat \ {0} /\ t = Num(t.n, t.width)
  /\ \A k \in Int, w \in Nat : Num(k, w) \in Signs
  <1>1. "0" \in Chars /\ \A c \in Punctuation : c \in Chars /\ c # "0" BY DEF Chars, Punctuation
  <1>2. ASSUME NEW k \in Int, NEW w \in Nat PROVE Num(k, w) \in Signs BY <1>1 DEF Num, Signs
  <1>3. ASSUME NEW t \in Glyphs
        PROVE  t \in Signs /\ (t.char = "0" => t.n \in Nat /\ t.width \in Nat \ {0} /\ t = Num(t.n, t.width))
    <2>1. \/ \E c \in Punctuation : t = Mark(c)
          \/ \E k \in Nat, w \in Nat \ {0} : t = Num(k, w)
      BY DEF Glyphs
    <2>2. ASSUME NEW c \in Punctuation, t = Mark(c) PROVE t \in Signs /\ t.char # "0"
      <3>1. c \in Chars /\ c # "0" BY <1>1
      <3>2. t.char # "0" BY <2>2, <3>1 DEF Mark
      <3>3. Mark(c) \in Signs BY <3>1 DEF Mark, Signs
      <3>4. QED BY <2>2, <3>2, <3>3
    <2>3. ASSUME NEW k \in Nat, NEW w \in Nat \ {0}, t = Num(k, w)
          PROVE  t \in Signs /\ t.n \in Nat /\ t.width \in Nat \ {0} /\ t = Num(t.n, t.width)
      <3>1. t.n = k /\ t.width = w BY <2>3 DEF Num
      <3>2. t \in Signs BY <1>2, <2>3
      <3>3. QED BY <2>3, <3>1, <3>2
    <2>4. QED BY <2>1, <2>2, <2>3
  <1>4. QED BY <1>2, <1>3

\* The two sides of a dash.
LEMMA SidesType ==
  ASSUME NEW X, NEW r \in Seq(X)
  PROVE  /\ Before(r) \in Seq(X) /\ After(r) \in Seq(X)
         /\ ~Dashed(r) => Before(r) = r
         /\ IsNumeral(Before(r)) => r # <<>>
  <1> DEFINE n == Len(r)
             f == First(r, 1, {"-"})
  <1>1. n \in Nat /\ 1 \in 1..(n + 1) OBVIOUS
  <1>2. f \in 1..(n + 1) BY <1>1, FirstIs
  <1> HIDE DEF f
  <1>3. Before(r) = SubSeq(r, 1, f - 1) /\ After(r) = SubSeq(r, f + 1, n) BY DEF Before, After, f
  <1>4. f - 1 \in 0..n /\ f + 1 \in Nat \ {0} /\ n \in 0..n BY <1>1, <1>2
  <1>5. Before(r) \in Seq(X) /\ Len(Before(r)) = f - 1
    <2>1. SubSeq(r, 1, f - 1) \in Seq(X) /\ Len(SubSeq(r, 1, f - 1)) = IF 1 <= f - 1 THEN (f - 1) - 1 + 1 ELSE 0
      BY <1>4, SubSeqProperties
    <2>2. (IF 1 <= f - 1 THEN (f - 1) - 1 + 1 ELSE 0) = f - 1 BY <1>4
    <2>3. QED BY <1>3, <2>1, <2>2
  <1>6. After(r) \in Seq(X) BY <1>3, <1>4, SubSeqProperties
  <1>7. ASSUME ~Dashed(r) PROVE Before(r) = r
    <2>1. f - 1 = n BY <1>1, <1>2, <1>7 DEF Dashed, f
    <2>2. SubSeq(r, 1, n) = r OBVIOUS
    <2>3. QED BY <1>3, <2>1, <2>2
  <1>8. ASSUME IsNumeral(Before(r)) PROVE r # <<>>
    <2>1. Len(Before(r)) = 1 BY <1>8 DEF IsNumeral
    <2>2. n # 0 BY <1>1, <1>2, <1>5, <2>1
    <2>3. QED BY <2>2
  <1>9. QED BY <1>5, <1>6, <1>7, <1>8

\* A numeral's number and width.
LEMMA NumeralIs ==
  ASSUME NEW X \in SUBSET Glyphs, NEW s \in Seq(X), IsNumeral(s)
  PROVE  s[1] \in X /\ s = <<s[1]>> /\ s[1].n \in Nat /\ s[1].width \in Nat \ {0} /\ s[1] = Num(s[1].n, s[1].width)
  <1>1. Len(s) = 1 /\ s[1].char = "0" BY DEF IsNumeral
  <1>2. s[1] \in X BY <1>1
  <1>3. s = <<s[1]>> BY <1>1
  <1>4. QED BY <1>1, <1>2, <1>3, GlyphsAreSigns

\* The parts of StrictRangeValues.
Value(r) == IF Dashed(r) THEN Spelled(r) ELSE <<r>>
Fine(r) ==
  IsNumeral(Before(r)) /\ (Dashed(r) => IsNumeral(After(r)) /\ Low(r) <= High(r))
Values(s) == [i \in DOMAIN SplitAll(s) |-> Value(SplitAll(s)[i])]

\* A piece the strict reader takes is one numeral or a range of two in order.
LEMMA FineIs ==
  ASSUME NEW X \in SUBSET Glyphs, NEW r \in Seq(X), Fine(r)
  PROVE  /\ r # <<>> /\ IsNumeral(Before(r)) /\ (~Dashed(r) => IsNumeral(r))
         /\ Before(r)[1] \in X /\ Before(r)[1].width \in Nat \ {0}
         /\ Dashed(r) => Low(r) \in Nat /\ High(r) \in Nat /\ Low(r) <= High(r) /\ IsRange(r)
  <1>1. IsNumeral(Before(r)) /\ Before(r) \in Seq(X) /\ After(r) \in Seq(X) /\ r # <<>>
        /\ (~Dashed(r) => Before(r) = r)
    BY SidesType DEF Fine
  <1>2. Before(r)[1] \in X /\ Before(r)[1].n \in Nat /\ Before(r)[1].width \in Nat \ {0} BY <1>1, NumeralIs
  <1>3. Dashed(r) => IsNumeral(After(r)) /\ Low(r) <= High(r) BY DEF Fine
  <1>4. Dashed(r) => After(r)[1].n \in Nat BY <1>1, <1>3, NumeralIs
  <1>5. QED BY <1>1, <1>2, <1>3, <1>4 DEF Low, High, IsRange

\* A range is spelled out to as many numbers as it has.
LEMMA PaddedType ==
  ASSUME NEW lo \in Nat, NEW hi \in Nat, lo <= hi, NEW w \in Nat,
         NEW V, \A k \in Int : <<Num(k, w)>> \in V
  PROVE  Padded(lo, hi, w) \in Seq(V) /\ Len(Padded(lo, hi, w)) = hi - lo + 1
  <1>1. hi - lo + 1 \in Nat BY SMT
  <1>2. \A i \in 1..(hi - lo + 1) : lo + i - 1 \in Int OBVIOUS
  <1> DEFINE m == hi - lo + 1
             p == [i \in 1..m |-> <<Num(lo + i - 1, w)>>]
  <1> HIDE DEF m
  <1>3. m \in Nat /\ \A i \in 1..m : <<Num(lo + i - 1, w)>> \in V BY <1>1, <1>2 DEF m
  <1>4. p \in Seq(V) /\ Len(p) = m BY <1>3, LenProperties
  <1>5. QED BY <1>4 DEF Padded, m

\* A spec that is taken has only such pieces, and is not too large.
LEMMA RangesAre ==
  ASSUME NEW X \in SUBSET Glyphs, NEW s \in Seq(X), StrictRangeValues(s) # <<>>
  PROVE  /\ SplitAll(s) \in Seq(Seq(X)) /\ \A i \in DOMAIN SplitAll(s) : Fine(SplitAll(s)[i])
         /\ StrictRangeValues(s) = FlattenSeq(Values(s)) /\ Len(FlattenSeq(Values(s))) <= StrictLimit
  <1>1. SplitAll(s) \in Seq(Seq(X)) BY SplitAllType
  <1>2. QED BY <1>1 DEF StrictRangeValues, Values, Value, Fine

\* What such a piece is spelled out to.
LEMMA ValueType ==
  ASSUME NEW X \in SUBSET Glyphs, NEW r \in Seq(X), Fine(r)
  PROVE  Value(r) \in Seq(Seq(Signs)) /\ (Dashed(r) => Len(Value(r)) = High(r) - Low(r) + 1)
  <1>1. CASE Dashed(r)
    <2>1. \A w \in Nat : \A k \in Int : <<Num(k, w)>> \in Seq(Signs) BY GlyphsAreSigns
    <2>2. Low(r) \in Nat /\ High(r) \in Nat /\ Low(r) <= High(r) /\ Before(r)[1].width \in Nat BY <1>1, FineIs
    <2>3. Spelled(r) \in Seq(Seq(Signs)) /\ Len(Spelled(r)) = High(r) - Low(r) + 1
      BY <2>1, <2>2, PaddedType DEF Spelled
    <2>4. QED BY <1>1, <2>3 DEF Value
  <1>2. CASE ~Dashed(r)
    <2>1. r \in Seq(Signs) BY GlyphsAreSigns
    <2>2. QED BY <1>2, <2>1 DEF Value
  <1>3. QED BY <1>1, <1>2

\* What the strict reader makes of ranges the lenient one does too.
LEMMA RangesAgree ==
  ASSUME NEW s \in Lines, StrictRangeValues(s) # <<>>
  PROVE  ExpandRangeSpec(s) = StrictRangeValues(s) /\ StrictRangeValues(s) \in Seq(Seq(Signs))
  <1> DEFINE P == SplitAll(s)
             E == [i \in DOMAIN P |-> LET r == P[i] IN
                     IF r = <<>> THEN <<>>
                     ELSE IF IsRange(r) /\ Low(r) <= High(r) /\ High(r) - Low(r) < LenientLimit THEN Spelled(r)
                     ELSE <<r>>]
  <1>1. /\ P \in Seq(Lines) /\ \A i \in DOMAIN P : Fine(P[i])
        /\ StrictRangeValues(s) = FlattenSeq(Values(s)) /\ Len(FlattenSeq(Values(s))) <= StrictLimit
    BY RangesAre DEF Lines
  <1>2. ExpandRangeSpec(s) = FlattenSeq(E) BY DEF ExpandRangeSpec
  <1>3. Values(s) = [i \in DOMAIN P |-> Value(P[i])] BY DEF Values
  <1> HIDE DEF P
  <1>4. DOMAIN P = 1..Len(P) /\ Len(P) \in Nat BY <1>1
  <1>5. \A i \in DOMAIN P : P[i] \in Lines BY <1>1
  <1>6. \A i \in DOMAIN P : Value(P[i]) \in Seq(Seq(Signs)) BY <1>1, <1>5, ValueType DEF Lines
  <1>7. Values(s) \in Seq(Seq(Seq(Signs))) /\ Len(Values(s)) = Len(P)
    <2> DEFINE W == Seq(Seq(Signs))
               n == Len(P)
               v == [i \in 1..n |-> Value(P[i])]
    <2>1. n \in Nat /\ \A i \in 1..n : Value(P[i]) \in W BY <1>4, <1>6
    <2> HIDE DEF W, n
    <2>2. v \in Seq(W) /\ Len(v) = n BY <2>1, LenProperties
    <2>3. Values(s) = v BY <1>3, <1>4 DEF n
    <2>4. QED BY <2>2, <2>3 DEF W, n
  <1>8. /\ FlattenSeq(Values(s)) \in Seq(Seq(Signs))
        /\ \A i \in 1..Len(Values(s)) : Len(Values(s)[i]) <= Len(FlattenSeq(Values(s)))
    BY <1>7, FlattenType
  <1>9. ASSUME NEW i \in DOMAIN P PROVE Value(P[i]) = E[i]
    <2> DEFINE r == P[i]
    <2>1. r \in Seq(Glyphs) /\ Fine(r) BY <1>1, <1>5 DEF Lines
    <2>2. /\ r # <<>>
          /\ Dashed(r) => Low(r) \in Nat /\ High(r) \in Nat /\ Low(r) <= High(r) /\ IsRange(r)
      BY <2>1, FineIs
    <2>3. Dashed(r) => Len(Value(r)) = High(r) - Low(r) + 1 BY <2>1, ValueType
    <2>4. Len(Value(r)) <= Len(FlattenSeq(Values(s))) BY <1>3, <1>4, <1>7, <1>8
    <2>5. Len(FlattenSeq(Values(s))) \in Nat /\ Len(FlattenSeq(Values(s))) <= LenientLimit
      BY <1>1, <1>8, ListAssumption
    <2>6. Dashed(r) => High(r) - Low(r) < LenientLimit BY <2>2, <2>3, <2>4, <2>5, ListAssumption
    <2>7. E[i] = IF r = <<>> THEN <<>>
                 ELSE IF IsRange(r) /\ Low(r) <= High(r) /\ High(r) - Low(r) < LenientLimit THEN Spelled(r)
                 ELSE <<r>>
      OBVIOUS
    <2> HIDE DEF r, E
    <2>8. Value(r) = E[i] BY <2>2, <2>6, <2>7 DEF Value, IsRange
    <2>9. QED BY <2>8 DEF r
  <1> HIDE DEF E
  <1>10. Values(s) = E BY <1>3, <1>9 DEF E
  <1>11. QED BY <1>1, <1>2, <1>8, <1>10

\* The same for cards, whose numbers are not padded.
LEMMA IndicesAgree ==
  ASSUME NEW s \in Lines, StrictRangeValues(s) # <<>>, \A i \in DOMAIN s : s[i].width < 2
  PROVE  ExpandIdx(s) = StrictGpuIndices(s)
  <1> DEFINE X == {t \in Glyphs : t.width < 2}
             V == {<<Num(k, 1)>> : k \in Int}
             P == SplitAll(s)
             all == FlattenSeq(Values(s))
             E == [i \in DOMAIN P |-> LET r == P[i] IN
                     IF r = <<>> THEN <<>>
                     ELSE IF IsRange(r) /\ Low(r) <= High(r) THEN Padded(Low(r), High(r), 1) ELSE <<r>>]
  <1>1. s \in Seq(X)
    <2>1. DOMAIN s = 1..Len(s) /\ Len(s) \in Nat /\ \A i \in 1..Len(s) : s[i] \in X BY DEF Lines
    <2>2. QED BY <2>1 DEF Lines
  <1>2. X \in SUBSET Glyphs OBVIOUS
  <1> HIDE DEF X
  <1>3. P \in Seq(Seq(X)) /\ (\A i \in DOMAIN P : Fine(P[i])) /\ StrictRangeValues(s) = all
    BY <1>1, <1>2, RangesAre
  <1>4. ExpandIdx(s) = FlattenSeq(E) BY DEF ExpandIdx
  <1>5. Values(s) = [i \in DOMAIN P |-> Value(P[i])] BY DEF Values
  <1> HIDE DEF P, V
  <1>6. DOMAIN P = 1..Len(P) /\ Len(P) \in Nat /\ \A i \in DOMAIN P : P[i] \in Seq(X) BY <1>3
  <1>7. ASSUME NEW i \in DOMAIN P PROVE Value(P[i]) = E[i] /\ Value(P[i]) \in Seq(V)
    <2> DEFINE r == P[i]
    <2>1. r \in Seq(X) /\ Fine(r) BY <1>3, <1>6
    <2>2. /\ r # <<>> /\ (~Dashed(r) => IsNumeral(r))
          /\ Before(r)[1] \in X /\ Before(r)[1].width \in Nat \ {0}
          /\ Dashed(r) => Low(r) \in Nat /\ High(r) \in Nat /\ Low(r) <= High(r) /\ IsRange(r)
      BY <1>2, <2>1, FineIs
    <2>3. Before(r)[1].width = 1 BY <2>2 DEF X
    <2>4. E[i] = IF r = <<>> THEN <<>>
                 ELSE IF IsRange(r) /\ Low(r) <= High(r) THEN Padded(Low(r), High(r), 1) ELSE <<r>>
      OBVIOUS
    <2> HIDE DEF r, E
    <2>5. Value(r) = E[i] BY <2>2, <2>3, <2>4 DEF Value, Spelled, IsRange
    <2>6. \A k \in Int : <<Num(k, 1)>> \in V BY DEF V
    <2>7. CASE Dashed(r)
      <3>1. Padded(Low(r), High(r), 1) \in Seq(V) BY <2>2, <2>6, <2>7, PaddedType
      <3>2. QED BY <2>3, <2>5, <2>7, <3>1 DEF Value, Spelled, r
    <2>8. CASE ~Dashed(r)
      <3>1. r[1] \in X /\ r = <<r[1]>> /\ r[1].n \in Nat /\ r[1].width \in Nat \ {0} /\ r[1] = Num(r[1].n, r[1].width)
        BY <1>2, <2>1, <2>2, <2>8, NumeralIs
      <3>2. r[1].width = 1 BY <3>1 DEF X
      <3>3. r = <<Num(r[1].n, 1)>> /\ r[1].n \in Int BY <3>1, <3>2
      <3>4. r \in V BY <2>6, <3>3
      <3>5. <<r>> \in Seq(V) BY <3>4
      <3>6. QED BY <2>5, <2>8, <3>5 DEF Value, r
    <2>9. QED BY <2>7, <2>8
  <1> HIDE DEF E
  <1>8. Values(s) = E BY <1>5, <1>7 DEF E
  <1>9. Values(s) \in Seq(Seq(V))
    <2> DEFINE W == Seq(V)
               n == Len(P)
               v == [i \in 1..n |-> Value(P[i])]
    <2>1. n \in Nat /\ \A i \in 1..n : Value(P[i]) \in W BY <1>6, <1>7
    <2> HIDE DEF W, n
    <2>2. v \in Seq(W) BY <2>1, LenProperties
    <2>3. Values(s) = v BY <1>5, <1>6 DEF n
    <2>4. QED BY <2>2, <2>3 DEF W
  <1>10. all \in Seq(V) BY <1>9, FlattenType
  <1>11. StrictGpuIndices(s) = [i \in DOMAIN all |-> <<Num(all[i][1].n, 1)>>] BY <1>3 DEF StrictGpuIndices
  <1> HIDE DEF all
  <1>12. ASSUME NEW i \in DOMAIN all PROVE <<Num(all[i][1].n, 1)>> = all[i]
    <2>1. all[i] \in V BY <1>10
    <2>2. PICK k \in Int : all[i] = <<Num(k, 1)>> BY <2>1 DEF V
    <2>3. QED BY <2>2 DEF Num
  <1>13. all = [i \in DOMAIN all |-> all[i]] BY <1>10
  <1>14. StrictGpuIndices(s) = all BY <1>11, <1>12, <1>13
  <1>15. QED BY <1>4, <1>8, <1>14 DEF all

-----------------------------------------------------------------------------
(* Names.                                                                  *)

\* The groups of a name without gaps and rejected ranges.
Whole(groups) == groups # <<>> /\ \A k \in DOMAIN groups : groups[k] # <<>>

\* What the strict reader makes of a name it takes, the lenient one does too.
LEMMA GroupsAgree ==
  ASSUME NEW name \in Lines, Whole(StrictGroups(name))
  PROVE  /\ LenientGroups(name) = StrictGroups(name) /\ Size(StrictGroups(name)) \in Nat
         /\ AtMost(LenientGroups(name)) = Size(StrictGroups(name))
         /\ \E i \in DOMAIN Sections(name) : Sections(name)[i].kind # "gap"
  <1> DEFINE P == Sections(name)
             W == Seq(Seq(Signs))
             G(p) == IF p.kind = "literal" THEN <<p.text>>
                     ELSE IF p.kind = "spec" THEN StrictRangeValues(p.text) ELSE <<>>
             H(p) == IF p.kind = "spec" THEN ExpandRangeSpec(p.text) ELSE <<p.text>>
  <1>1. P \in Seq(Pieces) BY SectionsType
  <1>2. StrictGroups(name) = [i \in DOMAIN P |-> G(P[i])] BY DEF StrictGroups
  <1>3. LenientGroups(name) = [i \in DOMAIN P |-> H(P[i])] BY DEF LenientGroups
  <1> HIDE DEF P
  <1>4. DOMAIN P = 1..Len(P) /\ Len(P) \in Nat BY <1>1
  <1>5. ASSUME NEW i \in DOMAIN P PROVE H(P[i]) = G(P[i]) /\ G(P[i]) \in W /\ P[i].kind # "gap"
    <2>1. P[i] \in Pieces BY <1>1
    <2>2. P[i].kind \in {"spec", "literal", "gap"} /\ P[i].text \in Lines BY <2>1 DEF Pieces
    <2>3. G(P[i]) # <<>>
      <3>1. StrictGroups(name)[i] # <<>> BY <1>2 DEF Whole
      <3>2. StrictGroups(name)[i] = G(P[i]) BY <1>2
      <3> HIDE DEF G
      <3>3. QED BY <3>1, <3>2
    <2>4. CASE P[i].kind = "literal"
      <3>1. P[i].text \in Seq(Signs) BY <2>2, GlyphsAreSigns DEF Lines
      <3>2. QED BY <2>4, <3>1
    <2>5. CASE P[i].kind = "spec"
      <3>1. G(P[i]) = StrictRangeValues(P[i].text) /\ H(P[i]) = ExpandRangeSpec(P[i].text) BY <2>5
      <3> HIDE DEF G, H
      <3>2. QED BY <2>2, <2>3, <2>5, <3>1, RangesAgree
    <2>6. CASE P[i].kind = "gap" BY <2>3, <2>6
    <2>7. QED BY <2>2, <2>4, <2>5, <2>6
  <1> HIDE DEF G, H, W
  <1>6. LenientGroups(name) = StrictGroups(name) BY <1>2, <1>3, <1>5
  <1>7. StrictGroups(name) \in Seq(W)
    <2> DEFINE n == Len(P)
               v == [i \in 1..n |-> G(P[i])]
    <2>1. n \in Nat /\ \A i \in 1..n : G(P[i]) \in W BY <1>4, <1>5
    <2> HIDE DEF n
    <2>2. v \in Seq(W) BY <2>1, LenProperties
    <2>3. StrictGroups(name) = v BY <1>2, <1>4 DEF n
    <2>4. QED BY <2>2, <2>3
  <1>8. Size(StrictGroups(name)) \in Nat BY <1>7, SizeIsNat DEF W
  <1>9. AtMost(StrictGroups(name)) = Size(StrictGroups(name)) BY <1>7, AtMostIsSize DEF W, Whole
  <1>10. \E i \in DOMAIN P : P[i].kind # "gap"
    <2>1. DOMAIN P # {}
      <3> DEFINE g == StrictGroups(name)
      <3>1. g \in Seq(W) /\ g # <<>> BY <1>7 DEF Whole
      <3>2. DOMAIN g = DOMAIN P BY <1>2
      <3> HIDE DEF g
      <3>3. Len(g) # 0 /\ Len(g) \in Nat /\ DOMAIN g = 1..Len(g) BY <3>1
      <3>4. 1 \in DOMAIN g BY <3>3
      <3>5. QED BY <3>2, <3>4
    <2>2. QED BY <1>5, <2>1
  <1>11. QED BY <1>6, <1>8, <1>9, <1>10 DEF P

\* The hosts of names, and the names the strict reader takes.
StrictHosts(names) == FlattenSeq([i \in DOMAIN names |-> Product(StrictGroups(names[i]))])
Fits(names) ==
  /\ \A i \in DOMAIN names : Whole(StrictGroups(names[i]))
  /\ SumFunction([i \in DOMAIN names |-> Size(StrictGroups(names[i]))]) <= StrictLimit

\* What the strict reader accepts, the lenient one expands to the same sequence of hosts.
LEMMA HostsAgree ==
  ASSUME NEW s \in Lines, Fits(SplitTopLevel(s))
  PROVE  ExpandNodelist(s) = StrictHosts(SplitTopLevel(s))
  <1> DEFINE names == SplitTopLevel(s)
             sizes == [i \in DOMAIN names |-> Size(StrictGroups(names[i]))]
  <1>1. names \in Seq(Lines) BY NamesType
  <1>2. ExpandNodelist(s) = FlattenSeq([i \in DOMAIN names |-> LenientHosts(names[i])]) BY DEF ExpandNodelist
  <1>3. \A i \in DOMAIN names : Whole(StrictGroups(names[i])) BY DEF Fits
  <1>4. SumFunctionOnSet(sizes, DOMAIN names) <= StrictLimit BY DEF Fits, SumFunction
  <1> HIDE DEF names
  <1>5. DOMAIN names = 1..Len(names) /\ Len(names) \in Nat /\ \A i \in DOMAIN names : names[i] \in Lines BY <1>1
  <1>6. IsFiniteSet(DOMAIN names) BY <1>5, FS_Interval
  <1>7. \A i \in DOMAIN names : Size(StrictGroups(names[i])) \in Nat BY <1>3, <1>5, GroupsAgree
  <1>8. sizes \in [DOMAIN names -> Nat] BY <1>7
  <1>9. IsSum(sizes, DOMAIN names) BY <1>6, <1>8, Sums
  <1>10. ASSUME NEW i \in DOMAIN names PROVE LenientHosts(names[i]) = Product(StrictGroups(names[i]))
    <2>1. /\ LenientGroups(names[i]) = StrictGroups(names[i])
          /\ AtMost(LenientGroups(names[i])) = Size(StrictGroups(names[i]))
          /\ \E k \in DOMAIN Sections(names[i]) : Sections(names[i])[k].kind # "gap"
      BY <1>3, <1>5, GroupsAgree
    <2>2. Size(StrictGroups(names[i])) <= StrictLimit
      <3> DEFINE all == DOMAIN names
                 total == SumFunctionOnSet(sizes, all)
                 others == SumFunctionOnSet(sizes, all \ {i})
      <3>1. all \in SUBSET all /\ all \ {i} \in SUBSET all /\ i \in all OBVIOUS
      <3> HIDE DEF all, sizes
      <3>2. total = sizes[i] + others /\ others \in Nat BY <1>9, <3>1 DEF IsSum, all
      <3>3. sizes[i] = Size(StrictGroups(names[i])) BY DEF sizes
      <3>4. sizes[i] \in Nat /\ total <= StrictLimit BY <1>4, <1>8 DEF all
      <3> HIDE DEF total, others
      <3>5. sizes[i] <= StrictLimit BY <3>2, <3>4, ListAssumption
      <3>6. QED BY <3>3, <3>5
    <2>3. ~(AtMost(LenientGroups(names[i])) > LenientLimit)
      BY <1>7, <2>1, <2>2, ListAssumption
    <2>4. QED BY <2>1, <2>3 DEF LenientHosts, Joined
  <1>11. [i \in DOMAIN names |-> LenientHosts(names[i])] = [i \in DOMAIN names |-> Product(StrictGroups(names[i]))]
    BY <1>10
  <1>12. QED BY <1>2, <1>11 DEF StrictHosts, names

\* An empty line names no host.
LEMMA NothingNamed == ExpandNodelist(<<>>) = <<>>
  <1> DEFINE Unfolds(f) == f = [r \in SUBSET {} |->
                             IF r = {} THEN Empty ELSE Fed(f[r \ {Max(r)}], <<>>[Max(r)])]
             chosen == CHOOSE f : Unfolds(f)
  <1>1. DOMAIN <<>> = {} OBVIOUS
  <1>2. FoldLeft(Fed, Empty, <<>>) = chosen[{}] BY <1>1 DEF FoldLeft, MapThenFoldSet
  <1>3. Unfolds([r \in SUBSET {} |-> Empty])
    <2>1. \A r \in SUBSET {} : r = {} OBVIOUS
    <2>2. QED BY <2>1
  <1>4. Unfolds(chosen) BY <1>3
  <1> HIDE DEF chosen
  <1>5. {} \in SUBSET {} OBVIOUS
  <1>6. chosen[{}] = Empty BY <1>4, <1>5
  <1>7. SplitTopLevel(<<>>) = <<>> BY <1>2, <1>6 DEF SplitTopLevel, Empty, Kept
  <1>8. ExpandNodelist(<<>>) = FlattenSeq([i \in DOMAIN <<>> |-> LenientHosts(<<>>[i])]) BY <1>7 DEF ExpandNodelist
  <1>9. [i \in DOMAIN <<>> |-> LenientHosts(<<>>[i])] = <<>> OBVIOUS
  <1>10. FlattenSeq(<<>>) = <<>> BY DEF FlattenSeq
  <1>11. QED BY <1>8, <1>9, <1>10

-----------------------------------------------------------------------------
(* The two readers agree.                                                 *)

\* A line is of tokens whose widths are positive.
Readable == line \in Lines

\* What the strict reader answers, by the names of a line.
LEMMA StrictIs ==
  ASSUME NEW s \in Lines, s # <<>>
  PROVE  StrictExpandNodes(s) =
           IF /\ Fits(SplitTopLevel(s))
              /\ StrictHosts(SplitTopLevel(s)) # <<>> /\ IsInjective(StrictHosts(SplitTopLevel(s)))
           THEN [ok |-> TRUE, values |-> ToSet(StrictHosts(SplitTopLevel(s)))] ELSE Reject
  <1> DEFINE names == SplitTopLevel(s)
             groups == [i \in DOMAIN names |-> StrictGroups(names[i])]
             hosts == FlattenSeq([i \in DOMAIN names |-> Product(groups[i])])
             fine == /\ \A i \in DOMAIN names : groups[i] # <<>> /\ \A k \in DOMAIN groups[i] : groups[i][k] # <<>>
                     /\ SumFunction([i \in DOMAIN names |-> Size(groups[i])]) <= StrictLimit
                     /\ hosts # <<>> /\ IsInjective(hosts)
  <1>1. StrictExpandNodes(s) = IF fine THEN [ok |-> TRUE, values |-> ToSet(hosts)] ELSE Reject
    BY DEF StrictExpandNodes
  <1> HIDE DEF names
  <1>2. hosts = StrictHosts(names) BY DEF StrictHosts
  <1>3. [i \in DOMAIN names |-> Size(groups[i])] = [i \in DOMAIN names |-> Size(StrictGroups(names[i]))] OBVIOUS
  <1>4. fine <=> Fits(names) /\ hosts # <<>> /\ IsInjective(hosts)
    <2> DEFINE h == hosts
    <2> HIDE DEF h
    <2>1. fine <=> /\ \A i \in DOMAIN names : Whole(StrictGroups(names[i]))
                   /\ SumFunction([i \in DOMAIN names |-> Size(StrictGroups(names[i]))]) <= StrictLimit
                   /\ h # <<>> /\ IsInjective(h)
      BY <1>3 DEF Whole, h
    <2>2. QED BY <2>1 DEF Fits, h
  <1> HIDE DEF fine, hosts
  <1>5. QED BY <1>1, <1>2, <1>4 DEF names

\* On such a line the readers agree.
LEMMA LinesAgree == Readable => ReadersAgree
  <1> SUFFICES ASSUME Readable PROVE ReadersAgree OBVIOUS
  <1> DEFINE names == SplitTopLevel(line)
             strict == StrictExpandNodes(line)
             lenient == ExpandNodelist(line)
  <1>1. line \in Lines BY DEF Readable
  <1>2. ASSUME strict.ok PROVE ToSet(lenient) = strict.values /\ IsInjective(lenient)
    <2>1. CASE line = <<>>
      <3>1. lenient = <<>> BY <2>1, NothingNamed
      <3>2. strict.values = {} BY <2>1 DEF StrictExpandNodes
      <3>3. ToSet(<<>>) = {} /\ IsInjective(<<>>) BY DEF ToSet, IsInjective
      <3> HIDE DEF lenient, strict
      <3>4. QED BY <3>1, <3>2, <3>3
    <2>2. CASE line # <<>>
      <3> DEFINE hosts == StrictHosts(names)
                 fine == Fits(names) /\ hosts # <<>> /\ IsInjective(hosts)
      <3>1. strict = IF fine THEN [ok |-> TRUE, values |-> ToSet(hosts)] ELSE Reject BY <1>1, <2>2, StrictIs
      <3>2. fine => lenient = hosts BY <1>1, HostsAgree
      <3>3. fine => IsInjective(hosts) OBVIOUS
      <3> HIDE DEF fine, hosts, strict, lenient
      <3>4. fine BY <1>2, <3>1 DEF Reject
      <3>5. strict.values = ToSet(hosts) BY <3>1, <3>4
      <3>6. QED BY <3>2, <3>3, <3>4, <3>5
    <2>3. QED BY <2>1, <2>2
  <1>3. ASSUME StrictRangeValues(line) # <<>>
        PROVE  /\ ExpandRangeSpec(line) = StrictRangeValues(line)
               /\ (\A i \in DOMAIN line : line[i].width < 2) => ExpandIdx(line) = StrictGpuIndices(line)
    BY <1>1, <1>3, RangesAgree, IndicesAgree
  <1> HIDE DEF strict, lenient
  <1>4. QED BY <1>2, <1>3 DEF ReadersAgree, strict, lenient

-----------------------------------------------------------------------------
(* Parts of sequences, and sequences joined.                               *)

\* What stands somewhere in a line is that part of it.
LEMMA SubIs ==
  ASSUME NEW X, NEW s \in Seq(X), NEW t \in Seq(X), NEW i \in Nat, i + Len(t) <= Len(s),
         \A j \in 1..Len(t) : s[i + j] = t[j]
  PROVE  SubSeq(s, i + 1, i + Len(t)) = t
  <1> DEFINE n == Len(s)
             k == Len(t)
             p == SubSeq(s, i + 1, i + k)
  <1>1. n \in Nat /\ k \in Nat /\ i + k <= n /\ \A j \in 1..k : s[i + j] = t[j] OBVIOUS
  <1> HIDE DEF n, k
  <1>2. i + 1 \in Nat \ {0} /\ i + k \in 0..n BY <1>1
  <1>3. /\ p \in Seq(X) /\ Len(p) = (IF i + 1 <= i + k THEN (i + k) - (i + 1) + 1 ELSE 0)
        /\ \A j \in 1..((i + k) - (i + 1) + 1) : p[j] = s[(i + 1) + j - 1]
    BY <1>2, SubSeqProperties, SMTT(30) DEF n
  <1>4. Len(p) = k /\ (i + k) - (i + 1) + 1 = k BY <1>1, <1>3
  <1>5. \A j \in 1..k : p[j] = t[j]
    <2>1. \A j \in 1..k : (i + 1) + j - 1 = i + j OBVIOUS
    <2>2. QED BY <1>1, <1>3, <1>4, <2>1
  <1> HIDE DEF p
  <1>6. p = t BY <1>3, <1>4, <1>5, SeqEqual DEF k
  <1>7. QED BY <1>6 DEF p, k

\* Of two equal joins whose first parts are as long, the parts are equal.
LEMMA PartsOfJoin ==
  ASSUME NEW X, NEW p \in Seq(X), NEW q \in Seq(X), NEW r \in Seq(X), NEW s \in Seq(X),
         Len(p) = Len(r), p \o q = r \o s
  PROVE  p = r /\ q = s
  <1> DEFINE n == Len(p)
             k == Len(q)
             m == Len(s)
  <1>1. n \in Nat /\ k \in Nat /\ m \in Nat /\ Len(r) = n OBVIOUS
  <1>2. Len(p \o q) = n + k /\ Len(r \o s) = n + m
    <2>1. Len(p \o q) = Len(p) + Len(q) BY ConcatProperties
    <2>2. Len(r \o s) = Len(r) + Len(s) BY ConcatProperties
    <2>3. QED BY <1>1, <2>1, <2>2
  <1>3. \A i \in 1..(n + k) : (p \o q)[i] = IF i <= n THEN p[i] ELSE q[i - n] BY ConcatProperties
  <1>4. \A i \in 1..(n + m) : (r \o s)[i] = IF i <= n THEN r[i] ELSE s[i - n]
    <2>1. \A i \in 1..(Len(r) + Len(s)) : (r \o s)[i] = IF i <= Len(r) THEN r[i] ELSE s[i - Len(r)]
      BY ConcatProperties
    <2>2. QED BY <1>1, <2>1
  <1>5. k = m BY <1>1, <1>2
  <1>6. \A i \in 1..n : p[i] = r[i]
    <2>1. \A i \in 1..n : i \in 1..(n + k) /\ i <= n BY <1>1
    <2>2. QED BY <1>3, <1>4, <1>5, <2>1
  <1>7. \A i \in 1..k : q[i] = s[i]
    <2>1. \A i \in 1..k : n + i \in 1..(n + k) /\ ~(n + i <= n) /\ (n + i) - n = i BY <1>1
    <2>2. QED BY <1>3, <1>4, <1>5, <2>1
  <1>8. p = r BY <1>1, <1>6, SeqEqual
  <1>9. q = s BY <1>5, <1>7, SeqEqual
  <1>10. QED BY <1>8, <1>9

\* One sequence, joined, is itself.
LEMMA FlattenOne == ASSUME NEW X, NEW s \in Seq(X) PROVE FlattenSeq(<<s>>) = s
  <1> DEFINE seqs == <<s>>
             flat == CHOOSE f : Flattens(f, seqs)
  <1>1. seqs \in Seq(Seq(X)) /\ Len(seqs) = 1 /\ seqs[1] = s OBVIOUS
  <1>2. Flattens(flat, seqs) BY <1>1, FlattensExist
  <1>3. FlattenSeq(seqs) = flat[1] BY <1>1 DEF FlattenSeq, Flattens
  <1> HIDE DEF flat, seqs
  <1>4. flat[1] = s BY <1>1, <1>2 DEF Flattens
  <1>5. QED BY <1>3, <1>4 DEF seqs

\* Two are the one behind the other.
LEMMA FlattenTwo ==
  ASSUME NEW X, NEW s \in Seq(X), NEW t \in Seq(X) PROVE FlattenSeq(<<s, t>>) = s \o t
  <1> DEFINE seqs == <<s, t>>
             flat == CHOOSE f : Flattens(f, seqs)
  <1>1. seqs \in Seq(Seq(X)) /\ Len(seqs) = 2 /\ seqs[1] = s /\ seqs[2] = t OBVIOUS
  <1>2. Flattens(flat, seqs) BY <1>1, FlattensExist
  <1>3. FlattenSeq(seqs) = flat[2] BY <1>1 DEF FlattenSeq, Flattens
  <1> HIDE DEF flat, seqs
  <1>4. \A i \in 1..2 : flat[i] = IF i = 1 THEN seqs[i] ELSE flat[i - 1] \o seqs[i] BY <1>1, <1>2 DEF Flattens
  <1>5. flat[1] = s BY <1>1, <1>4
  <1>6. flat[2] = s \o t
    <2>1. 2 \in 1..2 /\ 2 # 1 /\ 2 - 1 = 1 OBVIOUS
    <2>2. flat[2] = flat[2 - 1] \o seqs[2] BY <1>4, <2>1
    <2>3. QED BY <1>1, <1>5, <2>1, <2>2
  <1>7. QED BY <1>3, <1>6 DEF seqs

\* What one more group makes of the hosts so far.
Cross(a, g) == FlattenSeq([i \in DOMAIN a |-> [j \in DOMAIN g |-> a[i] \o g[j]]])

\* Hosts so far and values of a group make hosts again.
LEMMA CrossType ==
  ASSUME NEW X, NEW a \in Seq(Seq(X)), NEW g \in Seq(Seq(X)) PROVE Cross(a, g) \in Seq(Seq(X))
  <1> DEFINE V == Seq(X)
             n == Len(a)
             k == Len(g)
             row(i) == [j \in 1..k |-> a[i] \o g[j]]
             rows == [i \in 1..n |-> row(i)]
  <1>1. n \in Nat /\ k \in Nat /\ DOMAIN a = 1..n /\ DOMAIN g = 1..k OBVIOUS
  <1>2. ASSUME NEW i \in 1..n, NEW j \in 1..k PROVE a[i] \o g[j] \in V
    <2>1. a[i] \in Seq(X) /\ g[j] \in Seq(X) BY <1>1
    <2>2. QED BY <2>1
  <1>3. Cross(a, g) = FlattenSeq(rows) BY <1>1 DEF Cross
  <1> HIDE DEF V, n, k
  <1>4. \A i \in 1..n : row(i) \in Seq(V) BY <1>1, <1>2, LenProperties
  <1> HIDE DEF row
  <1>5. rows \in Seq(Seq(V)) BY <1>1, <1>4, LenProperties
  <1> HIDE DEF rows
  <1>6. QED BY <1>3, <1>5, FlattenType DEF V

\* The hosts that groups name, group by group.
LEMMA ProductWalks ==
  ASSUME NEW X, NEW groups \in Seq(Seq(Seq(X)))
  PROVE  \E walk \in [0..Len(groups) -> Seq(Seq(X))] :
           /\ walk[0] = << <<>> >> /\ walk[Len(groups)] = Product(groups)
           /\ \A i \in Nat : i + 1 \in 1..Len(groups) => walk[i + 1] = Cross(walk[i], groups[i + 1])
  <1> DEFINE n == Len(groups)
             D == Seq(Seq(X))
             step == [x \in D \X (1..n) |-> Cross(x[1], groups[x[2]])]
             Unfolds(f) == f = [r \in SUBSET (1..n) |->
                             IF r = {} THEN << <<>> >> ELSE Cross(f[r \ {Max(r)}], groups[Max(r)])]
             chosen == CHOOSE f : Unfolds(f)
             next == [r \in SUBSET (1..n) |-> Cross(chosen[r \ {Max(r)}], groups[Max(r)])]
  <1>1. n \in Nat /\ DOMAIN groups = 1..n /\ << <<>> >> \in D OBVIOUS
  <1>2. ASSUME NEW w \in D, NEW i \in 1..n PROVE Cross(w, groups[i]) \in D
    <2>1. groups[i] \in Seq(Seq(X)) OBVIOUS
    <2>2. QED BY <2>1, CrossType
  <1>3. step \in [D \X (1..n) -> D]
    <2> HIDE DEF D
    <2>1. QED BY <1>2
  <1>4. \E f : Unfolds(f)
    <2>1. PICK iter \in [SUBSET (1..n) -> D] : Iterates(iter, 1..n, << <<>> >>, step)
      <3> HIDE DEF D, step, n
      <3>1. QED BY <1>1, <1>3, IteratesExist
    <2>2. ASSUME NEW r \in SUBSET (1..n), r # {}
          PROVE  step[<<iter[r \ {Max(r)}], Max(r)>>] = Cross(iter[r \ {Max(r)}], groups[Max(r)])
      <3>1. Max(r) \in 1..n BY <1>1, <2>2, LargestOf
      <3>2. iter[r \ {Max(r)}] \in D OBVIOUS
      <3> HIDE DEF D, n
      <3>3. QED BY <3>1, <3>2
    <2> HIDE DEF step, D, n
    <2>3. Unfolds(iter) BY <2>1, <2>2 DEF Iterates
    <2>4. QED BY <2>3
  <1>5. Unfolds(chosen) BY <1>4
  <1>6. Product(groups) = chosen[1..n] BY <1>1 DEF Product, Cross, FoldLeft, MapThenFoldSet
  <1> HIDE DEF chosen
  <1>7. chosen = [r \in SUBSET (1..n) |-> IF r = {} THEN << <<>> >> ELSE next[r]] BY <1>5
  <1>8. ASSUME NEW i \in Nat, i + 1 \in 1..n PROVE next[1..(i + 1)] = Cross(chosen[1..i], groups[i + 1])
    <2>1. 1..(i + 1) \in SUBSET (1..n) /\ Max(1..(i + 1)) = i + 1 /\ (1..(i + 1)) \ {i + 1} = 1..i
      BY <1>1, <1>8, FirstOnes
    <2>2. QED BY <2>1
  <1> HIDE DEF next, D, n
  <1>9. \A i \in Nat : i + 1 \in 1..n /\ chosen[1..i] \in D => next[1..(i + 1)] \in D BY <1>2, <1>8
  <1>10. PICK walk \in [0..n -> D] : Path(walk, n, << <<>> >>, chosen, next)
    BY <1>1, <1>7, <1>9, FoldWalks
  <1>11. /\ walk[0] = << <<>> >> /\ walk[n] = chosen[1..n]
         /\ \A i \in Nat : i + 1 \in 1..n => walk[i + 1] = Cross(walk[i], groups[i + 1])
    BY <1>8, <1>10 DEF Path
  <1>12. QED BY <1>6, <1>10, <1>11 DEF n, D

\* Counting from none and from one.
LEMMA Times == \A k \in Nat : 1 * k = k /\ (1 - 1) * k = 0
  OBVIOUS

\* The first m of as many hosts, each with every value of a group, in order.
Crossed(h, a, g, m) ==
  /\ Len(h) = m * Len(g)
  /\ \A x \in 1..Len(h) : \E i \in 1..m, j \in 1..Len(g) :
       x = (i - 1) * Len(g) + j /\ h[x] = a[i] \o g[j]
  /\ \A i \in 1..m, j \in 1..Len(g) : \E x \in 1..Len(h) : h[x] = a[i] \o g[j]

\* One more group makes every host so far with each of its values.
LEMMA CrossIs ==
  ASSUME NEW X, NEW a \in Seq(Seq(X)), a # <<>>, NEW g \in Seq(Seq(X))
  PROVE  Cross(a, g) \in Seq(Seq(X)) /\ Crossed(Cross(a, g), a, g, Len(a))
  <1> DEFINE V == Seq(X)
             n == Len(a)
             k == Len(g)
             row(i) == [j \in 1..k |-> a[i] \o g[j]]
             rows == [i \in 1..n |-> row(i)]
             flat == CHOOSE f : Flattens(f, rows)
             Q(m) == m + 1 <= n => flat[m + 1] \in Seq(V) /\ Crossed(flat[m + 1], a, g, m + 1)
             S == {m \in Nat : Q(m)}
  <1>1. n \in Nat \ {0} /\ k \in Nat /\ DOMAIN a = 1..n /\ DOMAIN g = 1..k /\ k = Len(g) OBVIOUS
  <1>2. ASSUME NEW i \in 1..n, NEW j \in 1..k PROVE a[i] \o g[j] \in V
    <2>1. a[i] \in Seq(X) /\ g[j] \in Seq(X) BY <1>1
    <2>2. QED BY <2>1
  <1>3. Cross(a, g) = FlattenSeq(rows) BY <1>1 DEF Cross
  <1> HIDE DEF V, n, k
  <1>4. \A i \in 1..n : /\ row(i) \in Seq(V) /\ Len(row(i)) = k
                        /\ \A j \in 1..k : row(i)[j] = a[i] \o g[j]
    BY <1>1, <1>2, LenProperties
  <1> HIDE DEF row
  <1>5. rows \in Seq(Seq(V)) /\ Len(rows) = n /\ \A i \in 1..n : rows[i] = row(i) BY <1>1, <1>4, LenProperties
  <1> HIDE DEF rows
  <1>6. Flattens(flat, rows) BY <1>5, FlattensExist
  <1>7. FlattenSeq(rows) = flat[n] BY <1>1, <1>5 DEF FlattenSeq, Flattens
  <1> HIDE DEF flat
  <1>8. \A i \in 1..n : flat[i] = IF i = 1 THEN row(i) ELSE flat[i - 1] \o row(i) BY <1>5, <1>6 DEF Flattens
  <1>9. Q(0)
    <2>1. 1 \in 1..n BY <1>1
    <2>2. flat[1] = row(1) BY <1>8, <2>1
    <2>3. flat[1] \in Seq(V) /\ Len(flat[1]) = k /\ \A j \in 1..k : flat[1][j] = a[1] \o g[j] BY <1>4, <2>1, <2>2
    <2>4. Crossed(flat[1], a, g, 1)
      <3> DEFINE h == flat[1]
      <3>1. \A j \in 1..k : j = (1 - 1) * k + j /\ 1 \in 1..1 BY <1>1, Times
      <3>2. \A i \in 1..1 : i = 1 OBVIOUS
      <3>3. Len(h) = 1 * k BY <1>1, <2>3, Times
      <3>4. Len(h) = k /\ \A j \in 1..k : h[j] = a[1] \o g[j] BY <2>3
      <3> HIDE DEF h
      <3>5. \A x \in 1..Len(h) : \E i \in 1..1, j \in 1..k : x = (i - 1) * k + j /\ h[x] = a[i] \o g[j]
        BY <3>1, <3>4
      <3>6. \A i \in 1..1, j \in 1..k : \E x \in 1..Len(h) : h[x] = a[i] \o g[j] BY <3>2, <3>4
      <3>7. QED BY <1>1, <3>3, <3>5, <3>6, ZenonT(60) DEF Crossed, h
    <2>5. 0 + 1 = 1 OBVIOUS
    <2>6. QED BY <2>3, <2>4, <2>5
  <1>10. ASSUME NEW m \in Nat, Q(m), (m + 1) + 1 <= n PROVE Q(m + 1)
    <2> DEFINE p == m + 1
               h == flat[p]
               e == flat[p + 1]
               c == p * k
               d == (p + 1) * k
    <2>1. p \in Nat \ {0} /\ p <= n /\ p + 1 \in 1..n /\ p + 1 # 1 /\ (p + 1) - 1 = p BY <1>1, <1>10
    <2>2. h \in Seq(V) /\ Crossed(h, a, g, p) BY <1>10, <2>1
    <2>3. e = h \o row(p + 1) BY <1>8, <2>1
    <2>4. c \in Nat /\ d = c + k BY <1>1, <2>1
    <2> HIDE DEF p, h, e, d
    <2>5. Len(h) = c /\ Len(row(p + 1)) = k /\ row(p + 1) \in Seq(V)
          /\ \A j \in 1..k : row(p + 1)[j] = a[p + 1] \o g[j]
      BY <1>1, <1>4, <2>1, <2>2 DEF Crossed
    <2>6. ((p + 1) - 1) * k = c BY <2>1
    <2> HIDE DEF c
    <2>7. /\ e \in Seq(V) /\ Len(e) = c + k
          /\ \A x \in 1..(c + k) : e[x] = IF x <= c THEN h[x] ELSE row(p + 1)[x - c]
      BY <2>2, <2>3, <2>5, ConcatProperties
    <2>8. ASSUME NEW x \in 1..Len(e)
          PROVE  \E i \in 1..(p + 1), j \in 1..k : x = (i - 1) * k + j /\ e[x] = a[i] \o g[j]
      <3>1. x \in 1..(c + k) BY <2>7
      <3>2. CASE x <= c
        <4>1. x \in 1..Len(h) /\ e[x] = h[x] BY <2>4, <2>5, <2>7, <3>1, <3>2
        <4>2. PICK i \in 1..p, j \in 1..k : x = (i - 1) * k + j /\ h[x] = a[i] \o g[j]
          BY <1>1, <2>2, <4>1 DEF Crossed
        <4>3. i \in 1..(p + 1) BY <2>1
        <4>4. QED BY <4>1, <4>2, <4>3
      <3>3. CASE ~(x <= c)
        <4>1. x - c \in 1..k /\ c + (x - c) = x /\ p + 1 \in 1..(p + 1) BY <1>1, <2>1, <2>4, <3>1, <3>3
        <4>2. e[x] = a[p + 1] \o g[x - c] BY <2>5, <2>7, <3>1, <3>3, <4>1
        <4>3. x = ((p + 1) - 1) * k + (x - c) BY <2>6, <4>1
        <4>4. QED BY <4>1, <4>2, <4>3
      <3>4. QED BY <3>2, <3>3
    <2>9. ASSUME NEW i \in 1..(p + 1), NEW j \in 1..k PROVE \E x \in 1..Len(e) : e[x] = a[i] \o g[j]
      <3>1. CASE i = p + 1
        <4>1. c + j \in 1..(c + k) /\ ~(c + j <= c) /\ (c + j) - c = j BY <1>1, <2>4
        <4>2. e[c + j] = a[i] \o g[j] BY <2>5, <2>7, <3>1, <4>1
        <4>3. QED BY <2>7, <4>1, <4>2
      <3>2. CASE i # p + 1
        <4>1. i \in 1..p BY <2>1, <3>2
        <4>2. PICK x \in 1..Len(h) : h[x] = a[i] \o g[j] BY <1>1, <2>2, <4>1 DEF Crossed
        <4>3. x \in 1..(c + k) /\ x <= c BY <1>1, <2>4, <2>5
        <4>4. e[x] = h[x] BY <2>7, <4>3
        <4>5. QED BY <2>7, <4>2, <4>3, <4>4
      <3>3. QED BY <3>1, <3>2
    <2>10. Len(e) = (p + 1) * k BY <2>4, <2>7 DEF d
    <2>11. Crossed(e, a, g, p + 1) BY <1>1, <2>8, <2>9, <2>10, ZenonT(60) DEF Crossed
    <2>12. QED BY <2>7, <2>11 DEF e, p
  <1>11. \A m \in Nat : Q(m) => Q(m + 1)
    <2> SUFFICES ASSUME NEW m \in Nat, Q(m) PROVE Q(m + 1) OBVIOUS
    <2>1. CASE (m + 1) + 1 <= n BY <1>10, <2>1
    <2>2. CASE ~((m + 1) + 1 <= n) BY <2>2
    <2>3. QED BY <2>1, <2>2
  <1> HIDE DEF Q
  <1>12. 0 \in S /\ \A m \in Nat : m \in S => m + 1 \in S BY <1>9, <1>11
  <1> HIDE DEF S
  <1>13. n - 1 \in Nat /\ (n - 1) + 1 = n /\ n <= n BY <1>1
  <1>14. n - 1 \in S BY <1>12, <1>13, Upwards
  <1>15. Q(n - 1) BY <1>14 DEF S
  <1>16. flat[n] \in Seq(V) /\ Crossed(flat[n], a, g, n) BY <1>13, <1>15 DEF Q
  <1>17. QED BY <1>3, <1>7, <1>16 DEF V, n

\* Hosts that are as long as each other stay apart, whatever is added to them.
LEMMA CrossApart ==
  ASSUME NEW X, NEW a \in Seq(Seq(X)), a # <<>>, NEW g \in Seq(Seq(X)), NEW size,
         \A i \in 1..Len(a) : Len(a[i]) = size, IsInjective(a), IsInjective(g)
  PROVE  IsInjective(Cross(a, g))
  <1> DEFINE h == Cross(a, g)
  <1>1. h \in Seq(Seq(X)) /\ Crossed(h, a, g, Len(a)) BY CrossIs
  <1> HIDE DEF h
  <1>2. DOMAIN h = 1..Len(h) /\ DOMAIN a = 1..Len(a) /\ DOMAIN g = 1..Len(g) BY <1>1
  <1>3. ASSUME NEW x \in 1..Len(h), NEW y \in 1..Len(h), h[x] = h[y] PROVE x = y
    <2>1. PICK i \in 1..Len(a), j \in 1..Len(g) : x = (i - 1) * Len(g) + j /\ h[x] = a[i] \o g[j]
      BY <1>1 DEF Crossed
    <2>2. PICK k \in 1..Len(a), m \in 1..Len(g) : y = (k - 1) * Len(g) + m /\ h[y] = a[k] \o g[m]
      BY <1>1 DEF Crossed
    <2>3. a[i] \in Seq(X) /\ a[k] \in Seq(X) /\ g[j] \in Seq(X) /\ g[m] \in Seq(X) BY <1>2
    <2>4. Len(a[i]) = Len(a[k]) /\ a[i] \o g[j] = a[k] \o g[m] BY <1>3, <2>1, <2>2
    <2>5. a[i] = a[k] /\ g[j] = g[m] BY <2>3, <2>4, PartsOfJoin
    <2>6. i = k /\ j = m BY <1>2, <2>5 DEF IsInjective
    <2>7. QED BY <2>1, <2>2, <2>6
  <1>4. QED BY <1>2, <1>3 DEF IsInjective, h

-----------------------------------------------------------------------------
(* Where the tokens of a line are, and reading it past some of them.       *)

Letter == Mark("x")
Comma == Mark(",")
Dash == Mark("-")
Opening == Mark("[")
Closing == Mark("]")
\* A token that is part of a name, or of a spec.
Plain(t) == t.char \notin {"[", "]", ","}
AllPlain(s) == \A i \in 1..Len(s) : Plain(s[i])

\* Parts of a line may be joined in either order.
Regroups(p, q, r) == (p \o q) \o r = p \o (q \o r)

LEMMA Assoc ==
  ASSUME NEW p \in Lines, NEW q \in Lines, NEW r \in Lines
  PROVE  Regroups(p, q, r)
<1>1. p \in Seq(Glyphs) /\ q \in Seq(Glyphs) /\ r \in Seq(Glyphs) BY DEF Lines
<1>2. QED BY <1>1, ConcatAssociative, SMTT(30) DEF Regroups

\* The marks and their characters.
LEMMA Signals ==
  /\ Letter \in Glyphs /\ Comma \in Glyphs /\ Dash \in Glyphs /\ Opening \in Glyphs /\ Closing \in Glyphs
  /\ Letter.char = "x" /\ Comma.char = "," /\ Dash.char = "-" /\ Opening.char = "[" /\ Closing.char = "]"
  /\ Plain(Letter) /\ Plain(Dash)
  <1>1. Letter.char = "x" /\ Comma.char = "," /\ Dash.char = "-" /\ Opening.char = "[" /\ Closing.char = "]"
    BY DEF Letter, Comma, Dash, Opening, Closing, Mark
  <1>2. \A c \in Punctuation : Mark(c) \in Glyphs BY DEF Glyphs
  <1>3. {"[", "]", ",", "-", "x"} \subseteq Punctuation BY DEF Punctuation
  <1>4. Letter \in Glyphs /\ Comma \in Glyphs /\ Dash \in Glyphs /\ Opening \in Glyphs /\ Closing \in Glyphs
    BY <1>2, <1>3 DEF Letter, Comma, Dash, Opening, Closing
  <1>5. Plain(Letter) /\ Plain(Dash) BY <1>1 DEF Plain
  <1>6. QED BY <1>1, <1>4, <1>5

\* The two marks of a bracket as lines.
LEMMA MarksAlone ==
  /\ <<Opening>> \in Lines /\ <<Closing>> \in Lines
  /\ Len(<<Opening>>) = 1 /\ Len(<<Closing>>) = 1
  <1>1. Opening \in Glyphs /\ Closing \in Glyphs BY Signals
  <1>2. QED BY <1>1 DEF Lines

\* A numeral is plain.
LEMMA Digits ==
  ASSUME NEW k, NEW w
  PROVE  Num(k, w).char = "0" /\ Plain(Num(k, w)) /\ Num(k, w).n = k /\ Num(k, w).width = w
  <1>1. Num(k, w).char = "0" /\ Num(k, w).n = k /\ Num(k, w).width = w BY DEF Num
  <1>2. Plain(Num(k, w)) BY <1>1 DEF Plain
  <1>3. QED BY <1>1, <1>2

\* A part stands in a line after its first tokens.
Holds(s, a, t) == a + Len(t) <= Len(s) /\ \A j \in 1..Len(t) : s[a + j] = t[j]

\* A line stands in itself.
LEMMA HoldsAll == ASSUME NEW X, NEW s \in Seq(X) PROVE Holds(s, 0, s)
  <1>1. Len(s) \in Nat OBVIOUS
  <1>2. 0 + Len(s) <= Len(s) /\ \A j \in 1..Len(s) : 0 + j = j BY <1>1
  <1>3. QED BY <1>2 DEF Holds

\* Where a join stands, its parts do.
LEMMA HoldsJoin ==
  ASSUME NEW s \in Lines, NEW p \in Lines, NEW q \in Lines, NEW a \in Nat, Holds(s, a, p \o q)
  PROVE  /\ Holds(s, a, p) /\ Holds(s, a + Len(p), q)
         /\ Len(p) \in Nat /\ Len(q) \in Nat /\ Len(p \o q) = Len(p) + Len(q)
  <1> DEFINE n == Len(p)
             k == Len(q)
             t == p \o q
  <1>1. n \in Nat /\ k \in Nat /\ Len(s) \in Nat BY DEF Lines
  <1>2. Len(t) = n + k BY ConcatProperties DEF Lines
  <1>3. \A i \in 1..(n + k) : t[i] = IF i <= n THEN p[i] ELSE q[i - n] BY ConcatProperties DEF Lines
  <1>4. a + Len(t) <= Len(s) /\ \A j \in 1..Len(t) : s[a + j] = t[j] BY DEF Holds
  <1> HIDE DEF n, k, t
  <1>5. a + n <= Len(s) /\ (a + n) + k <= Len(s) BY <1>1, <1>2, <1>4
  <1>6. \A j \in 1..n : s[a + j] = p[j]
    <2>1. \A j \in 1..n : j \in 1..(n + k) /\ j <= n BY <1>1
    <2>2. QED BY <1>2, <1>3, <1>4, <2>1
  <1>7. \A j \in 1..k : s[(a + n) + j] = q[j]
    <2>1. \A j \in 1..k : n + j \in 1..(n + k) /\ ~(n + j <= n) /\ (n + j) - n = j /\ a + (n + j) = (a + n) + j
      BY <1>1
    <2>2. QED BY <1>2, <1>3, <1>4, <2>1
  <1>8. QED BY <1>1, <1>2, <1>5, <1>6, <1>7 DEF Holds, n, k, t

\* The states of reading a line, and what one token does.
Readings == [depth : Nat, done : Seq(Lines), piece : Lines]
Reads(walk, s) == \A i \in Nat : i + 1 \in 1..Len(s) => walk[i + 1] = Fed(walk[i], s[i + 1])

\* What one token does to the state of reading.
LEMMA FedOne ==
  ASSUME NEW r \in Readings, NEW t
  PROVE  /\ Plain(t) => Fed(r, t) = [depth |-> r.depth, done |-> r.done, piece |-> Append(r.piece, t)]
         /\ t = Opening => Fed(r, t) = [depth |-> r.depth + 1, done |-> r.done, piece |-> Append(r.piece, t)]
         /\ t = Closing /\ r.depth > 0 =>
              Fed(r, t) = [depth |-> r.depth - 1, done |-> r.done, piece |-> Append(r.piece, t)]
         /\ t = Comma /\ r.depth = 0 => Fed(r, t) = [depth |-> 0, done |-> Kept(r.done, r.piece), piece |-> <<>>]
  <1> DEFINE c == t.char
             d == r.depth
  <1>1. Fed(r, t) = LET depth == IF c = "[" THEN d + 1 ELSE IF c = "]" /\ d > 0 THEN d - 1 ELSE d
                    IN  IF c = "," /\ depth = 0
                        THEN [depth |-> depth, done |-> Kept(r.done, r.piece), piece |-> <<>>]
                        ELSE [depth |-> depth, done |-> r.done, piece |-> Append(r.piece, t)]
    BY DEF Fed
  <1>2. Plain(t) => c # "[" /\ c # "]" /\ c # "," BY DEF Plain
  <1>3. (t = Opening => c = "[") /\ (t = Closing => c = "]") /\ (t = Comma => c = ",") BY Signals
  <1> HIDE DEF c, d
  <1>4. Plain(t) => Fed(r, t) = [depth |-> d, done |-> r.done, piece |-> Append(r.piece, t)] BY <1>1, <1>2
  <1>5. c = "[" => Fed(r, t) = [depth |-> d + 1, done |-> r.done, piece |-> Append(r.piece, t)]
    BY <1>1, Zenon
  <1>6. c = "]" /\ d > 0 => Fed(r, t) = [depth |-> d - 1, done |-> r.done, piece |-> Append(r.piece, t)]
    BY <1>1
  <1>7. c = "," /\ d = 0 => Fed(r, t) = [depth |-> d, done |-> Kept(r.done, r.piece), piece |-> <<>>]
    BY <1>1
  <1>8. QED BY <1>3, <1>4, <1>5, <1>6, <1>7 DEF d

\* Reading past a part that is added to the piece as it is.
Passed(walk, a, t) ==
  walk[a + Len(t)] = [depth |-> walk[a].depth, done |-> walk[a].done, piece |-> walk[a].piece \o t]

\* A part without commas and brackets is added to the piece.
LEMMA PlainPassed ==
  ASSUME NEW s \in Lines, NEW walk \in [0..Len(s) -> Readings], Reads(walk, s),
         NEW a \in Nat, NEW t \in Lines, Holds(s, a, t), AllPlain(t)
  PROVE  Passed(walk, a, t)
  <1> DEFINE n == Len(s)
             k == Len(t)
             r == walk[a]
             soFar(m) == [depth |-> r.depth, done |-> r.done, piece |-> r.piece \o SubSeq(t, 1, m)]
             Q(m) == m <= k => walk[a + m] = soFar(m)
             S == {m \in Nat : Q(m)}
  <1>1. n \in Nat /\ k \in Nat BY DEF Lines
  <1>2. a + k <= n /\ \A j \in 1..k : s[a + j] = t[j] BY DEF Holds
  <1>3. a \in 0..n BY <1>1, <1>2
  <1>4. r \in Readings BY <1>3
  <1>5. r.piece \in Lines /\ r.piece \in Seq(Glyphs) BY <1>4 DEF Readings, Lines
  <1>6. r = [depth |-> r.depth, done |-> r.done, piece |-> r.piece] BY <1>4 DEF Readings
  <1>7. Q(0)
    <2>1. SubSeq(t, 1, 0) = <<>> BY SubSeqEmpty
    <2>2. r.piece \o <<>> = r.piece BY <1>5, ConcatEmptySeq
    <2>3. a + 0 = a OBVIOUS
    <2> HIDE DEF r
    <2>4. QED BY <1>6, <2>1, <2>2, <2>3 DEF r
  <1>8. ASSUME NEW m \in Nat, Q(m), m + 1 <= k PROVE Q(m + 1)
    <2>1. m <= k /\ m + 1 \in 1..k /\ a + m \in Nat /\ (a + m) + 1 \in 1..n /\ a + m \in 0..n
          /\ (a + m) + 1 = a + (m + 1) /\ 1 \in 1..k /\ (m + 1) - 1 = m
      <3>1. n \in Nat /\ k \in Nat /\ a + k <= n /\ m + 1 <= k BY <1>1, <1>2, <1>8
      <3> HIDE DEF n, k
      <3>2. QED BY <3>1
    <2>2. walk[a + m] = soFar(m) /\ walk[a + m] \in Readings BY <1>8, <2>1
    <2>3. walk[a + (m + 1)] = Fed(walk[a + m], t[m + 1])
      <3>1. walk[(a + m) + 1] = Fed(walk[a + m], s[(a + m) + 1]) BY <2>1 DEF Reads
      <3>2. s[a + (m + 1)] = t[m + 1] BY <1>2, <2>1
      <3>3. QED BY <2>1, <3>1, <3>2
    <2>4. Plain(t[m + 1]) /\ t[m + 1] \in Glyphs BY <1>1, <2>1 DEF AllPlain, Lines
    <2> DEFINE u == SubSeq(t, 1, m)
               v == SubSeq(t, 1, m + 1)
               c == t[m + 1]
    <2>5. v = u \o <<c>>
      <3>1. m + 1 \in 1..k BY <2>1
      <3>2. v = SubSeq(t, 1, (m + 1) - 1) \o <<t[m + 1]>> BY <2>1, <3>1, SubSeqRecursiveSecond DEF Lines
      <3>3. QED BY <2>1, <3>2
    <2>6. u \in Seq(Glyphs)
      <3>1. \A i \in 1..m : t[i] \in Glyphs BY <2>1 DEF Lines
      <3>2. QED BY <3>1, SubSeqProperties
    <2>7. walk[a + (m + 1)] = [depth |-> r.depth, done |-> r.done, piece |-> Append(r.piece \o u, c)]
      <3> DEFINE x == walk[a + m]
                 y == walk[a + (m + 1)]
      <3>1. x \in Readings /\ x = soFar(m) /\ y = Fed(x, c) /\ Plain(c) BY <2>2, <2>3, <2>4
      <3> DEFINE w == r.piece \o u
      <3>2. x = [depth |-> r.depth, done |-> r.done, piece |-> w] BY <3>1
      <3> HIDE DEF w, x, r
      <3>3. x.depth = r.depth /\ x.done = r.done /\ x.piece = r.piece \o u BY <3>2 DEF w
      <3> HIDE DEF x, y, c, u, r
      <3>4. y = [depth |-> x.depth, done |-> x.done, piece |-> Append(x.piece, c)] BY <3>1, FedOne
      <3>5. QED BY <3>3, <3>4 DEF y
    <2> HIDE DEF u, v, c
    <2>8. Append(r.piece \o u, c) = r.piece \o v
      <3>1. c \in Glyphs /\ <<c>> \in Seq(Glyphs) BY <2>4 DEF c
      <3>2. r.piece \o u \in Seq(Glyphs) BY <1>5, <2>6
      <3>3. Append(r.piece \o u, c) = (r.piece \o u) \o <<c>> BY <3>1, <3>2, AppendIsConcat
      <3>4. r.piece \in Lines /\ u \in Lines /\ <<c>> \in Lines BY <1>5, <2>6, <3>1 DEF Lines
      <3>5. Regroups(r.piece, u, <<c>>) BY <3>4, Assoc
      <3>6. QED BY <2>5, <3>3, <3>5 DEF Regroups
    <2>9. QED BY <2>7, <2>8 DEF v
  <1>9. \A m \in Nat : Q(m) => Q(m + 1)
    <2> SUFFICES ASSUME NEW m \in Nat, Q(m) PROVE Q(m + 1) OBVIOUS
    <2>1. CASE m + 1 <= k BY <1>8, <2>1
    <2>2. CASE ~(m + 1 <= k) BY <2>2
    <2>3. QED BY <2>1, <2>2
  <1> HIDE DEF Q
  <1>10. 0 \in S /\ \A m \in Nat : m \in S => m + 1 \in S BY <1>7, <1>9
  <1> HIDE DEF S
  <1>11. k \in S BY <1>1, <1>10, Upwards
  <1>12. Q(k) BY <1>11 DEF S
  <1>13. walk[a + k] = soFar(k) BY <1>1, <1>12 DEF Q
  <1>14. SubSeq(t, 1, k) = t BY SubSeqFull DEF Lines
  <1>15. QED BY <1>13, <1>14 DEF Passed

\* One part after another.
LEMMA JoinPassed ==
  ASSUME NEW s \in Lines, NEW walk \in [0..Len(s) -> Readings], NEW a \in Nat,
         NEW p \in Lines, NEW q \in Lines, Holds(s, a, p \o q), Passed(walk, a, p), Passed(walk, a + Len(p), q)
  PROVE  Passed(walk, a, p \o q)
  <1> DEFINE r == walk[a]
             m == walk[a + Len(p)]
             e == walk[a + Len(p \o q)]
  <1>1. Len(p) \in Nat /\ Len(q) \in Nat /\ Len(p \o q) = Len(p) + Len(q) BY HoldsJoin
  <1>2. (a + Len(p)) + Len(q) = a + Len(p \o q) /\ a \in 0..Len(s)
    <2>1. a + Len(p \o q) <= Len(s) /\ Len(s) \in Nat BY DEF Holds, Lines
    <2>2. QED BY <1>1, <2>1
  <1>3. m = [depth |-> r.depth, done |-> r.done, piece |-> r.piece \o p] BY DEF Passed
  <1>4. e = [depth |-> m.depth, done |-> m.done, piece |-> m.piece \o q] BY <1>2 DEF Passed
  <1>5. r \in Readings BY <1>2
  <1> HIDE DEF r, m, e
  <1>6. r.piece \in Seq(Glyphs) /\ p \in Seq(Glyphs) /\ q \in Seq(Glyphs) BY <1>5 DEF Readings, Lines
  <1>7. r.piece \in Lines /\ p \in Lines /\ q \in Lines BY <1>6 DEF Lines
  <1>8. Regroups(r.piece, p, q) BY <1>7, Assoc
  <1>9. e = [depth |-> r.depth, done |-> r.done, piece |-> r.piece \o (p \o q)] BY <1>3, <1>4, <1>8 DEF Regroups
  <1>10. QED BY <1>9 DEF Passed, e, r

\* A bracket is closed again.
Bracketed(t) == <<Opening>> \o t \o <<Closing>>

\* What is read of a spec in brackets is appended piece by piece.
LEMMA BracketedIs ==
  ASSUME NEW p \in Lines, NEW t \in Lines
  PROVE  Append(Append(p, Opening) \o t, Closing) = p \o Bracketed(t)
<1>1. Opening \in Glyphs /\ Closing \in Glyphs BY Signals
<1>2. PICK o \in Lines : o = <<Opening>>
  <2>1. <<Opening>> \in Lines BY <1>1 DEF Lines
  <2>2. QED BY <2>1, Zenon
<1>3. PICK c \in Lines : c = <<Closing>>
  <2>1. <<Closing>> \in Lines BY <1>1 DEF Lines
  <2>2. QED BY <2>1, Zenon
<1>4. p \in Seq(Glyphs) /\ t \in Seq(Glyphs) /\ p \o o \in Seq(Glyphs) BY <1>2 DEF Lines
<1>5. Append(p, Opening) = p \o o BY <1>1, <1>2, <1>4, AppendIsConcat
<1>6. (p \o o) \o t \in Seq(Glyphs) /\ o \o t \in Lines BY <1>2, <1>4 DEF Lines
<1>7. Append((p \o o) \o t, Closing) = ((p \o o) \o t) \o c BY <1>1, <1>3, <1>6, AppendIsConcat
<1>8. Regroups(p, o, t) BY Assoc
<1>9. Regroups(p, o \o t, c) BY <1>6, Assoc
<1>10. (o \o t) \o c = Bracketed(t) BY <1>2, <1>3 DEF Bracketed
<1>11. QED BY <1>5, <1>7, <1>8, <1>9, <1>10, Zenon DEF Regroups

\* A spec in brackets is a line.
LEMMA BracketedType ==
  ASSUME NEW t \in Lines PROVE Bracketed(t) \in Lines /\ Len(Bracketed(t)) = Len(t) + 2
  <1>1. <<Opening>> \in Lines /\ <<Closing>> \in Lines /\ Len(<<Opening>>) = 1 /\ Len(<<Closing>>) = 1
    BY MarksAlone
  <1> DEFINE u == <<Opening>> \o t
  <1>2. u \in Seq(Glyphs) /\ Len(u) = 1 + Len(t) /\ Len(t) \in Nat BY <1>1, ConcatProperties DEF Lines
  <1> HIDE DEF u
  <1> DEFINE c == <<Closing>>
  <1>3. c \in Seq(Glyphs) /\ Len(c) = 1 BY <1>1 DEF Lines
  <1> HIDE DEF c
  <1>4. u \o c \in Seq(Glyphs) /\ Len(u \o c) = Len(u) + Len(c) BY <1>2, <1>3, ConcatProperties
  <1>5. u \o <<Closing>> \in Seq(Glyphs) /\ Len(u \o <<Closing>>) = (1 + Len(t)) + 1
    BY <1>2, <1>3, <1>4 DEF c
  <1>6. (1 + Len(t)) + 1 = Len(t) + 2 BY <1>2
  <1>7. QED BY <1>5, <1>6 DEF Bracketed, u, Lines

\* The places of a bracket.
LEMMA BracketHolds ==
  ASSUME NEW s \in Lines, NEW a \in Nat, NEW t \in Lines, Holds(s, a, Bracketed(t))
  PROVE  /\ s[a + 1] = Opening /\ Holds(s, a + 1, t) /\ s[a + Len(t) + 2] = Closing
         /\ a + Len(t) + 2 <= Len(s) /\ Len(t) \in Nat
  <1> DEFINE u == <<Opening>> \o t
  <1>1. <<Opening>> \in Lines /\ <<Closing>> \in Lines /\ Len(<<Opening>>) = 1 /\ Len(<<Closing>>) = 1
    BY MarksAlone
  <1>2. s \in Lines /\ t \in Lines /\ u \in Lines BY <1>1 DEF Lines
  <1>3. Holds(s, a, u \o <<Closing>>) BY DEF Bracketed
  <1>4. Holds(s, a, u) /\ Holds(s, a + Len(u), <<Closing>>) BY <1>1, <1>2, <1>3, HoldsJoin
  <1>5. Holds(s, a, <<Opening>>) /\ Holds(s, a + 1, t) /\ Len(t) \in Nat /\ Len(u) = 1 + Len(t)
    <2> DEFINE o == <<Opening>>
    <2>1. o \in Lines /\ Holds(s, a, o \o t) BY <1>1, <1>4
    <2>2. Len(o) = 1 BY <1>1
    <2> HIDE DEF o
    <2>3. s \in Lines /\ t \in Lines /\ a \in Nat OBVIOUS
    <2>4. Holds(s, a, o) /\ Holds(s, a + Len(o), t) /\ Len(t) \in Nat /\ Len(o \o t) = Len(o) + Len(t)
      BY <2>1, <2>3, HoldsJoin
    <2>5. QED BY <2>4, <2>2 DEF o
  <1>6. s[a + 1] = Opening
    <2>1. \A j \in 1..1 : s[a + j] = <<Opening>>[j] BY <1>1, <1>5 DEF Holds
    <2>2. QED BY <2>1
  <1>7. s[(a + (1 + Len(t))) + 1] = Closing /\ (a + (1 + Len(t))) + 1 <= Len(s)
    <2>1. \A j \in 1..1 : s[(a + (1 + Len(t))) + j] = <<Closing>>[j] BY <1>1, <1>4, <1>5 DEF Holds
    <2>2. (a + (1 + Len(t))) + 1 <= Len(s) BY <1>1, <1>4, <1>5 DEF Holds
    <2>3. QED BY <2>1, <2>2
  <1>8. (a + (1 + Len(t))) + 1 = a + Len(t) + 2 BY <1>5
  <1>9. QED BY <1>5, <1>6, <1>7, <1>8

\* A comma in a bracket would split nothing, and the bracket is closed at its end.
LEMMA BracketPassed ==
  ASSUME NEW s \in Lines, NEW walk \in [0..Len(s) -> Readings], Reads(walk, s),
         NEW a \in Nat, NEW t \in Lines, Holds(s, a, Bracketed(t)), AllPlain(t)
  PROVE  Passed(walk, a, Bracketed(t))
  <1> DEFINE k == Len(t)
             r == walk[a]
             x == walk[a + 1]
             y == walk[a + k + 1]
             z == walk[a + k + 2]
  <1>1. s[a + 1] = Opening /\ Holds(s, a + 1, t) /\ s[a + k + 2] = Closing /\ a + k + 2 <= Len(s) /\ k \in Nat
    BY BracketHolds
  <1>2. Len(s) \in Nat BY DEF Lines
  <1> HIDE DEF k
  <1>3. /\ a \in 0..Len(s) /\ a + 1 \in 1..Len(s) /\ a + k + 1 \in 0..Len(s)
        /\ (a + k + 1) + 1 = a + k + 2 /\ (a + k + 1) + 1 \in 1..Len(s) /\ (a + 1) + k = a + k + 1
        /\ a + k + 1 \in Nat /\ a + 1 \in Nat /\ a + 1 \in 0..Len(s)
    BY <1>1, <1>2
  <1>4. r \in Readings /\ x \in Readings /\ y \in Readings BY <1>3
  <1>5. x = Fed(r, Opening) BY <1>1, <1>3 DEF Reads
  <1>6. z = Fed(y, Closing)
    <2>1. walk[(a + k + 1) + 1] = Fed(walk[a + k + 1], s[(a + k + 1) + 1]) BY <1>3 DEF Reads
    <2>2. QED BY <1>1, <1>3, <2>1
  <1>7. y = [depth |-> x.depth, done |-> x.done, piece |-> x.piece \o t]
    <2>1. Passed(walk, a + 1, t) BY <1>1, <1>3, PlainPassed
    <2>2. QED BY <1>3, <2>1 DEF Passed, k
  <1> HIDE DEF r, x, y, z
  <1>8. x = [depth |-> r.depth + 1, done |-> r.done, piece |-> Append(r.piece, Opening)] BY <1>4, <1>5, FedOne
  <1>9. r.depth \in Nat /\ r.piece \in Seq(Glyphs) BY <1>4 DEF Readings, Lines
  <1> DEFINE d == r.depth
  <1>10. x.depth = d + 1 /\ x.done = r.done /\ x.piece = Append(r.piece, Opening) BY <1>8
  <1>11. y.depth = d + 1 /\ y.done = r.done /\ y.piece = Append(r.piece, Opening) \o t BY <1>7, <1>10
  <1>12. d \in Nat /\ d + 1 > 0 /\ (d + 1) - 1 = d BY <1>9
  <1>13. z = [depth |-> y.depth - 1, done |-> y.done, piece |-> Append(y.piece, Closing)]
    <2>1. y.depth > 0 BY <1>11, <1>12
    <2>2. QED BY <1>4, <1>6, <2>1, FedOne
  <1>14. Append(Append(r.piece, Opening) \o t, Closing) = r.piece \o Bracketed(t)
    <2>1. r.piece \in Lines BY <1>9 DEF Lines
    <2>2. QED BY <2>1, BracketedIs
  <1>15. z = [depth |-> d, done |-> r.done, piece |-> r.piece \o Bracketed(t)] BY <1>11, <1>12, <1>13, <1>14
  <1>16. a + Len(Bracketed(t)) = a + k + 2
    <2>1. Len(Bracketed(t)) = k + 2 BY BracketedType DEF k
    <2>2. QED BY <1>1, <2>1
  <1>17. QED BY <1>15, <1>16 DEF Passed, z, r

-----------------------------------------------------------------------------
(* The names in a line of Slurm's.                                         *)

\* A name: a letter, a spec in brackets and a tail, which may be a bracket too.
Level(t) == AllPlain(t) \/ \E u \in Lines : AllPlain(u) /\ t = Bracketed(u)
Name(spec, tail) == (<<Letter>> \o Bracketed(spec)) \o tail
Pair == <<Letter, Letter>>
Second == <<Comma>> \o Pair

\* The short lines of letters and commas.
LEMMA LettersAlone ==
  /\ <<Letter>> \in Lines /\ AllPlain(<<Letter>>) /\ Len(<<Letter>>) = 1
  /\ Pair \in Lines /\ AllPlain(Pair) /\ Len(Pair) = 2
  /\ <<Comma>> \in Lines /\ Len(<<Comma>>) = 1
  <1>1. Letter \in Glyphs /\ Plain(Letter) /\ Comma \in Glyphs BY Signals
  <1>2. <<Letter>> \in Lines /\ Pair \in Lines /\ <<Comma>> \in Lines BY <1>1 DEF Lines, Pair
  <1>3. Len(<<Letter>>) = 1 /\ Len(Pair) = 2 /\ Len(<<Comma>>) = 1 BY DEF Pair
  <1>4. AllPlain(<<Letter>>)
    <2>1. \A i \in 1..1 : <<Letter>>[i] = Letter OBVIOUS
    <2>2. QED BY <1>1, <1>3, <2>1 DEF AllPlain
  <1>5. AllPlain(Pair)
    <2>1. \A i \in 1..2 : Pair[i] = Letter BY DEF Pair
    <2>2. QED BY <1>1, <1>3, <2>1 DEF AllPlain
  <1>6. QED BY <1>2, <1>3, <1>4, <1>5

\* Lines joined are a line.
LEMMA JoinType == ASSUME NEW p \in Lines, NEW q \in Lines PROVE p \o q \in Lines /\ Len(p \o q) = Len(p) + Len(q)
  BY ConcatProperties DEF Lines

\* A name is a line that is not empty.
LEMMA NameType ==
  ASSUME NEW spec \in Lines, NEW tail \in Lines
  PROVE  /\ Name(spec, tail) \in Lines /\ Bracketed(spec) \in Lines /\ <<Letter>> \o Bracketed(spec) \in Lines
         /\ Name(spec, tail) # <<>>
  <1> DEFINE l == <<Letter>>
             b == Bracketed(spec)
             v == l \o b
             n == v \o tail
  <1>1. l \in Lines /\ Len(l) = 1 /\ b \in Lines BY LettersAlone, BracketedType
  <1> HIDE DEF l, b
  <1>2. v \in Lines /\ Len(v) = Len(l) + Len(b) BY <1>1, JoinType
  <1> HIDE DEF v
  <1>3. n \in Lines /\ Len(n) = Len(v) + Len(tail) BY <1>2, JoinType
  <1> HIDE DEF n
  <1>4. Len(b) \in Nat /\ Len(tail) \in Nat BY <1>1 DEF Lines
  <1>5. Len(n) # 0 BY <1>1, <1>2, <1>3, <1>4
  <1>6. n # <<>> BY <1>5
  <1>7. QED BY <1>1, <1>2, <1>3, <1>6 DEF Name, n, v, b, l

\* A name is read into one piece.
LEMMA LevelPassed ==
  ASSUME NEW s \in Lines, NEW walk \in [0..Len(s) -> Readings], Reads(walk, s),
         NEW a \in Nat, NEW t \in Lines, Holds(s, a, t), Level(t)
  PROVE  Passed(walk, a, t)
  <1>1. CASE AllPlain(t) BY <1>1, PlainPassed
  <1>2. CASE \E u \in Lines : AllPlain(u) /\ t = Bracketed(u)
    <2>1. PICK u \in Lines : AllPlain(u) /\ t = Bracketed(u) BY <1>2
    <2>2. QED BY <2>1, BracketPassed
  <1>3. QED BY <1>1, <1>2 DEF Level

\* So a whole name is read into one piece.
LEMMA NamePassed ==
  ASSUME NEW s \in Lines, NEW walk \in [0..Len(s) -> Readings], Reads(walk, s),
         NEW spec \in Lines, AllPlain(spec), NEW tail \in Lines, Level(tail), Holds(s, 0, Name(spec, tail))
  PROVE  Passed(walk, 0, Name(spec, tail))
  <1> DEFINE l == <<Letter>>
             b == Bracketed(spec)
             v == l \o b
  <1>1. l \in Lines /\ b \in Lines /\ v \in Lines /\ Level(l) /\ Level(b) /\ 0 \in Nat
    BY LettersAlone, BracketedType, NameType DEF Level
  <1>2. Holds(s, 0, v \o tail) /\ Name(spec, tail) = v \o tail BY DEF Name
  <1> HIDE DEF l, b
  <1>3. Holds(s, 0, v) /\ Holds(s, 0 + Len(v), tail) /\ Len(v) \in Nat
    <2> HIDE DEF v
    <2>1. QED BY <1>1, <1>2, HoldsJoin
  <1>4. Holds(s, 0, l) /\ Holds(s, 0 + Len(l), b) /\ Len(l) \in Nat BY <1>1, <1>3, HoldsJoin
  <1>5. 0 + Len(l) \in Nat /\ 0 + Len(v) \in Nat BY <1>3, <1>4
  <1>6. Passed(walk, 0, l) BY <1>1, <1>4, LevelPassed
  <1>7. Passed(walk, 0 + Len(l), b) BY <1>1, <1>4, <1>5, LevelPassed
  <1>8. Passed(walk, 0, v) BY <1>1, <1>3, <1>6, <1>7, JoinPassed
  <1> HIDE DEF v
  <1>9. Passed(walk, 0 + Len(v), tail) BY <1>1, <1>3, <1>5, LevelPassed
  <1>10. Passed(walk, 0, v \o tail) BY <1>1, <1>2, <1>8, <1>9, JoinPassed
  <1>11. QED BY <1>2, <1>10

\* Where the walk is after a name.
LEMMA NameIsPiece ==
  ASSUME NEW s \in Lines, NEW walk \in [0..Len(s) -> Readings], Reads(walk, s), walk[0] = Empty,
         NEW spec \in Lines, AllPlain(spec), NEW tail \in Lines, Level(tail), Holds(s, 0, Name(spec, tail))
  PROVE  walk[Len(Name(spec, tail))] = [depth |-> 0, done |-> <<>>, piece |-> Name(spec, tail)]
  <1> DEFINE name == Name(spec, tail)
  <1>1. Passed(walk, 0, name) BY NamePassed
  <1>2. name \in Lines BY NameType
  <1> HIDE DEF name
  <1>3. Len(name) \in Nat /\ 0 + Len(name) = Len(name) /\ <<>> \o name = name BY <1>2 DEF Lines
  <1>4. walk[0].depth = 0 /\ walk[0].done = <<>> /\ walk[0].piece = <<>> BY DEF Empty
  <1>5. QED BY <1>1, <1>3, <1>4 DEF Passed, name

\* A line of one name is split into it.
LEMMA OneName ==
  ASSUME NEW spec \in Lines, AllPlain(spec), NEW tail \in Lines, Level(tail)
  PROVE  SplitTopLevel(Name(spec, tail)) = <<Name(spec, tail)>>
  <1> DEFINE s == Name(spec, tail)
             last == FoldLeft(Fed, Empty, s)
  <1>1. s \in Lines /\ s # <<>> BY NameType
  <1>2. PICK walk \in [0..Len(s) -> Readings] :
           walk[0] = Empty /\ walk[Len(s)] = last /\ Reads(walk, s)
    <2> HIDE DEF s
    <2>1. QED BY <1>1, FedWalks DEF Readings, Reads
  <1>3. Holds(s, 0, Name(spec, tail)) BY <1>1, HoldsAll DEF Lines
  <1>4. walk[Len(s)] = [depth |-> 0, done |-> <<>>, piece |-> s] BY <1>1, <1>2, <1>3, NameIsPiece
  <1>5. SplitTopLevel(s) = Kept(last.done, last.piece) BY DEF SplitTopLevel, Empty
  <1> HIDE DEF s, last
  <1>6. Kept(last.done, last.piece) = Append(<<>>, s) BY <1>1, <1>2, <1>4 DEF Kept
  <1>7. Append(<<>>, s) = <<s>> OBVIOUS
  <1>8. QED BY <1>5, <1>6, <1>7 DEF s

\* A line of two names is split into them.
LEMMA TwoNames ==
  ASSUME NEW spec \in Lines, AllPlain(spec), NEW tail \in Lines, Level(tail)
  PROVE  /\ Name(spec, tail) \o Second \in Lines
         /\ SplitTopLevel(Name(spec, tail) \o Second) = <<Name(spec, tail), Pair>>
  <1> DEFINE name == Name(spec, tail)
             s == name \o Second
             last == FoldLeft(Fed, Empty, s)
             n == Len(name)
             c == <<Comma>>
  <1>1. name \in Lines /\ name # <<>> BY NameType
  <1>2. c \in Lines /\ Pair \in Lines /\ AllPlain(Pair) /\ Len(c) = 1 /\ Len(Pair) = 2 /\ c[1] = Comma
    BY LettersAlone
  <1>3. Second \in Lines /\ Second = c \o Pair BY <1>2, JoinType DEF Second
  <1> HIDE DEF name, c
  <1>4. s \in Lines /\ Len(s) = n + Len(Second) BY <1>1, <1>3, JoinType
  <1>5. Len(Second) = 3
    <2>1. Len(c \o Pair) = Len(c) + Len(Pair) BY <1>2, JoinType
    <2>2. QED BY <1>2, <1>3, <2>1
  <1>6. n \in Nat BY <1>1 DEF Lines
  <1>7. Holds(s, 0, s) BY <1>4, HoldsAll DEF Lines
  <1>8. Holds(s, 0, name) /\ Holds(s, 0 + n, Second)
    <2>1. 0 \in Nat OBVIOUS
    <2> HIDE DEF n
    <2>2. QED BY <1>1, <1>3, <1>4, <1>7, <2>1, HoldsJoin DEF n
  <1>9. Holds(s, n, c) /\ Holds(s, n + Len(c), Pair)
    <2>1. Holds(s, n, c \o Pair) BY <1>3, <1>6, <1>8
    <2> HIDE DEF s, n
    <2>2. QED BY <1>2, <1>4, <1>6, <2>1, HoldsJoin
  <1>10. s[n + 1] = Comma
    <2> HIDE DEF s, n
    <2>1. \A j \in 1..1 : s[n + j] = c[j] BY <1>2, <1>9 DEF Holds
    <2>2. 1 \in 1..1 OBVIOUS
    <2>3. s[n + 1] = c[1] BY <2>1, <2>2
    <2>4. QED BY <1>2, <2>3
  <1>11. PICK walk \in [0..Len(s) -> Readings] :
           walk[0] = Empty /\ walk[Len(s)] = last /\ Reads(walk, s)
    <2> HIDE DEF s
    <2>1. QED BY <1>4, FedWalks DEF Readings, Reads
  <1>12. walk[n] = [depth |-> 0, done |-> <<>>, piece |-> name]
    <2> HIDE DEF s
    <2>1. QED BY <1>4, <1>8, <1>11, NameIsPiece DEF name
  <1>13. SplitTopLevel(s) = Kept(last.done, last.piece) BY DEF SplitTopLevel, Empty
  <1> HIDE DEF s, last, n
  <1>14. n \in 0..Len(s) /\ n + 1 \in 1..Len(s) /\ n + 1 \in Nat /\ (n + 1) + 2 = Len(s) BY <1>4, <1>5, <1>6
  <1>15. walk[n + 1] = [depth |-> 0, done |-> <<name>>, piece |-> <<>>]
    <2>1. walk[n + 1] = Fed(walk[n], s[n + 1]) BY <1>6, <1>11, <1>14 DEF Reads
    <2>2. walk[n] \in Readings BY <1>14
    <2>3. walk[n].depth = 0 /\ walk[n].done = <<>> /\ walk[n].piece = name BY <1>12
    <2>4. Kept(<<>>, name) = <<name>> BY <1>1 DEF Kept
    <2>5. QED BY <1>10, <2>1, <2>2, <2>3, <2>4, FedOne
  <1>16. walk[Len(s)] = [depth |-> 0, done |-> <<name>>, piece |-> Pair]
    <2>1. Passed(walk, n + 1, Pair) BY <1>2, <1>4, <1>9, <1>11, <1>14, PlainPassed
    <2>2. <<>> \o Pair = Pair BY <1>2 DEF Lines
    <2>3. walk[n + 1].depth = 0 /\ walk[n + 1].done = <<name>> /\ walk[n + 1].piece = <<>> BY <1>15
    <2>4. QED BY <1>2, <1>14, <2>1, <2>2, <2>3 DEF Passed
  <1>17. Kept(last.done, last.piece) = Append(<<name>>, Pair)
    <2>1. Pair # <<>> BY DEF Pair
    <2>2. last.done = <<name>> /\ last.piece = Pair BY <1>11, <1>16
    <2>3. QED BY <2>1, <2>2 DEF Kept
  <1>18. Append(<<name>>, Pair) = <<name, Pair>> OBVIOUS
  <1>19. QED BY <1>4, <1>13, <1>17, <1>18 DEF s, name

-----------------------------------------------------------------------------
(* The sections of such names.                                             *)

\* The first of some characters is where one stands and none stands before.
LEMMA FirstAt ==
  ASSUME NEW s \in Lines, NEW from \in Nat \ {0}, NEW f \in Nat, from <= f, f <= Len(s), NEW chars,
         s[f].char \in chars, \A i \in Nat : from <= i /\ i < f => s[i].char \notin chars
  PROVE  First(s, from, chars) = f
  <1> DEFINE n == Len(s)
             found == {i \in from..n : s[i].char \in chars}
             least == CHOOSE i \in found : \A j \in found : i <= j
  <1>1. First(s, from, chars) = IF found = {} THEN n + 1 ELSE least BY DEF First
  <1>2. n \in Nat BY DEF Lines
  <1> HIDE DEF n
  <1>3. f \in from..n BY <1>2 DEF n
  <1>4. f \in found BY <1>3
  <1>5. \A j \in found : j \in Nat /\ from <= j /\ s[j].char \in chars BY <1>2
  <1>6. \A j \in found : f <= j BY <1>5
  <1> HIDE DEF found
  <1>7. least \in found /\ \A j \in found : least <= j BY <1>4, <1>6
  <1> HIDE DEF least
  <1>8. least <= f /\ f <= least /\ least \in Nat BY <1>4, <1>5, <1>6, <1>7
  <1>9. least = f BY <1>8
  <1>10. QED BY <1>1, <1>4, <1>9

\* Without any it is past the end.
LEMMA FirstNone ==
  ASSUME NEW s \in Lines, NEW from \in Nat \ {0}, NEW chars,
         \A i \in Nat : from <= i /\ i <= Len(s) => s[i].char \notin chars
  PROVE  First(s, from, chars) = Len(s) + 1
  <1> DEFINE found == {i \in from..Len(s) : s[i].char \in chars}
  <1>1. Len(s) \in Nat BY DEF Lines
  <1>2. \A i \in from..Len(s) : i \in Nat /\ from <= i /\ i <= Len(s) BY <1>1
  <1>3. found = {} BY <1>2
  <1>4. QED BY <1>3 DEF First

\* No bracket stands in a plain part.
LEMMA PlainIs ==
  ASSUME NEW s \in Lines, NEW a \in Nat, NEW t \in Lines, Holds(s, a, t), AllPlain(t)
  PROVE  \A i \in Nat : a + 1 <= i /\ i <= a + Len(t) =>
           s[i].char \notin {"[", "]"} /\ s[i].char \notin {"]"} /\ s[i].char # "["
  <1> SUFFICES ASSUME NEW i \in Nat, a + 1 <= i, i <= a + Len(t)
               PROVE  s[i].char \notin {"[", "]"} /\ s[i].char \notin {"]"} /\ s[i].char # "["
    OBVIOUS
  <1>1. Len(t) \in Nat BY DEF Lines
  <1>2. i - a \in 1..Len(t) /\ a + (i - a) = i BY <1>1
  <1>3. s[a + (i - a)] = t[i - a] /\ Plain(t[i - a]) BY <1>2 DEF Holds, AllPlain
  <1>4. Plain(s[i]) BY <1>2, <1>3
  <1>5. QED BY <1>4 DEF Plain

\* A bracket is a spec, and the next section begins behind it.
LEMMA SpecAt ==
  ASSUME NEW name \in Lines, NEW a \in Nat, NEW t \in Lines, Holds(name, a, Bracketed(t)), AllPlain(t)
  PROVE  /\ PieceAt(name, a + 1) = [kind |-> "spec", text |-> t]
         /\ NextAt(name, a + 1) = a + Len(t) + 3
  <1> DEFINE k == Len(t)
             n == Len(name)
             close == First(name, (a + 1) + 1, {"]"})
  <1>1. name[a + 1] = Opening /\ Holds(name, a + 1, t) /\ name[a + k + 2] = Closing /\ a + k + 2 <= n /\ k \in Nat
    BY BracketHolds
  <1>2. n \in Nat BY DEF Lines
  <1>3. name[a + 1].char = "[" /\ name[a + k + 2].char \in {"]"} BY <1>1, Signals
  <1>4. \A i \in Nat : (a + 1) + 1 <= i /\ i < a + k + 2 => name[i].char \notin {"]"}
    <2>1. \A i \in Nat : (a + 1) + 1 <= i /\ i <= (a + 1) + k => name[i].char \notin {"]"} BY <1>1, PlainIs
    <2>2. \A i \in Nat : i < a + k + 2 => i <= (a + 1) + k BY <1>1
    <2>3. QED BY <2>1, <2>2
  <1>5. close = a + k + 2
    <2>1. (a + 1) + 1 \in Nat \ {0} /\ a + k + 2 \in Nat /\ (a + 1) + 1 <= a + k + 2 BY <1>1
    <2>2. a + k + 2 <= Len(name) BY <1>1
    <2> HIDE DEF k, n
    <2>3. QED BY <1>3, <1>4, <2>1, <2>2, FirstAt
  <1>6. Closes(name, a + 1) BY <1>1, <1>3, <1>5 DEF Closes
  <1>7. SubSeq(name, (a + 1) + 1, close - 1) = t
    <2>1. (a + 1) + Len(t) <= Len(name) /\ \A j \in 1..Len(t) : name[(a + 1) + j] = t[j]
      <3> HIDE DEF k, n
      <3>1. Holds(name, a + 1, t) BY <1>1
      <3>2. QED BY <3>1 DEF Holds
    <2>2. SubSeq(name, (a + 1) + 1, (a + 1) + Len(t)) = t
      <3>1. a + 1 \in Nat OBVIOUS
      <3>2. QED BY <2>1, <3>1, SubIs DEF Lines
    <2>3. close - 1 = (a + 1) + Len(t) BY <1>1, <1>5
    <2>4. QED BY <2>2, <2>3
  <1>8. PieceAt(name, a + 1) = [kind |-> "spec", text |-> t]
    <2>1. PieceAt(name, a + 1) = [kind |-> "spec", text |-> SubSeq(name, (a + 1) + 1, close - 1)]
      BY <1>6 DEF PieceAt
    <2>2. QED BY <1>7, <2>1
  <1>9. NextAt(name, a + 1) = close + 1 BY <1>6 DEF NextAt
  <1>10. close + 1 = a + k + 3 BY <1>1, <1>5
  <1>11. QED BY <1>8, <1>9, <1>10

\* A plain part up to a bracket or the end is a literal.
LEMMA LiteralAt ==
  ASSUME NEW name \in Lines, NEW a \in Nat, NEW t \in Lines, Holds(name, a, t), AllPlain(t), t # <<>>,
         a + Len(t) = Len(name) \/ (a + Len(t) < Len(name) /\ name[a + Len(t) + 1] = Opening)
  PROVE  /\ PieceAt(name, a + 1) = [kind |-> "literal", text |-> t]
         /\ NextAt(name, a + 1) = a + Len(t) + 1
  <1> DEFINE k == Len(t)
             n == Len(name)
             stop == Stop(name, a + 1)
  <1>1. n \in Nat /\ k \in Nat /\ k # 0 BY DEF Lines
  <1>2. \A i \in Nat : a + 1 <= i /\ i <= a + k => name[i].char \notin {"[", "]"} /\ name[i].char # "["
    BY PlainIs
  <1>3. a + k <= n BY DEF Holds
  <1>4. name[a + 1].char # "["
    <2>1. a + 1 \in Nat /\ a + 1 <= a + 1 /\ a + 1 <= a + k BY <1>1
    <2>2. QED BY <1>2, <2>1
  <1>5. stop = a + k + 1
    <2>1. CASE a + k = n
      <3>1. \A i \in Nat : a + 1 <= i /\ i <= n => name[i].char \notin {"[", "]"} BY <1>2, <2>1
      <3>2. a + 1 \in Nat \ {0} OBVIOUS
      <3>3. stop = n + 1 BY <3>1, <3>2, FirstNone DEF Stop
      <3>4. QED BY <2>1, <3>3
    <2>2. CASE a + k < n /\ name[a + k + 1] = Opening
      <3>1. name[a + k + 1].char \in {"[", "]"} BY <2>2, Signals
      <3>2. \A i \in Nat : i < a + k + 1 => i <= a + k BY <1>1
      <3>3. \A i \in Nat : a + 1 <= i /\ i < a + k + 1 => name[i].char \notin {"[", "]"} BY <1>2, <3>2
      <3>4. a + 1 \in Nat \ {0} /\ a + k + 1 \in Nat /\ a + 1 <= a + k + 1 /\ a + k + 1 <= Len(name) BY <1>1, <2>2
      <3> HIDE DEF k, n, stop
      <3>5. First(name, a + 1, {"[", "]"}) = a + k + 1 BY <3>1, <3>3, <3>4, FirstAt
      <3>6. QED BY <3>5 DEF stop, Stop
    <2>3. QED BY <2>1, <2>2
  <1>6. ~Closes(name, a + 1) BY <1>4 DEF Closes
  <1>7. stop # a + 1 BY <1>1, <1>5
  <1>8. SubSeq(name, a + 1, stop - 1) = t
    <2>1. a + Len(t) <= Len(name) /\ \A j \in 1..Len(t) : name[a + j] = t[j] BY DEF Holds
    <2>2. SubSeq(name, a + 1, a + Len(t)) = t BY <2>1, SubIs DEF Lines
    <2>3. stop - 1 = a + Len(t) BY <1>1, <1>5
    <2>4. QED BY <2>2, <2>3
  <1>9. PieceAt(name, a + 1) = [kind |-> "literal", text |-> SubSeq(name, a + 1, stop - 1)]
    BY <1>6, <1>7 DEF PieceAt
  <1>10. NextAt(name, a + 1) = stop BY <1>6, <1>7 DEF NextAt
  <1>11. QED BY <1>5, <1>8, <1>9, <1>10

\* Where each section of a name begins.
SectionsFrom(part, name) ==
  \A i \in 1..(Len(name) + 1) :
    part[i] = IF i > Len(name) THEN <<>> ELSE <<PieceAt(name, i)>> \o part[NextAt(name, i)]

\* The sections are those that begin at the first place.
LEMMA SectionsAre ==
  ASSUME NEW name \in Lines PROVE \E part : Sections(name) = part[1] /\ SectionsFrom(part, name)
  <1> DEFINE part == CHOOSE f : Parts(f, name)
  <1>1. Sections(name) = part[1] BY DEF Sections, Parts, PieceAt, NextAt, Closes, Stop
  <1>2. Parts(part, name) BY PartsExist
  <1> HIDE DEF part
  <1>3. SectionsFrom(part, name) BY <1>2 DEF Parts, SectionsFrom
  <1>4. QED BY <1>1, <1>3

\* What the sections of a tail are.
Literal(t) == [kind |-> "literal", text |-> t]
Spec(t) == [kind |-> "spec", text |-> t]

\* A sequence is its first element in front of the others.
LEMMA OneInFront ==
  ASSUME NEW X, NEW x \in X, NEW t \in Seq(X), NEW s \in Seq(X),
         Len(s) = Len(t) + 1, s[1] = x, \A i \in 1..Len(t) : s[i + 1] = t[i]
  PROVE  <<x>> \o t = s
  <1> DEFINE f == <<x>>
             c == f \o t
             n == Len(t)
  <1>1. f \in Seq(X) /\ f[1] = x OBVIOUS
  <1>2. Len(f) = 1 OBVIOUS
  <1>3. n \in Nat OBVIOUS
  <1> HIDE DEF f
  <1>4. c \in Seq(X) /\ Len(c) = Len(f) + Len(t)
        /\ \A i \in 1..(Len(f) + Len(t)) : c[i] = IF i <= Len(f) THEN f[i] ELSE t[i - Len(f)]
    BY <1>1, ConcatProperties
  <1> HIDE DEF c, n
  <1>5. Len(c) = 1 + n /\ \A i \in 1..(1 + n) : c[i] = IF i <= 1 THEN f[i] ELSE t[i - 1] BY <1>2, <1>4 DEF n
  <1>6. Len(c) = Len(s) BY <1>3, <1>5 DEF n
  <1>7. \A i \in 1..Len(c) : c[i] = s[i]
    <2> SUFFICES ASSUME NEW i \in 1..(1 + n) PROVE c[i] = s[i] BY <1>5
    <2>1. CASE i = 1
      <3>1. i <= 1 /\ i \in 1..(1 + n) BY <2>1
      <3>2. QED BY <1>1, <1>5, <2>1, <3>1
    <2>2. CASE i # 1
      <3>1. ~(i <= 1) /\ i - 1 \in 1..n /\ (i - 1) + 1 = i BY <1>3, <2>2
      <3>2. c[i] = t[i - 1] BY <1>5, <3>1
      <3>3. s[(i - 1) + 1] = t[i - 1] BY <3>1 DEF n
      <3>4. QED BY <3>1, <3>2, <3>3
    <2>3. QED BY <2>1, <2>2
  <1>8. c = s BY <1>4, <1>6, <1>7, SeqEqual
  <1>9. QED BY <1>8 DEF c, f

\* Sequences of two and three, joined from their elements.
LEMMA InARow ==
  ASSUME NEW x, NEW y, NEW z
  PROVE  /\ <<x>> \o <<y>> = <<x, y>> /\ <<x>> \o <<y, z>> = <<x, y, z>>
         /\ <<x>> \o (<<y>> \o <<>>) = <<x, y>> /\ <<x>> \o (<<y>> \o (<<z>> \o <<>>)) = <<x, y, z>>
  <1>1. <<y>> \o <<>> = <<y>> /\ <<z>> \o <<>> = <<z>> OBVIOUS
  <1>2. \A a, b : <<a>> \o <<b>> = <<a, b>>
    <2> SUFFICES ASSUME NEW a, NEW b PROVE <<a>> \o <<b>> = <<a, b>> OBVIOUS
    <2> DEFINE X == {a, b}
               t == <<b>>
               s == <<a, b>>
    <2>1. a \in X /\ t \in Seq(X) /\ s \in Seq(X) OBVIOUS
    <2>2. Len(t) = 1 /\ Len(s) = Len(t) + 1 /\ s[1] = a /\ \A i \in 1..Len(t) : s[i + 1] = t[i] OBVIOUS
    <2> HIDE DEF X, t, s
    <2>3. <<a>> \o t = s BY <2>1, <2>2, OneInFront
    <2>4. QED BY <2>3 DEF t, s
  <1>3. <<x>> \o <<y, z>> = <<x, y, z>>
    <2> DEFINE X == {x, y, z}
               t == <<y, z>>
               s == <<x, y, z>>
    <2>1. x \in X /\ t \in Seq(X) /\ s \in Seq(X) OBVIOUS
    <2>2. Len(t) = 2 /\ Len(s) = Len(t) + 1 /\ s[1] = x /\ s[2] = y /\ s[3] = z /\ t[1] = y /\ t[2] = z OBVIOUS
    <2>3. \A i \in 1..2 : i = 1 \/ i = 2 OBVIOUS
    <2> HIDE DEF X, t, s
    <2>4. \A i \in 1..Len(t) : s[i + 1] = t[i] BY <2>2, <2>3
    <2>5. <<x>> \o t = s BY <2>1, <2>2, <2>4, OneInFront
    <2>6. QED BY <2>5 DEF t, s
  <1>4. <<x>> \o (<<y>> \o <<>>) = <<x, y>> BY <1>1, <1>2
  <1>5. <<x>> \o (<<y>> \o (<<z>> \o <<>>)) = <<x, y, z>>
    <2>1. <<y>> \o (<<z>> \o <<>>) = <<y, z>> BY <1>1, <1>2
    <2>2. QED BY <1>3, <2>1
  <1>6. <<x>> \o <<y>> = <<x, y>> BY <1>2
  <1>7. QED BY <1>3, <1>4, <1>5, <1>6

\* The second name is one literal.
LEMMA PairSections == Sections(Pair) = <<Literal(Pair)>>
  <1>1. Pair \in Lines /\ AllPlain(Pair) /\ Len(Pair) = 2 /\ Pair # <<>> /\ Holds(Pair, 0, Pair)
    BY LettersAlone, HoldsAll DEF Lines
  <1>2. PieceAt(Pair, 0 + 1) = [kind |-> "literal", text |-> Pair] /\ NextAt(Pair, 0 + 1) = 0 + Len(Pair) + 1
    <2>1. 0 \in Nat /\ 0 + Len(Pair) = Len(Pair) BY <1>1
    <2>2. QED BY <1>1, <2>1, LiteralAt
  <1>3. PICK part : Sections(Pair) = part[1] /\ SectionsFrom(part, Pair) BY <1>1, SectionsAre
  <1>4. PieceAt(Pair, 1) = Literal(Pair) /\ NextAt(Pair, 1) = 3 BY <1>1, <1>2 DEF Literal
  <1>5. part[3] = <<>> BY <1>1, <1>3 DEF SectionsFrom
  <1>6. part[1] = <<Literal(Pair)>> \o <<>> BY <1>1, <1>3, <1>4, <1>5 DEF SectionsFrom
  <1>7. QED BY <1>3, <1>6

\* The sections of a name: its letter, its spec and its tail.
LEMMA NameSections ==
  ASSUME NEW spec \in Lines, AllPlain(spec), NEW tail \in Lines
  PROVE  /\ tail = <<>> => Sections(Name(spec, tail)) = <<Literal(<<Letter>>), Spec(spec)>>
         /\ AllPlain(tail) /\ tail # <<>> =>
              Sections(Name(spec, tail)) = <<Literal(<<Letter>>), Spec(spec), Literal(tail)>>
         /\ \A u \in Lines : AllPlain(u) /\ tail = Bracketed(u) =>
              Sections(Name(spec, tail)) = <<Literal(<<Letter>>), Spec(spec), Spec(u)>>
  <1> DEFINE l == <<Letter>>
             b == Bracketed(spec)
             v == l \o b
             name == Name(spec, tail)
             n == Len(name)
             k == Len(spec)
             m == Len(tail)
  <1>1. l \in Lines /\ AllPlain(l) /\ Len(l) = 1 /\ b \in Lines /\ v \in Lines /\ name \in Lines /\ l # <<>>
    BY LettersAlone, NameType
  <1>2. Len(b) = k + 2 /\ k \in Nat /\ m \in Nat /\ n \in Nat
    <2>1. Len(b) = k + 2 BY BracketedType
    <2>2. name \in Lines BY <1>1
    <2> HIDE DEF name, b
    <2>3. k \in Nat /\ m \in Nat /\ n \in Nat BY <2>2 DEF Lines
    <2>4. QED BY <2>1, <2>3
  <1>3. name = v \o tail BY DEF Name
  <1> HIDE DEF l, b, name
  <1>4. Len(v) = k + 3 /\ n = (k + 3) + m
    <2>1. Len(v) = Len(l) + Len(b) BY <1>1, JoinType
    <2>2. Len(v \o tail) = Len(v) + Len(tail) BY <1>1, JoinType
    <2> HIDE DEF v
    <2>3. QED BY <1>1, <1>2, <1>3, <2>1, <2>2
  <1>5. Holds(name, 0, v) /\ Holds(name, k + 3, tail)
    <2>1. Holds(name, 0, v \o tail) BY <1>1, <1>3, HoldsAll DEF Lines
    <2> HIDE DEF v
    <2>2. 0 \in Nat OBVIOUS
    <2>3. Holds(name, 0, v) /\ Holds(name, 0 + Len(v), tail) BY <1>1, <2>1, <2>2, HoldsJoin
    <2>4. 0 + Len(v) = k + 3 BY <1>2, <1>4
    <2>5. QED BY <2>3, <2>4
  <1>6. Holds(name, 0, l) /\ Holds(name, 1, b)
    <2>1. 0 \in Nat OBVIOUS
    <2>2. Holds(name, 0, l) /\ Holds(name, 0 + Len(l), b) BY <1>1, <1>5, <2>1, HoldsJoin
    <2>3. 0 + Len(l) = 1 BY <1>1
    <2>4. QED BY <2>2, <2>3
  <1> HIDE DEF v
  <1>7. PieceAt(name, 1) = Literal(l) /\ NextAt(name, 1) = 2
    <2>1. name[1 + 1] = Opening
      <3>1. 1 \in Nat OBVIOUS
      <3>2. QED BY <1>1, <1>6, <3>1, BracketHolds DEF b
    <2>2. 0 + Len(l) < Len(name) /\ name[0 + Len(l) + 1] = Opening /\ 0 \in Nat BY <1>1, <1>2, <1>4, <2>1
    <2> HIDE DEF n, k, m
    <2>3. PieceAt(name, 0 + 1) = [kind |-> "literal", text |-> l] /\ NextAt(name, 0 + 1) = 0 + Len(l) + 1
      BY <1>1, <1>6, <2>2, LiteralAt
    <2>4. 0 + 1 = 1 /\ 0 + Len(l) + 1 = 2 BY <1>1
    <2>5. QED BY <2>3, <2>4 DEF Literal
  <1>8. PieceAt(name, 2) = Spec(spec) /\ NextAt(name, 2) = k + 4
    <2>1. 1 \in Nat OBVIOUS
    <2>2. PieceAt(name, 1 + 1) = [kind |-> "spec", text |-> spec] /\ NextAt(name, 1 + 1) = 1 + Len(spec) + 3
      BY <1>1, <1>6, <2>1, SpecAt DEF b
    <2>3. 1 + 1 = 2 /\ 1 + Len(spec) + 3 = k + 4 BY <1>2
    <2>4. QED BY <2>2, <2>3 DEF Spec
  <1>9. PICK part : Sections(name) = part[1] /\ SectionsFrom(part, name) BY <1>1, SectionsAre
  <1> HIDE DEF n, k, m
  <1>10. 1 \in 1..(n + 1) /\ ~(1 > n) /\ 2 \in 1..(n + 1) /\ ~(2 > n) BY <1>2, <1>4
  <1>11. part[1] = <<Literal(l)>> \o (<<Spec(spec)>> \o part[k + 4])
    <2>1. part[1] = <<PieceAt(name, 1)>> \o part[NextAt(name, 1)] BY <1>9, <1>10 DEF SectionsFrom, n
    <2>2. part[2] = <<PieceAt(name, 2)>> \o part[NextAt(name, 2)] BY <1>9, <1>10 DEF SectionsFrom, n
    <2>3. QED BY <1>7, <1>8, <2>1, <2>2
  <1>12. part[n + 1] = <<>>
    <2>1. n + 1 \in 1..(n + 1) /\ n + 1 > n BY <1>2
    <2>2. QED BY <1>9, <2>1 DEF SectionsFrom, n
  <1>13. ASSUME m # 0 PROVE part[k + 4] = <<PieceAt(name, k + 4)>> \o part[NextAt(name, k + 4)]
    <2>1. k + 4 \in 1..(n + 1) /\ ~(k + 4 > n) BY <1>2, <1>4, <1>13
    <2>2. QED BY <1>9, <2>1 DEF SectionsFrom, n
  <1>14. ASSUME tail = <<>> PROVE Sections(name) = <<Literal(l), Spec(spec)>>
    <2>1. m = 0 BY <1>14 DEF m
    <2>2. n + 1 = k + 4 BY <1>2, <1>4, <2>1
    <2>3. part[1] = <<Literal(l)>> \o (<<Spec(spec)>> \o <<>>) BY <1>11, <1>12, <2>2
    <2>4. <<Literal(l)>> \o (<<Spec(spec)>> \o <<>>) = <<Literal(l), Spec(spec)>> BY InARow
    <2>5. QED BY <1>9, <2>3, <2>4
  <1>15. ASSUME NEW p, m # 0, PieceAt(name, k + 4) = p, NextAt(name, k + 4) = n + 1
         PROVE  Sections(name) = <<Literal(l), Spec(spec), p>>
    <2>1. part[1] = <<Literal(l)>> \o (<<Spec(spec)>> \o (<<p>> \o <<>>)) BY <1>11, <1>12, <1>13, <1>15
    <2>2. <<Literal(l)>> \o (<<Spec(spec)>> \o (<<p>> \o <<>>)) = <<Literal(l), Spec(spec), p>> BY InARow
    <2>3. QED BY <1>9, <2>1, <2>2
  <1>16. k + 3 \in Nat /\ (k + 3) + 1 = k + 4 BY <1>2
  <1>17. ASSUME AllPlain(tail), tail # <<>> PROVE Sections(name) = <<Literal(l), Spec(spec), Literal(tail)>>
    <2>1. m # 0
      <3>1. tail \in Seq(Glyphs) BY DEF Lines
      <3>2. QED BY <1>17, <3>1, EmptySeq DEF m
    <2>2. (k + 3) + Len(tail) = Len(name) BY <1>4 DEF n, m
    <2>3. PieceAt(name, (k + 3) + 1) = [kind |-> "literal", text |-> tail]
          /\ NextAt(name, (k + 3) + 1) = (k + 3) + Len(tail) + 1
      BY <1>1, <1>5, <1>16, <1>17, <2>2, LiteralAt
    <2>4. PieceAt(name, k + 4) = Literal(tail) /\ NextAt(name, k + 4) = n + 1
      BY <1>16, <2>2, <2>3 DEF Literal, n
    <2>5. QED BY <1>15, <2>1, <2>4
  <1>18. ASSUME NEW u \in Lines, AllPlain(u), tail = Bracketed(u)
         PROVE  Sections(name) = <<Literal(l), Spec(spec), Spec(u)>>
    <2>1. m = Len(u) + 2 /\ Len(u) \in Nat BY <1>18, BracketedType DEF Lines, m
    <2>2. PieceAt(name, (k + 3) + 1) = [kind |-> "spec", text |-> u]
          /\ NextAt(name, (k + 3) + 1) = (k + 3) + Len(u) + 3
      BY <1>1, <1>5, <1>16, <1>18, SpecAt
    <2>3. (k + 3) + Len(u) + 3 = n + 1 /\ m # 0 BY <1>2, <1>4, <2>1
    <2>4. PieceAt(name, k + 4) = Spec(u) /\ NextAt(name, k + 4) = n + 1 BY <1>16, <2>2, <2>3 DEF Spec
    <2>5. QED BY <1>15, <2>3, <2>4
  <1>19. QED BY <1>14, <1>17, <1>18 DEF name, l

-----------------------------------------------------------------------------
(* The spec of a range, and the numbers it names.                          *)

Inner(lo, hi, w) == IF lo = hi THEN <<Num(lo, w)>> ELSE <<Num(lo, w), Dash, Num(hi, w)>>

\* A numeral alone is a line.
LEMMA NumeralType ==
  ASSUME NEW k \in Nat, NEW w \in Nat \ {0}
  PROVE  Num(k, w) \in Glyphs /\ <<Num(k, w)>> \in Lines
  <1>1. Num(k, w) \in Glyphs BY DEF Glyphs
  <1>2. QED BY <1>1 DEF Lines

\* The spec of a range is one numeral, or two and a dash.
LEMMA InnerIs ==
  ASSUME NEW lo \in Nat, NEW hi \in Nat, NEW w \in Nat \ {0}
  PROVE  /\ Inner(lo, hi, w) \in Lines /\ AllPlain(Inner(lo, hi, w))
         /\ lo = hi => Inner(lo, hi, w) = <<Num(lo, w)>>
         /\ lo # hi => Inner(lo, hi, w) = <<Num(lo, w), Dash, Num(hi, w)>>
  <1> DEFINE a == Num(lo, w)
             b == Num(hi, w)
  <1>1. a \in Glyphs /\ b \in Glyphs /\ Dash \in Glyphs BY NumeralType, Signals
  <1>2. Plain(a) /\ Plain(b) /\ Plain(Dash) BY Digits, Signals
  <1>3. Inner(lo, hi, w) = IF lo = hi THEN <<a>> ELSE <<a, Dash, b>> BY DEF Inner
  <1> HIDE DEF a, b
  <1>4. <<a>> \in Lines /\ <<a, Dash, b>> \in Lines BY <1>1 DEF Lines
  <1>5. AllPlain(<<a>>)
    <2>1. Len(<<a>>) = 1 /\ \A i \in 1..1 : <<a>>[i] = a OBVIOUS
    <2>2. QED BY <1>2, <2>1 DEF AllPlain
  <1>6. AllPlain(<<a, Dash, b>>)
    <2> DEFINE t == <<a, Dash, b>>
    <2>1. Len(t) = 3 /\ t[1] = a /\ t[2] = Dash /\ t[3] = b OBVIOUS
    <2>2. \A i \in 1..3 : i = 1 \/ i = 2 \/ i = 3 OBVIOUS
    <2> HIDE DEF t
    <2>3. QED BY <1>2, <2>1, <2>2 DEF AllPlain, t
  <1>7. QED BY <1>3, <1>4, <1>5, <1>6 DEF a, b

\* Slurm's bracket is that spec in brackets.
LEMMA BracketIs ==
  ASSUME NEW lo \in Nat, NEW hi \in Nat, NEW w \in Nat \ {0}
  PROVE  Bracket(lo, hi, w) = Bracketed(Inner(lo, hi, w))
  <1> DEFINE a == Num(lo, w)
             b == Num(hi, w)
             mid == IF lo = hi THEN <<>> ELSE <<Dash, b>>
             o == <<Opening>>
             n == <<a>>
  <1>1. Bracket(lo, hi, w) = (<<Opening, a>> \o mid) \o <<Closing>>
    BY DEF Bracket, Opening, Closing, Dash
  <1>2. a \in Glyphs /\ b \in Glyphs /\ Dash \in Glyphs /\ o \in Lines BY NumeralType, Signals, MarksAlone
  <1>3. Inner(lo, hi, w) = IF lo = hi THEN <<a>> ELSE <<a, Dash, b>> BY DEF Inner
  <1> HIDE DEF a, b, o
  <1>4. n \in Lines /\ mid \in Lines BY <1>2 DEF Lines
  <1>5. Inner(lo, hi, w) = n \o mid
    <2>1. CASE lo = hi BY <1>3, <2>1
    <2>2. CASE lo # hi BY <1>3, <2>2, InARow
    <2>3. QED BY <2>1, <2>2
  <1>6. <<Opening, a>> = o \o n BY InARow DEF o
  <1> HIDE DEF mid, n
  <1>7. <<Opening, a>> \o mid = o \o (n \o mid)
    <2>1. Regroups(o, n, mid) BY <1>2, <1>4, Assoc
    <2>2. QED BY <1>6, <2>1 DEF Regroups
  <1>8. QED BY <1>1, <1>5, <1>7 DEF Bracketed, o

\* Without a comma a spec is one piece.
LEMMA SplitAllOne ==
  ASSUME NEW s \in Lines, AllPlain(s) PROVE SplitAll(s) = <<s>>
  <1> DEFINE n == Len(s)
  <1>1. PICK walk \in [0..n -> Seq(Seq(Glyphs)) \ {<<>>}] :
           /\ walk[0] = << <<>> >> /\ walk[n] = SplitAll(s)
           /\ \A i \in Nat : i + 1 \in 1..n => walk[i + 1] = Apart(walk[i], s[i + 1])
    BY ApartWalks DEF Lines
  <1> DEFINE P(m) == m <= n => walk[m] = <<SubSeq(s, 1, m)>>
             S == {m \in Nat : P(m)}
  <1>2. n \in Nat BY DEF Lines
  <1>3. P(0)
    <2>1. SubSeq(s, 1, 0) = <<>> BY SubSeqEmpty
    <2>2. QED BY <1>1, <2>1
  <1>4. ASSUME NEW m \in Nat, P(m), m + 1 <= n PROVE P(m + 1)
    <2> DEFINE u == SubSeq(s, 1, m)
               v == SubSeq(s, 1, m + 1)
               c == s[m + 1]
    <2>1. m <= n /\ m + 1 \in 1..n /\ 1 \in 1..n /\ (m + 1) - 1 = m
      <3>1. m + 1 <= n BY <1>4
      <3> HIDE DEF n
      <3>2. QED BY <1>2, <3>1
    <2>2. walk[m] = <<u>> BY <1>4, <2>1
    <2>3. walk[m + 1] = Apart(<<u>>, c) BY <1>1, <2>1, <2>2
    <2>4. c \in Glyphs /\ Plain(c) BY <2>1 DEF Lines, AllPlain
    <2>5. u \in Seq(Glyphs)
      <3>1. \A i \in 1..m : s[i] \in Glyphs BY <2>1 DEF Lines
      <3>2. QED BY <3>1, SubSeqProperties
    <2>6. v = Append(u, c)
      <3>1. v = SubSeq(s, 1, (m + 1) - 1) \o <<s[m + 1]>> BY <2>1, SubSeqRecursiveSecond DEF Lines
      <3>2. v = u \o <<c>> BY <2>1, <3>1
      <3> HIDE DEF u, v, c
      <3>3. Append(u, c) = u \o <<c>> BY <2>4, <2>5, AppendIsConcat
      <3>4. QED BY <3>2, <3>3
    <2> HIDE DEF u, v, c
    <2>7. Apart(<<u>>, c) = [<<u>> EXCEPT ![Len(<<u>>)] = Append(@, c)]
      <3>1. c.char # "," BY <2>4 DEF Plain
      <3>2. QED BY <3>1 DEF Apart
    <2>8. [<<u>> EXCEPT ![Len(<<u>>)] = Append(@, c)] = <<Append(u, c)>>
      <3>1. Len(<<u>>) = 1 /\ <<u>>[1] = u OBVIOUS
      <3>2. [<<u>> EXCEPT ![1] = Append(u, c)] = <<Append(u, c)>> OBVIOUS
      <3>3. QED BY <3>1, <3>2
    <2>9. QED BY <2>3, <2>6, <2>7, <2>8 DEF v
  <1>5. \A m \in Nat : P(m) => P(m + 1)
    <2> SUFFICES ASSUME NEW m \in Nat, P(m) PROVE P(m + 1) OBVIOUS
    <2>1. CASE m + 1 <= n BY <1>4, <2>1
    <2>2. CASE ~(m + 1 <= n) BY <2>2
    <2>3. QED BY <2>1, <2>2
  <1> HIDE DEF P
  <1>6. 0 \in S /\ \A m \in Nat : m \in S => m + 1 \in S BY <1>3, <1>5
  <1> HIDE DEF S
  <1>7. n \in S BY <1>2, <1>6, Upwards
  <1>8. P(n) BY <1>7 DEF S
  <1>9. walk[n] = <<SubSeq(s, 1, n)>> BY <1>2, <1>8 DEF P
  <1>10. SubSeq(s, 1, n) = s BY SubSeqFull DEF Lines
  <1>11. QED BY <1>1, <1>9, <1>10

\* A numeral has no dash.
LEMMA SidesOfOne ==
  ASSUME NEW a \in Glyphs, a.char = "0"
  PROVE  ~Dashed(<<a>>) /\ Before(<<a>>) = <<a>>
  <1> DEFINE s == <<a>>
  <1>1. s \in Lines /\ Len(s) = 1 /\ \A i \in 1..1 : s[i].char = "0" BY DEF Lines
  <1>2. \A i \in Nat : 1 <= i /\ i <= Len(s) => s[i].char \notin {"-"}
    <2>1. \A i \in Nat : 1 <= i /\ i <= Len(s) => i \in 1..1 BY <1>1
    <2> HIDE DEF s
    <2>2. QED BY <1>1, <2>1
  <1> HIDE DEF s
  <1>3. First(s, 1, {"-"}) = Len(s) + 1
    <2>1. 1 \in Nat \ {0} OBVIOUS
    <2>2. QED BY <1>1, <1>2, <2>1, FirstNone
  <1>4. ~Dashed(s) BY <1>1, <1>3 DEF Dashed
  <1>5. Before(s) = s BY <1>1, <1>4, SidesType DEF Lines
  <1>6. QED BY <1>4, <1>5 DEF s

\* A range has a numeral on either side of its dash.
LEMMA SidesOfRange ==
  ASSUME NEW a \in Glyphs, a.char = "0", NEW b \in Glyphs, b.char = "0"
  PROVE  Dashed(<<a, Dash, b>>) /\ Before(<<a, Dash, b>>) = <<a>> /\ After(<<a, Dash, b>>) = <<b>>
  <1> DEFINE s == <<a, Dash, b>>
             p == <<a>>
             q == <<b>>
  <1>1. Dash \in Glyphs /\ Dash.char = "-" BY Signals
  <1>2. s \in Lines /\ Len(s) = 3 /\ p \in Lines /\ q \in Lines /\ Len(p) = 1 /\ Len(q) = 1 BY <1>1 DEF Lines
  <1>3. s[1] = a /\ s[2] = Dash /\ s[3] = b /\ p[1] = a /\ q[1] = b OBVIOUS
  <1> HIDE DEF s, p, q
  <1>4. First(s, 1, {"-"}) = 2
    <2>1. 1 \in Nat \ {0} /\ 2 \in Nat /\ 1 <= 2 /\ 2 <= Len(s) BY <1>2
    <2>2. s[2].char \in {"-"} /\ s[1].char \notin {"-"} BY <1>1, <1>3
    <2>3. \A i \in Nat : 1 <= i /\ i < 2 => i = 1 OBVIOUS
    <2>4. \A i \in Nat : 1 <= i /\ i < 2 => s[i].char \notin {"-"} BY <2>2, <2>3
    <2>5. QED BY <1>2, <2>1, <2>2, <2>4, FirstAt
  <1>5. Dashed(s) BY <1>2, <1>4 DEF Dashed
  <1>6. Before(s) = p
    <2>1. \A j \in 1..Len(p) : s[0 + j] = p[j] BY <1>2, <1>3
    <2>2. 0 \in Nat /\ 0 + Len(p) <= Len(s) BY <1>2
    <2>3. SubSeq(s, 0 + 1, 0 + Len(p)) = p BY <1>2, <2>1, <2>2, SubIs DEF Lines
    <2>4. 0 + 1 = 1 /\ 0 + Len(p) = 1 /\ 2 - 1 = 1 BY <1>2
    <2>5. SubSeq(s, 1, 1) = p BY <2>3, <2>4
    <2>6. QED BY <1>4, <2>4, <2>5 DEF Before
  <1>7. After(s) = q
    <2>1. \A j \in 1..Len(q) : s[2 + j] = q[j]
      <3>1. \A j \in 1..Len(q) : j = 1 BY <1>2
      <3>2. QED BY <1>3, <3>1
    <2>2. 2 \in Nat /\ 2 + Len(q) <= Len(s) BY <1>2
    <2>3. SubSeq(s, 2 + 1, 2 + Len(q)) = q BY <1>2, <2>1, <2>2, SubIs DEF Lines
    <2>4. 2 + Len(q) = Len(s) BY <1>2
    <2>5. QED BY <1>4, <2>3, <2>4 DEF After
  <1>8. QED BY <1>5, <1>6, <1>7 DEF s, p, q

\* The strict reader takes a range up to the limit.
LEMMA RangeIsRead ==
  ASSUME NEW lo \in Nat, NEW hi \in Nat, lo <= hi, NEW w \in Nat \ {0}
  PROVE  StrictRangeValues(Inner(lo, hi, w)) = IF hi - lo + 1 <= StrictLimit THEN Padded(lo, hi, w) ELSE <<>>
  <1> DEFINE s == Inner(lo, hi, w)
             a == Num(lo, w)
             b == Num(hi, w)
             p == Padded(lo, hi, w)
  <1>1. s \in Lines /\ AllPlain(s) /\ (lo = hi => s = <<a>>) /\ (lo # hi => s = <<a, Dash, b>>) BY InnerIs
  <1>2. /\ a \in Glyphs /\ b \in Glyphs /\ a.char = "0" /\ b.char = "0"
        /\ a.n = lo /\ b.n = hi /\ a.width = w
    BY NumeralType, Digits
  <1>3. p \in Seq(Seq(Signs)) /\ Len(p) = hi - lo + 1
    <2>1. \A k \in Int : <<Num(k, w)>> \in Seq(Signs) BY GlyphsAreSigns
    <2>2. QED BY <2>1, PaddedType
  <1>4. Fine(s) /\ Value(s) = p
    <2>1. CASE lo = hi
      <3>1. s = <<a>> /\ ~Dashed(s) /\ Before(s) = <<a>> BY <1>1, <1>2, <2>1, SidesOfOne
      <3>2. IsNumeral(<<a>>) BY <1>2 DEF IsNumeral
      <3>3. p = << <<a>> >>
        <4>1. hi - lo + 1 = 1 /\ \A i \in 1..1 : lo + i - 1 = lo BY <2>1
        <4>2. p = [i \in 1..(hi - lo + 1) |-> <<Num(lo + i - 1, w)>>] BY DEF Padded
        <4>3. p = [i \in 1..1 |-> <<a>>] BY <4>1, <4>2
        <4> HIDE DEF p, a
        <4>4. [i \in 1..1 |-> <<a>>] = << <<a>> >> OBVIOUS
        <4>5. QED BY <4>3, <4>4
      <3> HIDE DEF s, p, a
      <3>4. QED BY <3>1, <3>2, <3>3 DEF Fine, Value
    <2>2. CASE lo # hi
      <3>1. s = <<a, Dash, b>> /\ Dashed(s) /\ Before(s) = <<a>> /\ After(s) = <<b>> BY <1>1, <1>2, <2>2, SidesOfRange
      <3>2. IsNumeral(<<a>>) /\ IsNumeral(<<b>>) BY <1>2 DEF IsNumeral
      <3> HIDE DEF s
      <3>3. Low(s) = lo /\ High(s) = hi BY <1>2, <3>1 DEF Low, High
      <3>4. Spelled(s) = Padded(lo, hi, w) BY <1>2, <3>1, <3>3 DEF Spelled
      <3> HIDE DEF a, b
      <3>5. Fine(s) BY <3>1, <3>2, <3>3 DEF Fine
      <3>6. QED BY <3>1, <3>4, <3>5 DEF Value
    <2>3. QED BY <2>1, <2>2
  <1>5. SplitAll(s) = <<s>> BY <1>1, SplitAllOne
  <1> HIDE DEF s, p, a, b
  <1>6. FlattenSeq(Values(s)) = p
    <2>1. Values(s) = [i \in DOMAIN <<s>> |-> Value(<<s>>[i])] BY <1>5 DEF Values
    <2>2. Values(s) = <<p>>
      <3>1. DOMAIN <<s>> = 1..1 /\ <<s>>[1] = s OBVIOUS
      <3>2. [i \in 1..1 |-> Value(<<s>>[i])] = [i \in 1..1 |-> p] BY <1>4, <3>1
      <3>3. [i \in 1..1 |-> p] = <<p>> OBVIOUS
      <3>4. QED BY <2>1, <3>1, <3>2, <3>3
    <2>3. QED BY <1>3, <2>2, FlattenOne
  <1>7. StrictRangeValues(s) = IF (\A i \in DOMAIN SplitAll(s) : Fine(SplitAll(s)[i])) /\ Len(FlattenSeq(Values(s))) <= StrictLimit
                              THEN FlattenSeq(Values(s)) ELSE <<>>
    BY DEF StrictRangeValues, Fine, Values, Value
  <1>8. \A i \in DOMAIN SplitAll(s) : Fine(SplitAll(s)[i])
    <2>1. DOMAIN <<s>> = 1..1 /\ <<s>>[1] = s OBVIOUS
    <2>2. QED BY <1>4, <1>5, <2>1
  <1>9. StrictRangeValues(s) = IF Len(p) <= StrictLimit THEN p ELSE <<>> BY <1>6, <1>7, <1>8
  <1>10. StrictRangeValues(s) = IF hi - lo + 1 <= StrictLimit THEN p ELSE <<>> BY <1>3, <1>9
  <1>11. QED BY <1>10 DEF s, p

-----------------------------------------------------------------------------
(* The hosts that groups of different values name are different.           *)

\* A group: different values, all as long as each other.
Words == Seq(Signs)
Group(g, size, values) ==
  /\ g \in Seq(Words) /\ g # <<>> /\ IsInjective(g)
  /\ \A i \in 1..Len(g) : Len(g[i]) = size
  /\ values = {g[i] : i \in 1..Len(g)}
Joins(A, B) == {p \o q : p \in A, q \in B}

\* Two groups make a group.
LEMMA CrossGroup ==
  ASSUME NEW m \in Nat, NEW k \in Nat, NEW a, NEW A, NEW g, NEW B, Group(a, m, A), Group(g, k, B)
  PROVE  Group(Cross(a, g), m + k, Joins(A, B))
  <1> DEFINE h == Cross(a, g)
  <1>1. /\ a \in Seq(Seq(Signs)) /\ a # <<>> /\ IsInjective(a) /\ \A i \in 1..Len(a) : Len(a[i]) = m
        /\ g \in Seq(Seq(Signs)) /\ g # <<>> /\ IsInjective(g) /\ \A i \in 1..Len(g) : Len(g[i]) = k
    BY DEF Group, Words
  <1>2. A = {a[i] : i \in 1..Len(a)} /\ B = {g[i] : i \in 1..Len(g)} BY DEF Group
  <1>3. h \in Seq(Seq(Signs)) /\ Crossed(h, a, g, Len(a)) BY <1>1, CrossIs
  <1>4. IsInjective(h) BY <1>1, CrossApart
  <1> HIDE DEF h
  <1>5. \A i \in 1..Len(a) : a[i] \in Words BY <1>1 DEF Words
  <1>6. \A j \in 1..Len(g) : g[j] \in Words BY <1>1 DEF Words
  <1>7. \A x \in 1..Len(h) : \E i \in 1..Len(a), j \in 1..Len(g) : h[x] = a[i] \o g[j] BY <1>3 DEF Crossed
  <1>8. \A i \in 1..Len(a), j \in 1..Len(g) : \E x \in 1..Len(h) : h[x] = a[i] \o g[j] BY <1>3 DEF Crossed
  <1>9. h # <<>>
    <2>1. 1 \in 1..Len(a) /\ 1 \in 1..Len(g) BY <1>1
    <2>2. \E x \in 1..Len(h) : h[x] = a[1] \o g[1] BY <1>8, <2>1
    <2>3. Len(h) # 0 BY <2>2
    <2>4. QED BY <2>3
  <1>10. \A x \in 1..Len(h) : Len(h[x]) = m + k
    <2> SUFFICES ASSUME NEW x \in 1..Len(h) PROVE Len(h[x]) = m + k OBVIOUS
    <2>1. PICK i \in 1..Len(a), j \in 1..Len(g) : h[x] = a[i] \o g[j] BY <1>7
    <2>2. a[i] \in Seq(Signs) /\ g[j] \in Seq(Signs) BY <1>5, <1>6 DEF Words
    <2>3. Len(a[i]) = m /\ Len(g[j]) = k BY <1>1
    <2>4. Len(a[i] \o g[j]) = Len(a[i]) + Len(g[j]) BY <2>2, ConcatProperties
    <2>5. QED BY <2>1, <2>3, <2>4
  <1>11. Joins(A, B) = {h[x] : x \in 1..Len(h)}
    <2>1. \A p \in A : \E i \in 1..Len(a) : p = a[i] BY <1>2
    <2>2. \A q \in B : \E j \in 1..Len(g) : q = g[j] BY <1>2
    <2>3. ASSUME NEW p \in A, NEW q \in B PROVE \E x \in 1..Len(h) : p \o q = h[x]
      <3>1. PICK i \in 1..Len(a) : p = a[i] BY <2>1
      <3>2. PICK j \in 1..Len(g) : q = g[j] BY <2>2
      <3>3. QED BY <1>8, <3>1, <3>2
    <2>4. ASSUME NEW x \in 1..Len(h) PROVE \E p \in A, q \in B : h[x] = p \o q
      <3>1. PICK i \in 1..Len(a), j \in 1..Len(g) : h[x] = a[i] \o g[j] BY <1>7
      <3>2. a[i] \in A /\ g[j] \in B BY <1>2
      <3>3. QED BY <3>1, <3>2
    <2>5. ASSUME NEW e \in Joins(A, B) PROVE e \in {h[x] : x \in 1..Len(h)}
      <3>1. PICK p \in A, q \in B : e = p \o q BY DEF Joins
      <3>2. QED BY <2>3, <3>1
    <2>6. ASSUME NEW x \in 1..Len(h) PROVE h[x] \in Joins(A, B)
      <3>1. PICK p \in A, q \in B : h[x] = p \o q BY <2>4
      <3>2. QED BY <3>1 DEF Joins
    <2>7. QED BY <2>5, <2>6
  <1>12. QED BY <1>3, <1>4, <1>9, <1>10, <1>11 DEF Group, Words, h

\* It has as many values as they make pairs.
LEMMA CrossSize ==
  ASSUME NEW m, NEW k, NEW a, NEW A, NEW g, NEW B, Group(a, m, A), Group(g, k, B)
  PROVE  Len(Cross(a, g)) = Len(a) * Len(g)
  <1>1. a \in Seq(Seq(Signs)) /\ a # <<>> /\ g \in Seq(Seq(Signs)) BY DEF Group, Words
  <1>2. Crossed(Cross(a, g), a, g, Len(a)) BY <1>1, CrossIs
  <1>3. QED BY <1>2 DEF Crossed

\* One value is a group.
LEMMA OneInGroup == ASSUME NEW t \in Words PROVE Group(<<t>>, Len(t), {t})
  <1> DEFINE g == <<t>>
  <1>1. g \in Seq(Words) /\ g # <<>> OBVIOUS
  <1>2. Len(g) = 1 /\ g[1] = t /\ DOMAIN g = 1..1 OBVIOUS
  <1> HIDE DEF g
  <1>3. \A i \in 1..1 : i = 1 OBVIOUS
  <1>4. IsInjective(g) BY <1>2, <1>3 DEF IsInjective
  <1>5. {g[i] : i \in 1..Len(g)} = {t} BY <1>2, <1>3
  <1>6. \A i \in 1..Len(g) : Len(g[i]) = Len(t) BY <1>2, <1>3
  <1>7. QED BY <1>1, <1>4, <1>5, <1>6 DEF Group, g

\* The numbers of a range are a group.
LEMMA RangeGroup ==
  ASSUME NEW lo \in Nat, NEW hi \in Nat, lo <= hi, NEW w \in Nat \ {0}
  PROVE  Group(Padded(lo, hi, w), 1, Numbers(lo, hi, w)) /\ Len(Padded(lo, hi, w)) = hi - lo + 1
  <1> DEFINE g == Padded(lo, hi, w)
             m == hi - lo + 1
             at(i) == lo + i - 1
  <1>1. g \in Seq(Words) /\ Len(g) = m
    <2>1. \A k \in Int : <<Num(k, w)>> \in Words BY GlyphsAreSigns DEF Words
    <2>2. QED BY <2>1, PaddedType
  <1>2. m \in Nat \ {0} BY SMT
  <1>3. \A i \in 1..m : g[i] = <<Num(at(i), w)>> BY DEF Padded
  <1> HIDE DEF g
  <1>4. g # <<>> BY <1>1, <1>2
  <1>5. \A i \in 1..m : Len(g[i]) = 1 BY <1>3
  <1>6. \A i \in 1..m : g[i][1].n = at(i) BY <1>3, Digits
  <1>7. \A i, j \in 1..m : at(i) = at(j) => i = j OBVIOUS
  <1>8. IsInjective(g)
    <2>1. DOMAIN g = 1..m BY <1>1
    <2> HIDE DEF m, at
    <2>2. \A i, j \in 1..m : g[i] = g[j] => at(i) = at(j) BY <1>6
    <2>3. QED BY <1>7, <2>1, <2>2 DEF IsInjective
  <1>9. Numbers(lo, hi, w) = {g[i] : i \in 1..m}
    <2>1. \A i \in 1..m : at(i) \in lo..hi BY SMT
    <2>2. \A i \in lo..hi : (i - lo) + 1 \in 1..m /\ at((i - lo) + 1) = i BY SMT
    <2> HIDE DEF m, at
    <2>3. \A i \in 1..m : g[i] \in Numbers(lo, hi, w) BY <1>3, <2>1 DEF Numbers
    <2>4. ASSUME NEW p \in Numbers(lo, hi, w) PROVE \E i \in 1..m : p = g[i]
      <3>1. PICK i \in lo..hi : p = <<Num(i, w)>> BY DEF Numbers
      <3>2. g[(i - lo) + 1] = <<Num(i, w)>> /\ (i - lo) + 1 \in 1..m BY <1>3, <2>2
      <3>3. QED BY <3>1, <3>2
    <2>5. QED BY <2>3, <2>4
  <1> HIDE DEF m
  <1>10. Group(g, 1, Numbers(lo, hi, w)) BY <1>1, <1>4, <1>5, <1>8, <1>9 DEF Group
  <1>11. QED BY <1>1, <1>10 DEF g, m

\* Names in which one, two or three groups stand.
LEMMA OneGroup ==
  ASSUME NEW m \in Nat, NEW a, NEW A, Group(a, m, A)
  PROVE  /\ Group(Cross(<< <<>> >>, a), m, A) /\ Len(Cross(<< <<>> >>, a)) = Len(a) /\ Len(a) \in Nat
         /\ 1 * Len(a) = Len(a)
  <1>1. <<>> \in Words BY DEF Words
  <1>2. Group(<< <<>> >>, Len(<<>>), {<<>>}) BY <1>1, OneInGroup
  <1>3. Len(<<>>) = 0 /\ Len(<< <<>> >>) = 1 OBVIOUS
  <1>4. Group(<< <<>> >>, 0, {<<>>}) BY <1>2, <1>3
  <1>5. 0 \in Nat /\ 0 + m = m OBVIOUS
  <1> DEFINE e == << <<>> >>
  <1>6. Group(Cross(e, a), m, Joins({<<>>}, A)) /\ Len(Cross(e, a)) = Len(e) * Len(a)
    <2> HIDE DEF e
    <2>1. Group(e, 0, {<<>>}) /\ 0 \in Nat BY <1>4 DEF e
    <2>2. Group(Cross(e, a), 0 + m, Joins({<<>>}, A)) BY <2>1, CrossGroup
    <2>3. Len(Cross(e, a)) = Len(e) * Len(a) BY <2>1, CrossSize
    <2>4. QED BY <1>5, <2>2, <2>3
  <1>7. Joins({<<>>}, A) = A
    <2>1. \A p \in A : p \in Words BY DEF Group
    <2>2. \A p \in A : <<>> \o p = p BY <2>1 DEF Words
    <2>3. QED BY <2>2 DEF Joins
  <1>8. Len(a) \in Nat BY DEF Group
  <1>9. 1 * Len(a) = Len(a) BY <1>8, Times
  <1>10. QED BY <1>3, <1>6, <1>7, <1>8, <1>9

\* So many hosts of so many tokens, namely these.
IsProduct(groups, size, values, count) ==
  Group(Product(groups), size, values) /\ Len(Product(groups)) = count /\ Size(groups) = count

\* The hosts of one group.
LEMMA ProductOfOne ==
  ASSUME NEW m \in Nat, NEW a, NEW A, Group(a, m, A)
  PROVE  IsProduct(<<a>>, m, A, Len(a))
  <1> DEFINE groups == <<a>>
  <1>1. groups \in Seq(Seq(Seq(Signs))) /\ Len(groups) = 1 /\ groups[1] = a BY DEF Group, Words
  <1> HIDE DEF groups
  <1>2. PICK walk \in [0..Len(groups) -> Seq(Seq(Signs))] :
           /\ walk[0] = << <<>> >> /\ walk[Len(groups)] = Product(groups)
           /\ \A i \in Nat : i + 1 \in 1..Len(groups) => walk[i + 1] = Cross(walk[i], groups[i + 1])
    BY <1>1, ProductWalks
  <1>3. PICK sizes \in [0..Len(groups) -> Nat] :
           /\ sizes[0] = 1 /\ sizes[Len(groups)] = Size(groups)
           /\ \A i \in Nat : i + 1 \in 1..Len(groups) => sizes[i + 1] = sizes[i] * Len(groups[i + 1])
    BY <1>1, SizeWalks
  <1>4. 0 \in Nat /\ 0 + 1 = 1 /\ 0 + 1 \in 1..1 OBVIOUS
  <1>5. Product(groups) = Cross(<< <<>> >>, a) BY <1>1, <1>2, <1>4
  <1>6. Size(groups) = 1 * Len(a) BY <1>1, <1>3, <1>4
  <1>7. QED BY <1>5, <1>6, OneGroup DEF IsProduct, groups

\* The hosts of two groups.
LEMMA ProductOfTwo ==
  ASSUME NEW m \in Nat, NEW a, NEW A, Group(a, m, A), NEW k \in Nat, NEW b, NEW B, Group(b, k, B)
  PROVE  IsProduct(<<a, b>>, m + k, Joins(A, B), Len(a) * Len(b))
  <1> DEFINE groups == <<a, b>>
             one == Cross(<< <<>> >>, a)
  <1>1. groups \in Seq(Seq(Seq(Signs))) BY DEF Group, Words
  <1>2. Len(groups) = 2 /\ groups[1] = a /\ groups[2] = b OBVIOUS
  <1> HIDE DEF groups
  <1>3. PICK walk \in [0..Len(groups) -> Seq(Seq(Signs))] :
           /\ walk[0] = << <<>> >> /\ walk[Len(groups)] = Product(groups)
           /\ \A i \in Nat : i + 1 \in 1..Len(groups) => walk[i + 1] = Cross(walk[i], groups[i + 1])
    BY <1>1, ProductWalks
  <1>4. PICK sizes \in [0..Len(groups) -> Nat] :
           /\ sizes[0] = 1 /\ sizes[Len(groups)] = Size(groups)
           /\ \A i \in Nat : i + 1 \in 1..Len(groups) => sizes[i + 1] = sizes[i] * Len(groups[i + 1])
    BY <1>1, SizeWalks
  <1>5. 0 \in Nat /\ 0 + 1 = 1 /\ 0 + 1 \in 1..2 /\ 1 \in Nat /\ 1 + 1 = 2 /\ 1 + 1 \in 1..2 OBVIOUS
  <1>6. walk[1] = one BY <1>2, <1>3, <1>5
  <1>7. Group(one, m, A) /\ Len(one) = Len(a) /\ 1 * Len(a) = Len(a) BY OneGroup
  <1> HIDE DEF one
  <1>8. Product(groups) = Cross(one, b) BY <1>2, <1>3, <1>5, <1>6
  <1>9. Size(groups) = Len(a) * Len(b)
    <2>1. sizes[1] = 1 * Len(a) BY <1>2, <1>4, <1>5
    <2>2. Size(groups) = sizes[1] * Len(b) BY <1>2, <1>4, <1>5
    <2>3. QED BY <1>7, <2>1, <2>2
  <1>10. Group(Cross(one, b), m + k, Joins(A, B)) /\ Len(Cross(one, b)) = Len(one) * Len(b)
    <2>1. Group(one, m, A) BY <1>7
    <2>2. Group(Cross(one, b), m + k, Joins(A, B)) BY <2>1, CrossGroup
    <2>3. Len(Cross(one, b)) = Len(one) * Len(b) BY <2>1, CrossSize
    <2>4. QED BY <2>2, <2>3
  <1>11. QED BY <1>7, <1>8, <1>9, <1>10 DEF IsProduct, groups

\* The hosts of three groups.
LEMMA ProductOfThree ==
  ASSUME NEW m \in Nat, NEW a, NEW A, Group(a, m, A), NEW k \in Nat, NEW b, NEW B, Group(b, k, B),
         NEW l \in Nat, NEW c, NEW C, Group(c, l, C)
  PROVE  IsProduct(<<a, b, c>>, (m + k) + l, Joins(Joins(A, B), C), (Len(a) * Len(b)) * Len(c))
  <1> DEFINE groups == <<a, b, c>>
             one == Cross(<< <<>> >>, a)
             two == Cross(one, b)
  <1>1. groups \in Seq(Seq(Seq(Signs))) BY DEF Group, Words
  <1>2. Len(groups) = 3 /\ groups[1] = a /\ groups[2] = b /\ groups[3] = c OBVIOUS
  <1> HIDE DEF groups
  <1>3. PICK walk \in [0..Len(groups) -> Seq(Seq(Signs))] :
           /\ walk[0] = << <<>> >> /\ walk[Len(groups)] = Product(groups)
           /\ \A i \in Nat : i + 1 \in 1..Len(groups) => walk[i + 1] = Cross(walk[i], groups[i + 1])
    BY <1>1, ProductWalks
  <1>4. PICK sizes \in [0..Len(groups) -> Nat] :
           /\ sizes[0] = 1 /\ sizes[Len(groups)] = Size(groups)
           /\ \A i \in Nat : i + 1 \in 1..Len(groups) => sizes[i + 1] = sizes[i] * Len(groups[i + 1])
    BY <1>1, SizeWalks
  <1>5. /\ 0 \in Nat /\ 0 + 1 = 1 /\ 0 + 1 \in 1..3 /\ 1 \in Nat /\ 1 + 1 = 2 /\ 1 + 1 \in 1..3
        /\ 2 \in Nat /\ 2 + 1 = 3 /\ 2 + 1 \in 1..3
    OBVIOUS
  <1>6. walk[1] = one BY <1>2, <1>3, <1>5
  <1>7. Group(one, m, A) /\ Len(one) = Len(a) /\ 1 * Len(a) = Len(a) BY OneGroup
  <1> HIDE DEF one
  <1>8. walk[2] = two BY <1>2, <1>3, <1>5, <1>6
  <1>9. Group(two, m + k, Joins(A, B)) /\ Len(two) = Len(one) * Len(b)
    <2>1. Group(one, m, A) BY <1>7
    <2>2. Group(two, m + k, Joins(A, B)) BY <2>1, CrossGroup
    <2>3. Len(two) = Len(one) * Len(b) BY <2>1, CrossSize
    <2>4. QED BY <2>2, <2>3
  <1> HIDE DEF two
  <1>10. Product(groups) = Cross(two, c) BY <1>2, <1>3, <1>5, <1>8
  <1>11. Size(groups) = (Len(a) * Len(b)) * Len(c)
    <2>1. sizes[1] = 1 * Len(a) BY <1>2, <1>4, <1>5
    <2>2. sizes[2] = sizes[1] * Len(b) BY <1>2, <1>4, <1>5
    <2>3. Size(groups) = sizes[2] * Len(c) BY <1>2, <1>4, <1>5
    <2>4. QED BY <1>7, <2>1, <2>2, <2>3
  <1>12. m + k \in Nat OBVIOUS
  <1>13. /\ Group(Cross(two, c), (m + k) + l, Joins(Joins(A, B), C))
         /\ Len(Cross(two, c)) = Len(two) * Len(c)
    <2>1. Group(two, m + k, Joins(A, B)) BY <1>9
    <2>2. Group(Cross(two, c), (m + k) + l, Joins(Joins(A, B), C)) BY <1>12, <2>1, CrossGroup
    <2>3. Len(Cross(two, c)) = Len(two) * Len(c) BY <2>1, CrossSize
    <2>4. QED BY <2>2, <2>3
  <1>14. Len(two) = Len(a) * Len(b) BY <1>7, <1>9
  <1>15. Len(Cross(two, c)) = (Len(a) * Len(b)) * Len(c) BY <1>13, <1>14
  <1>16. QED BY <1>10, <1>11, <1>13, <1>15 DEF IsProduct, groups

-----------------------------------------------------------------------------
(* What Slurm prints is read.                                              *)

\* The values of one section.
GroupOf(p) ==
  IF p.kind = "literal" THEN <<p.text>> ELSE IF p.kind = "spec" THEN StrictRangeValues(p.text) ELSE <<>>

\* The groups of a name are the values of its sections.
LEMMA GroupsAre ==
  ASSUME NEW name, NEW a, NEW b, NEW c
  PROVE  /\ Sections(name) = <<a>> => StrictGroups(name) = <<GroupOf(a)>>
         /\ Sections(name) = <<a, b>> => StrictGroups(name) = <<GroupOf(a), GroupOf(b)>>
         /\ Sections(name) = <<a, b, c>> => StrictGroups(name) = <<GroupOf(a), GroupOf(b), GroupOf(c)>>
  <1>1. StrictGroups(name) = [i \in DOMAIN Sections(name) |-> GroupOf(Sections(name)[i])] BY DEF StrictGroups, GroupOf
  <1>2. [i \in DOMAIN <<a>> |-> GroupOf(<<a>>[i])] = <<GroupOf(a)>>
    <2>1. DOMAIN <<a>> = 1..1 /\ <<a>>[1] = a OBVIOUS
    <2>2. [i \in 1..1 |-> GroupOf(<<a>>[i])] = [i \in 1..1 |-> GroupOf(a)] BY <2>1
    <2>3. [i \in 1..1 |-> GroupOf(a)] = <<GroupOf(a)>> OBVIOUS
    <2>4. QED BY <2>1, <2>2, <2>3
  <1>3. [i \in DOMAIN <<a, b>> |-> GroupOf(<<a, b>>[i])] = <<GroupOf(a), GroupOf(b)>> OBVIOUS
  <1>4. [i \in DOMAIN <<a, b, c>> |-> GroupOf(<<a, b, c>>[i])] = <<GroupOf(a), GroupOf(b), GroupOf(c)>> OBVIOUS
  <1>5. QED BY <1>1, <1>2, <1>3, <1>4

\* The values of a literal and of a spec.
LEMMA GroupsOfSections ==
  ASSUME NEW t PROVE GroupOf(Literal(t)) = <<t>> /\ GroupOf(Spec(t)) = StrictRangeValues(t)
  <1>1. Literal(t).kind = "literal" /\ Literal(t).text = t BY DEF Literal
  <1>2. Spec(t).kind = "spec" /\ Spec(t).text = t BY DEF Spec
  <1>3. Spec(t).kind # "literal" BY <1>2
  <1>4. QED BY <1>1, <1>2, <1>3 DEF GroupOf

\* Names of up to three groups are whole when none of these is empty.
LEMMA WholeIs ==
  ASSUME NEW a, NEW b, NEW c
  PROVE  /\ Whole(<<a, b>>) <=> a # <<>> /\ b # <<>>
         /\ Whole(<<a, b, c>>) <=> a # <<>> /\ b # <<>> /\ c # <<>>
         /\ Whole(<<a>>) <=> a # <<>>
  <1>1. DOMAIN <<a>> = 1..1 /\ <<a>>[1] = a /\ \A i \in 1..1 : i = 1 OBVIOUS
  <1>2. DOMAIN <<a, b>> = 1..2 /\ <<a, b>>[1] = a /\ <<a, b>>[2] = b /\ 1 \in 1..2 /\ 2 \in 1..2 /\ \A i \in 1..2 : i = 1 \/ i = 2
    OBVIOUS
  <1>3. /\ DOMAIN <<a, b, c>> = 1..3 /\ <<a, b, c>>[1] = a /\ <<a, b, c>>[2] = b /\ <<a, b, c>>[3] = c
        /\ 1 \in 1..3 /\ 2 \in 1..3 /\ 3 \in 1..3 /\ \A i \in 1..3 : i = 1 \/ i = 2 \/ i = 3
    OBVIOUS
  <1>4. <<a>> # <<>> /\ <<a, b>> # <<>> /\ <<a, b, c>> # <<>> OBVIOUS
  <1>5. Whole(<<a>>) <=> a # <<>> BY <1>1, <1>4 DEF Whole
  <1>6. Whole(<<a, b>>) <=> a # <<>> /\ b # <<>> BY <1>2, <1>4 DEF Whole
  <1>7. Whole(<<a, b, c>>) <=> a # <<>> /\ b # <<>> /\ c # <<>> BY <1>3, <1>4 DEF Whole
  <1>8. QED BY <1>5, <1>6, <1>7

\* The tails of the names Slurm prints, and what each stands for.
Tails == {<<>>, <<Dash, Letter>>, Bracket(1, 2, 1)}
TailNames(tail) ==
  IF tail = <<>> THEN {<<>>} ELSE IF tail[1].char = "[" THEN Numbers(1, 2, 1) ELSE {tail}

\* A tail is nothing, text, or a second bracket.
LEMMA TailCases ==
  ASSUME NEW tail \in Tails
  PROVE  /\ tail \in Lines /\ Level(tail)
         /\ \/ tail = <<>> /\ TailNames(tail) = {<<>>}
            \/ AllPlain(tail) /\ tail # <<>> /\ TailNames(tail) = {tail}
            \/ tail = Bracketed(Inner(1, 2, 1)) /\ TailNames(tail) = Numbers(1, 2, 1)
  <1>1. CASE tail = <<>>
    <2>1. AllPlain(<<>>) BY DEF AllPlain
    <2>2. <<>> \in Lines BY DEF Lines
    <2>3. TailNames(tail) = {<<>>} BY <1>1 DEF TailNames
    <2>4. QED BY <1>1, <2>1, <2>2, <2>3 DEF Level
  <1>2. CASE tail = <<Dash, Letter>>
    <2>1. Dash \in Glyphs /\ Letter \in Glyphs /\ Plain(Dash) /\ Plain(Letter) BY Signals
    <2> DEFINE t == <<Dash, Letter>>
    <2>2. t \in Lines BY <2>1 DEF Lines
    <2>3. Len(t) = 2 /\ t[1] = Dash /\ t[2] = Letter /\ t # <<>> OBVIOUS
    <2>4. \A i \in 1..2 : i = 1 \/ i = 2 OBVIOUS
    <2> HIDE DEF t
    <2>5. AllPlain(t) BY <2>1, <2>3, <2>4 DEF AllPlain
    <2>6. t[1].char # "[" BY <2>1, <2>3 DEF Plain
    <2>7. TailNames(t) = {t} BY <2>3, <2>6 DEF TailNames
    <2>8. tail = t BY <1>2 DEF t
    <2>9. QED BY <2>2, <2>3, <2>5, <2>7, <2>8 DEF Level
  <1>3. CASE tail = Bracket(1, 2, 1)
    <2> DEFINE u == Inner(1, 2, 1)
               t == Bracketed(u)
    <2>1. 1 \in Nat /\ 2 \in Nat /\ 1 \in Nat \ {0} OBVIOUS
    <2>2. tail = t /\ u \in Lines /\ AllPlain(u) BY <1>3, <2>1, BracketIs, InnerIs
    <2> HIDE DEF u
    <2>3. t \in Lines /\ Len(t) = Len(u) + 2 BY <2>2, BracketedType
    <2>4. t # <<>> /\ t[1].char = "["
      <3>1. Holds(t, 0, t) /\ 0 \in Nat /\ 0 + 1 = 1 BY <2>3, HoldsAll DEF Lines
      <3>2. t[0 + 1] = Opening
        <4>1. 0 \in Nat OBVIOUS
        <4>2. QED BY <2>2, <2>3, <3>1, <4>1, BracketHolds
      <3>3. Len(u) \in Nat BY <2>2 DEF Lines
      <3>4. Len(t) # 0 BY <2>3, <3>3
      <3>5. t # <<>> BY <3>4
      <3>6. Opening.char = "[" BY Signals
      <3>7. QED BY <3>1, <3>2, <3>5, <3>6
    <2> HIDE DEF t
    <2>5. TailNames(t) = Numbers(1, 2, 1) BY <2>4 DEF TailNames
    <2>6. Level(t) BY <2>2 DEF Level, t
    <2>7. QED BY <2>2, <2>3, <2>5, <2>6 DEF t, u
  <1>4. QED BY <1>1, <1>2, <1>3 DEF Tails

\* The hosts of a name, as Slurm means them.
Means(e, a, x) == \E p \in a, q \in x : e = (<<Letter>> \o p) \o q

\* A host of a name is its letter, a number and a value of the tail.
LEMMA NamedHas ==
  ASSUME NEW a, NEW x, NEW e PROVE e \in Named(a, x) <=> Means(e, a, x)
  <1> DEFINE l == <<Letter>>
             c(p, q) == (l \o p) \o q
  <1>1. Named(a, x) = {c(p, q) : p \in a, q \in x} BY DEF Named, Letter
  <1> HIDE DEF c
  <1>2. e \in Named(a, x) <=> \E p \in a, q \in x : e = c(p, q) BY <1>1
  <1>3. QED BY <1>2 DEF c, Means

\* A join is one value behind the other.
LEMMA JoinsHas == ASSUME NEW a, NEW x, NEW e PROVE e \in Joins(a, x) <=> \E p \in a, q \in x : e = p \o q
  BY DEF Joins

\* So the hosts of a name are what its groups make.
LEMMA NamedIs ==
  ASSUME NEW a, NEW x, a \subseteq Words
  PROVE  /\ Named(a, x) = Joins(Joins({<<Letter>>}, a), x)
         /\ Named(a, {<<>>}) = Joins({<<Letter>>}, a)
  <1> DEFINE l == <<Letter>>
             J == Joins({l}, a)
  <1>1. l \in Words
    <2>1. l \in Lines BY LettersAlone
    <2>2. l \in Seq(Signs) BY <2>1, GlyphsAreSigns DEF Lines
    <2>3. QED BY <2>2 DEF Words
  <1>2. \A e : e \in J <=> \E p \in a : e = l \o p
    <2> DEFINE S == {l}
    <2>1. \A o : o \in S <=> o = l OBVIOUS
    <2>2. J = Joins(S, a) OBVIOUS
    <2> HIDE DEF S, J, l
    <2>3. \A e : e \in J <=> \E o \in S, p \in a : e = o \o p BY <2>2, JoinsHas
    <2>4. ASSUME NEW e PROVE (\E o \in S, p \in a : e = o \o p) <=> \E p \in a : e = l \o p
      <3>1. ASSUME NEW o \in S, NEW p \in a, e = o \o p PROVE e = l \o p
        <4>1. o = l BY <2>1
        <4>2. QED BY <3>1, <4>1
      <3>2. ASSUME NEW p \in a, e = l \o p PROVE \E o \in S, q \in a : e = o \o q
        <4>1. l \in S BY <2>1
        <4>2. QED BY <3>2, <4>1
      <3>3. QED BY <3>1, <3>2
    <2>5. QED BY <2>3, <2>4
  <1>3. \A y, e : e \in Named(a, y) <=> \E p \in a, q \in y : e = (l \o p) \o q
    <2> SUFFICES ASSUME NEW y, NEW e PROVE e \in Named(a, y) <=> \E p \in a, q \in y : e = (<<Letter>> \o p) \o q
      OBVIOUS
    <2>1. e \in Named(a, y) <=> Means(e, a, y) BY NamedHas
    <2>2. QED BY <2>1 DEF Means
  <1>4. \A e : e \in Joins(J, x) <=> \E j \in J, q \in x : e = j \o q
    <2> HIDE DEF J
    <2>1. QED BY JoinsHas
  <1> HIDE DEF J, l
  <1>5. \A e : e \in Named(a, x) <=> e \in Joins(J, x)
    <2>1. ASSUME NEW e, e \in Named(a, x) PROVE e \in Joins(J, x)
      <3>1. PICK p \in a, q \in x : e = (l \o p) \o q BY <1>3, <2>1
      <3>2. l \o p \in J BY <1>2
      <3>3. QED BY <1>4, <3>1, <3>2
    <2>2. ASSUME NEW e, e \in Joins(J, x) PROVE e \in Named(a, x)
      <3>1. PICK j \in J, q \in x : e = j \o q BY <1>4, <2>2
      <3>2. PICK p \in a : j = l \o p BY <1>2, <3>1
      <3>3. e = (l \o p) \o q BY <3>1, <3>2
      <3>4. QED BY <1>3, <3>1, <3>2, <3>3
    <2>3. QED BY <2>1, <2>2
  <1>6. \A p \in a : (l \o p) \o <<>> = l \o p
    <2> SUFFICES ASSUME NEW p \in a PROVE (l \o p) \o <<>> = l \o p OBVIOUS
    <2>1. l \o p \in Seq(Signs) BY <1>1 DEF Words
    <2>2. QED BY <2>1
  <1>7. \A e : e \in Named(a, {<<>>}) <=> e \in J
    <2>1. \A e : e \in Named(a, {<<>>}) <=> \E p \in a : e = (l \o p) \o <<>>
      <3> DEFINE y == {<<>>}
      <3>1. \A q : q \in y <=> q = <<>> OBVIOUS
      <3> HIDE DEF y
      <3>2. \A e : e \in Named(a, y) <=> \E p \in a, q \in y : e = (l \o p) \o q BY <1>3
      <3>3. QED BY <3>1, <3>2 DEF y
    <2>2. QED BY <1>2, <1>6, <2>1
  <1>8. Named(a, x) = Joins(J, x) /\ Named(a, {<<>>}) = J
    <2> DEFINE N(y) == Named(a, y)
               K == Joins(J, x)
    <2>1. (\A e : e \in N(x) <=> e \in K) /\ (\A e : e \in N({<<>>}) <=> e \in J) BY <1>5, <1>7
    <2> HIDE DEF N, K
    <2>2. N(x) = K /\ N({<<>>}) = J BY <2>1
    <2>3. QED BY <2>2 DEF N, K
  <1>9. QED BY <1>8 DEF J, l

\* None of them is the name in the second place.
LEMMA PairIsOther ==
  ASSUME NEW lo \in Nat, NEW hi \in Nat, NEW w \in Nat \ {0}, NEW x, x \subseteq Words
  PROVE  Pair \notin Named(Numbers(lo, hi, w), x)
  <1> SUFFICES ASSUME Pair \in Named(Numbers(lo, hi, w), x) PROVE FALSE OBVIOUS
  <1>1. PICK p \in Numbers(lo, hi, w), q \in x : Pair = (<<Letter>> \o p) \o q
    <2> DEFINE e == Pair
               a == Numbers(lo, hi, w)
    <2>1. e \in Named(a, x) OBVIOUS
    <2> HIDE DEF e, a
    <2>2. Means(e, a, x) BY <2>1, NamedHas
    <2>3. QED BY <2>2 DEF Means, e, a
  <1>2. PICK i \in lo..hi : p = <<Num(i, w)>> BY DEF Numbers
  <1> DEFINE d == Num(i, w)
             l == Letter
  <1>3. d \in Signs /\ l \in Signs /\ d.char = "0" /\ l.char = "x"
    <2>1. i \in Nat OBVIOUS
    <2>2. d \in Glyphs /\ l \in Glyphs /\ l.char = "x" BY <2>1, NumeralType, Signals
    <2>3. d.char = "0" BY Digits
    <2>4. QED BY <2>2, <2>3, GlyphsAreSigns
  <1>4. <<l>> \o <<d>> = <<l, d>> BY InARow
  <1>5. Pair = <<l, d>> \o q BY <1>1, <1>2, <1>4
  <1>6. Pair = <<l, l>> BY DEF Pair
  <1> HIDE DEF d, l
  <1>7. q \in Seq(Signs) /\ <<l, d>> \in Seq(Signs) /\ <<l, l>> \in Seq(Signs) BY <1>3 DEF Words
  <1>8. Len(<<l, d>>) = Len(<<l, l>>) /\ <<>> \in Seq(Signs) OBVIOUS
  <1>9. <<l, l>> \o <<>> = <<l, d>> \o q
    <2>1. <<l, l>> \o <<>> = <<l, l>> OBVIOUS
    <2>2. QED BY <1>5, <1>6, <2>1
  <1>10. <<l, l>> = <<l, d>> BY <1>7, <1>8, <1>9, PartsOfJoin
  <1>11. l = d BY <1>10
  <1>12. QED BY <1>3, <1>11

\* What the strict reader makes of a name that stands for some values.
StandsFor(name, values) ==
  \E h, size :
    /\ Group(h, size, values)
    /\ Whole(StrictGroups(name)) =>
         Product(StrictGroups(name)) = h /\ Size(StrictGroups(name)) = Len(h) /\ Len(h) \in Nat
    /\ Whole(StrictGroups(name)) /\ Size(StrictGroups(name)) <= StrictLimit <=> Len(h) <= StrictLimit

\* A range has values up to the limit, and so has a name with it.
LEMMA RangeIsWhole ==
  ASSUME NEW lo \in Nat, NEW hi \in Nat, lo <= hi, NEW w \in Nat \ {0}
  PROVE  /\ StrictRangeValues(Inner(lo, hi, w)) # <<>> <=> Len(Padded(lo, hi, w)) <= StrictLimit
         /\ StrictRangeValues(Inner(lo, hi, w)) # <<>> => StrictRangeValues(Inner(lo, hi, w)) = Padded(lo, hi, w)
         /\ Len(Padded(lo, hi, w)) \in Nat \ {0}
  <1> DEFINE p == Padded(lo, hi, w)
             m == hi - lo + 1
  <1>1. StrictRangeValues(Inner(lo, hi, w)) = IF m <= StrictLimit THEN p ELSE <<>> BY RangeIsRead
  <1>2. Group(p, 1, Numbers(lo, hi, w)) /\ Len(p) = m BY RangeGroup
  <1>3. p # <<>> BY <1>2 DEF Group
  <1>4. m \in Nat \ {0} BY SMT
  <1> HIDE DEF p, m
  <1>5. QED BY <1>1, <1>2, <1>3, <1>4 DEF p

\* A product within a limit has its factors within it.
LEMMA Multiples ==
  ASSUME NEW limit \in Nat, NEW n \in Nat \ {0}, NEW k \in Nat \ {0}
  PROVE  /\ n <= n * k /\ k <= n * k /\ n * k \in Nat
         /\ 1 * n = n /\ n * 1 = n
         /\ n * k <= limit => n <= limit /\ k <= limit
  <1>1. n * k \in Nat /\ 1 * n = n /\ n * 1 = n OBVIOUS
  <1>2. n <= n * k /\ k <= n * k OBVIOUS
  <1> DEFINE m == n * k
  <1> HIDE DEF m
  <1>3. QED BY <1>1, <1>2 DEF m

\* The letter of a name is a group.
LEMMA LetterGroup ==
  /\ Group(<< <<Letter>> >>, 1, {<<Letter>>}) /\ Len(<< <<Letter>> >>) = 1 /\ << <<Letter>> >> # <<>>
  <1> DEFINE t == <<Letter>>
  <1>1. t \in Lines /\ Len(t) = 1 BY LettersAlone
  <1>2. t \in Seq(Signs) BY <1>1, GlyphsAreSigns DEF Lines
  <1> HIDE DEF t
  <1>3. t \in Words BY <1>2 DEF Words
  <1>4. Group(<<t>>, Len(t), {t}) BY <1>3, OneInGroup
  <1>5. Len(<<t>>) = 1 /\ <<t>> # <<>> OBVIOUS
  <1>6. QED BY <1>1, <1>4, <1>5 DEF t

\* A name with nothing behind its bracket.
LEMMA BareStands ==
  ASSUME NEW lo \in Nat, NEW hi \in Nat, lo <= hi, NEW w \in Nat \ {0}
  PROVE  StandsFor(Name(Inner(lo, hi, w), <<>>), Joins({<<Letter>>}, Numbers(lo, hi, w)))
  <1> DEFINE name == Name(Inner(lo, hi, w), <<>>)
             N == Numbers(lo, hi, w)
             g == StrictRangeValues(Inner(lo, hi, w))
             p == Padded(lo, hi, w)
             l == << <<Letter>> >>
             n == Len(p)
             h == Product(<<l, p>>)
  <1>1. StrictGroups(name) = <<l, g>>
    <2> DEFINE spec == Inner(lo, hi, w)
    <2>1. spec \in Lines /\ AllPlain(spec) BY InnerIs
    <2> HIDE DEF spec
    <2>2. <<>> \in Lines BY DEF Lines
    <2>3. Sections(Name(spec, <<>>)) = <<Literal(<<Letter>>), Spec(spec)>> BY <2>1, <2>2, NameSections
    <2>4. StrictGroups(Name(spec, <<>>)) = <<GroupOf(Literal(<<Letter>>)), GroupOf(Spec(spec))>> BY <2>3, GroupsAre
    <2>5. QED BY <2>4, GroupsOfSections DEF spec
  <1>2. (g # <<>> <=> n <= StrictLimit) /\ (g # <<>> => g = p) /\ n \in Nat \ {0} BY RangeIsWhole
  <1>3. Group(p, 1, N) BY RangeGroup
  <1>4. Group(l, 1, {<<Letter>>}) /\ Len(l) = 1 /\ l # <<>> BY LetterGroup
  <1> HIDE DEF name, N, g, p, l
  <1>5. Group(h, 1 + 1, Joins({<<Letter>>}, N)) /\ Len(h) = Len(l) * n /\ Size(<<l, p>>) = Len(l) * n
    <2> DEFINE one == 1
               S == {<<Letter>>}
    <2>1. one \in Nat /\ Group(l, one, S) /\ Group(p, one, N) BY <1>3, <1>4
    <2> HIDE DEF one, S, h
    <2>2. IsProduct(<<l, p>>, one + one, Joins(S, N), Len(l) * n) BY <2>1, ProductOfTwo
    <2>3. QED BY <2>2 DEF IsProduct, one, S, h
  <1>6. Len(l) * n = n
    <2> HIDE DEF n
    <2>1. QED BY <1>2, <1>4
  <1> HIDE DEF h, n
  <1>7. Whole(StrictGroups(name)) <=> g # <<>> BY <1>1, <1>4, WholeIs
  <1>8. ASSUME g # <<>> PROVE StrictGroups(name) = <<l, p>> BY <1>1, <1>2, <1>8
  <1>9. Whole(StrictGroups(name)) =>
          Product(StrictGroups(name)) = h /\ Size(StrictGroups(name)) = Len(h) /\ Len(h) \in Nat
    BY <1>2, <1>5, <1>6, <1>7, <1>8 DEF h
  <1>10. Whole(StrictGroups(name)) /\ Size(StrictGroups(name)) <= StrictLimit <=> Len(h) <= StrictLimit
    BY <1>2, <1>5, <1>6, <1>7, <1>9
  <1>11. StandsFor(name, Joins({<<Letter>>}, N)) BY <1>5, <1>9, <1>10 DEF StandsFor
  <1>12. QED BY <1>11 DEF name, N

\* Three groups of which the first two have values of one token.
LEMMA OfThree ==
  ASSUME NEW l, NEW S, Group(l, 1, S), NEW p, NEW N, Group(p, 1, N), NEW q, NEW T, NEW size \in Nat, Group(q, size, T)
  PROVE  IsProduct(<<l, p, q>>, (1 + 1) + size, Joins(Joins(S, N), T), (Len(l) * Len(p)) * Len(q))
  <1> DEFINE one == 1
  <1>1. one \in Nat /\ Group(l, one, S) /\ Group(p, one, N) OBVIOUS
  <1> HIDE DEF one
  <1>2. IsProduct(<<l, p, q>>, (one + one) + size, Joins(Joins(S, N), T), (Len(l) * Len(p)) * Len(q))
    BY <1>1, ProductOfThree
  <1>3. QED BY <1>2 DEF one

\* A name with one more group behind its bracket: the text of its tail, or a second range.
LEMMA TailStands ==
  ASSUME NEW lo \in Nat, NEW hi \in Nat, lo <= hi, NEW w \in Nat \ {0},
         NEW tail, NEW g, NEW q, NEW T, NEW size \in Nat, Group(q, size, T),
         StrictGroups(Name(Inner(lo, hi, w), tail)) = << << <<Letter>> >>, StrictRangeValues(Inner(lo, hi, w)), g>>,
         g # <<>> => g = q, Len(q) \in Nat \ {0}, Len(q) <= StrictLimit => g # <<>>
  PROVE  StandsFor(Name(Inner(lo, hi, w), tail), Joins(Joins({<<Letter>>}, Numbers(lo, hi, w)), T))
  <1> DEFINE name == Name(Inner(lo, hi, w), tail)
             N == Numbers(lo, hi, w)
             f == StrictRangeValues(Inner(lo, hi, w))
             p == Padded(lo, hi, w)
             l == << <<Letter>> >>
             n == Len(p)
             m == Len(q)
             h == Product(<<l, p, q>>)
  <1>1. (f # <<>> <=> n <= StrictLimit) /\ (f # <<>> => f = p) /\ n \in Nat \ {0} BY RangeIsWhole
  <1>2. Group(p, 1, N) BY RangeGroup
  <1>3. Group(l, 1, {<<Letter>>}) /\ Len(l) = 1 /\ l # <<>> BY LetterGroup
  <1>4. StrictGroups(name) = <<l, f, g>> OBVIOUS
  <1> HIDE DEF name, N, f, p, l
  <1>5. /\ Group(h, (1 + 1) + size, Joins(Joins({<<Letter>>}, N), T))
        /\ Len(h) = (Len(l) * n) * m /\ Size(<<l, p, q>>) = (Len(l) * n) * m
    <2>1. IsProduct(<<l, p, q>>, (1 + 1) + size, Joins(Joins({<<Letter>>}, N), T), (Len(l) * Len(p)) * Len(q))
      BY <1>2, <1>3, OfThree
    <2>2. QED BY <2>1 DEF IsProduct
  <1>6. m \in Nat \ {0} OBVIOUS
  <1> HIDE DEF n, m
  <1>7. StrictLimit \in Nat BY ListAssumption
  <1>8. (Len(l) * n) * m = n * m
    <2>1. 1 * n = n BY <1>1
    <2>2. QED BY <1>3, <2>1
  <1>9. n * m \in Nat /\ (n * m <= StrictLimit => n <= StrictLimit /\ m <= StrictLimit) BY <1>1, <1>6, <1>7, Multiples
  <1> HIDE DEF h
  <1>10. Len(h) \in Nat /\ Len(h) = Size(<<l, p, q>>) /\ (Len(h) <= StrictLimit => f # <<>> /\ g # <<>>)
    BY <1>1, <1>5, <1>8, <1>9 DEF m
  <1>11. Whole(StrictGroups(name)) <=> f # <<>> /\ g # <<>> BY <1>3, <1>4, WholeIs
  <1>12. ASSUME f # <<>>, g # <<>> PROVE StrictGroups(name) = <<l, p, q>> BY <1>1, <1>4, <1>12
  <1>13. Whole(StrictGroups(name)) =>
           Product(StrictGroups(name)) = h /\ Size(StrictGroups(name)) = Len(h) /\ Len(h) \in Nat
    BY <1>10, <1>11, <1>12 DEF h
  <1>14. Whole(StrictGroups(name)) /\ Size(StrictGroups(name)) <= StrictLimit <=> Len(h) <= StrictLimit
    BY <1>10, <1>11, <1>13
  <1>15. StandsFor(name, Joins(Joins({<<Letter>>}, N), T)) BY <1>5, <1>13, <1>14 DEF StandsFor
  <1>16. QED BY <1>15 DEF name, N

\* What Slurm means by a name is what the strict reader makes of it, up to the limit.
LEMMA NameStands ==
  ASSUME NEW lo \in Nat, NEW hi \in Nat, lo <= hi, NEW w \in Nat \ {0}, NEW tail \in Tails
  PROVE  StandsFor(Name(Inner(lo, hi, w), tail), Named(Numbers(lo, hi, w), TailNames(tail)))
  <1> DEFINE spec == Inner(lo, hi, w)
             N == Numbers(lo, hi, w)
             T == TailNames(tail)
             l == <<Letter>>
             s == Literal(l)
  <1>1. spec \in Lines /\ AllPlain(spec) BY InnerIs
  <1>2. \A k \in Nat, v \in Nat \ {0} : <<Num(k, v)>> \in Words
    <2> SUFFICES ASSUME NEW k \in Nat, NEW v \in Nat \ {0} PROVE <<Num(k, v)>> \in Words OBVIOUS
    <2>1. <<Num(k, v)>> \in Lines BY NumeralType
    <2>2. QED BY <2>1, GlyphsAreSigns DEF Lines, Words
  <1>3. N \subseteq Words BY <1>2 DEF Numbers
  <1>4. Named(N, T) = Joins(Joins({l}, N), T) /\ Named(N, {<<>>}) = Joins({l}, N) BY <1>3, NamedIs
  <1>5. tail \in Lines BY TailCases
  <1>6. CASE tail = <<>> /\ T = {<<>>} BY <1>4, <1>6, BareStands
  <1>7. CASE AllPlain(tail) /\ tail # <<>> /\ T = {tail}
    <2> DEFINE q == <<tail>>
    <2>1. tail \in Words BY <1>5, GlyphsAreSigns DEF Lines, Words
    <2>2. Len(tail) \in Nat BY <1>5 DEF Lines
    <2>3. Group(q, Len(tail), T) BY <1>7, <2>1, OneInGroup
    <2>4. Sections(Name(spec, tail)) = <<s, Spec(spec), Literal(tail)>>
      <3> HIDE DEF spec, T
      <3>1. QED BY <1>1, <1>5, <1>7, NameSections
    <2>5. StrictGroups(Name(spec, tail)) = <<GroupOf(s), GroupOf(Spec(spec)), GroupOf(Literal(tail))>>
      BY <2>4, GroupsAre
    <2>6. StrictGroups(Name(spec, tail)) = << <<l>>, StrictRangeValues(spec), q>> BY <2>5, GroupsOfSections
    <2>7. q # <<>> /\ Len(q) = 1 /\ Len(q) \in Nat \ {0} OBVIOUS
    <2> HIDE DEF q
    <2>8. StandsFor(Name(spec, tail), Joins(Joins({l}, N), T)) BY <2>2, <2>3, <2>6, <2>7, TailStands
    <2>9. QED BY <1>4, <2>8
  <1>8. CASE tail = Bracketed(Inner(1, 2, 1)) /\ T = Numbers(1, 2, 1)
    <2> DEFINE u == Inner(1, 2, 1)
               q == Padded(1, 2, 1)
               g == StrictRangeValues(u)
    <2>1. 1 \in Nat /\ 2 \in Nat /\ 1 \in Nat \ {0} /\ 1 <= 2 OBVIOUS
    <2>2. Group(q, 1, T) BY <1>8, <2>1, RangeGroup
    <2>3. (g # <<>> <=> Len(q) <= StrictLimit) /\ (g # <<>> => g = q) /\ Len(q) \in Nat \ {0} BY <2>1, RangeIsWhole
    <2>4. u \in Lines /\ AllPlain(u) BY <2>1, InnerIs
    <2> HIDE DEF u, q
    <2>5. Sections(Name(spec, tail)) = <<s, Spec(spec), Spec(u)>>
      <3>1. tail = Bracketed(u) BY <1>8 DEF u
      <3> HIDE DEF spec, T
      <3>2. QED BY <1>1, <1>5, <2>4, <3>1, NameSections
    <2>6. StrictGroups(Name(spec, tail)) = <<GroupOf(s), GroupOf(Spec(spec)), GroupOf(Spec(u))>>
      BY <2>5, GroupsAre
    <2>7. StrictGroups(Name(spec, tail)) = << <<l>>, StrictRangeValues(spec), g>> BY <2>6, GroupsOfSections
    <2> HIDE DEF g
    <2>8. StandsFor(Name(spec, tail), Joins(Joins({l}, N), T)) BY <2>1, <2>2, <2>3, <2>7, TailStands
    <2>9. QED BY <1>4, <2>8
  <1>9. QED BY <1>6, <1>7, <1>8, TailCases

\* Different values are as many as they are.
LEMMA AsMany ==
  ASSUME NEW h \in Seq(Words), IsInjective(h)
  PROVE  Cardinality(ToSet(h)) = Len(h)
  <1> DEFINE n == Len(h)
             T == ToSet(h)
             f == [i \in 1..n |-> h[i]]
  <1>1. n \in Nat /\ DOMAIN h = 1..n OBVIOUS
  <1>2. T = {h[i] : i \in 1..n} BY <1>1 DEF ToSet
  <1>3. \A i, j \in 1..n : h[i] = h[j] => i = j BY <1>1 DEF IsInjective
  <1> HIDE DEF n, T
  <1>4. f \in [1..n -> T] BY <1>2
  <1>5. f \in Surjection(1..n, T) BY <1>2, <1>4 DEF Surjection
  <1>6. f \in Injection(1..n, T) BY <1>3, <1>4 DEF Injection, IsInjective
  <1>7. IsFiniteSet(1..n) /\ Cardinality(1..n) = n
    <2>1. 1 \in Int /\ n \in Int BY <1>1
    <2>2. IsFiniteSet(1..n) /\ Cardinality(1..n) = IF 1 > n THEN 0 ELSE n - 1 + 1 BY <2>1, FS_Interval
    <2>3. QED BY <1>1, <2>2
  <1> HIDE DEF f
  <1>8. Cardinality(T) = Cardinality(1..n) BY <1>5, <1>6, <1>7, FS_Surjection
  <1>9. QED BY <1>7, <1>8 DEF n, T

\* What a line that names these hosts, all different, is read as.
Answered(s, values) ==
  IF Cardinality(values) <= StrictLimit
  THEN StrictExpandNodes(s) = [ok |-> TRUE, values |-> values] ELSE ~StrictExpandNodes(s).ok

\* A line whose names make different hosts, and fit if they are within the limit.
LEMMA AnsweredIf ==
  ASSUME NEW s \in Lines, s # <<>>, NEW h \in Seq(Words), h # <<>>, IsInjective(h),
         Fits(SplitTopLevel(s)) <=> Len(h) <= StrictLimit,
         Fits(SplitTopLevel(s)) => StrictHosts(SplitTopLevel(s)) = h
  PROVE  Answered(s, ToSet(h))
  <1> DEFINE names == SplitTopLevel(s)
             hosts == StrictHosts(names)
             strict == StrictExpandNodes(s)
  <1>1. strict = IF Fits(names) /\ hosts # <<>> /\ IsInjective(hosts) THEN [ok |-> TRUE, values |-> ToSet(hosts)] ELSE Reject
    BY StrictIs
  <1>2. Cardinality(ToSet(h)) = Len(h) BY AsMany
  <1>3. (Fits(names) <=> Len(h) <= StrictLimit) /\ (Fits(names) => hosts = h) OBVIOUS
  <1> HIDE DEF names, hosts, strict
  <1>4. ASSUME Len(h) <= StrictLimit PROVE strict = [ok |-> TRUE, values |-> ToSet(h)]
    BY <1>1, <1>3, <1>4
  <1>5. ASSUME ~(Len(h) <= StrictLimit) PROVE ~strict.ok
    <2>1. strict = Reject BY <1>1, <1>3, <1>5
    <2>2. QED BY <2>1 DEF Reject
  <1>6. QED BY <1>2, <1>4, <1>5 DEF Answered, strict

\* The sum of one size.
LEMMA SumOfOne == ASSUME NEW n \in Nat PROVE SumFunction([i \in 1..1 |-> n]) = n
  <1> DEFINE g == [i \in 1..1 |-> n]
             D == 1..1
  <1>1. D = {1} /\ DOMAIN g = D /\ g \in [D -> Nat] /\ g[1] = n OBVIOUS
  <1>2. IsFiniteSet(D)
    <2>1. 1 \in Int OBVIOUS
    <2>2. QED BY <2>1, FS_Interval
  <1> HIDE DEF g, D
  <1>3. /\ SumFunctionOnSet(g, {}) = 0
        /\ \A s \in SUBSET D : \A x \in s : SumFunctionOnSet(g, s) = g[x] + SumFunctionOnSet(g, s \ {x})
    <2>1. g \in [D -> Nat] BY <1>1
    <2>2. IsSum(g, D) BY <1>2, <2>1, Sums
    <2>3. QED BY <2>2 DEF IsSum
  <1>4. D \in SUBSET D /\ 1 \in D /\ D \ {1} = {} BY <1>1
  <1>5. SumFunctionOnSet(g, D) = g[1] + SumFunctionOnSet(g, {}) BY <1>3, <1>4
  <1>6. SumFunction(g) = n BY <1>1, <1>3, <1>5 DEF SumFunction
  <1>7. QED BY <1>6 DEF g

\* Hosts of two names, if no host is in both.
LEMMA BothApart ==
  ASSUME NEW h \in Seq(Words), IsInjective(h), NEW q \in Seq(Words), IsInjective(q), ToSet(h) \cap ToSet(q) = {}
  PROVE  /\ h \o q \in Seq(Words) /\ Len(h \o q) = Len(h) + Len(q)
         /\ IsInjective(h \o q) /\ ToSet(h \o q) = ToSet(h) \cup ToSet(q)
  <1> DEFINE c == h \o q
             n == Len(h)
             k == Len(q)
  <1>1. c \in Seq(Words) /\ Len(c) = n + k /\ \A i \in 1..(n + k) : c[i] = IF i <= n THEN h[i] ELSE q[i - n]
    BY ConcatProperties
  <1>2. n \in Nat /\ k \in Nat /\ DOMAIN h = 1..n /\ DOMAIN q = 1..k OBVIOUS
  <1> HIDE DEF c
  <1>3. DOMAIN c = 1..(n + k) BY <1>1
  <1>4. \A i, j \in 1..n : h[i] = h[j] => i = j BY <1>2 DEF IsInjective
  <1>5. \A i, j \in 1..k : q[i] = q[j] => i = j BY <1>2 DEF IsInjective
  <1>6. ToSet(h) = {h[i] : i \in 1..n} /\ ToSet(q) = {q[i] : i \in 1..k} /\ ToSet(c) = {c[i] : i \in 1..(n + k)}
    BY <1>2, <1>3 DEF ToSet
  <1>7. \A i \in 1..n, j \in 1..k : h[i] # q[j] BY <1>6
  <1> HIDE DEF n, k
  <1>8. \A i \in 1..(n + k) : (i \in 1..n /\ c[i] = h[i]) \/ (i - n \in 1..k /\ c[i] = q[i - n])
    <2> SUFFICES ASSUME NEW i \in 1..(n + k)
                 PROVE  (i \in 1..n /\ c[i] = h[i]) \/ (i - n \in 1..k /\ c[i] = q[i - n])
      OBVIOUS
    <2>1. (i <= n /\ i \in 1..n) \/ (~(i <= n) /\ i - n \in 1..k) BY <1>2
    <2>2. QED BY <1>1, <2>1
  <1>9. \A i, j \in 1..(n + k) : c[i] = c[j] => i = j
    <2> SUFFICES ASSUME NEW i \in 1..(n + k), NEW j \in 1..(n + k), c[i] = c[j] PROVE i = j OBVIOUS
    <2>1. CASE i \in 1..n /\ c[i] = h[i]
      <3>1. j \in 1..n /\ c[j] = h[j] BY <1>7, <1>8, <2>1
      <3>2. QED BY <1>4, <2>1, <3>1
    <2>2. CASE i - n \in 1..k /\ c[i] = q[i - n]
      <3>1. j - n \in 1..k /\ c[j] = q[j - n] BY <1>7, <1>8, <2>2
      <3>2. i - n = j - n BY <1>5, <2>2, <3>1
      <3>3. QED BY <1>2, <3>2
    <2>3. QED BY <1>8, <2>1, <2>2
  <1>10. IsInjective(c) BY <1>3, <1>9 DEF IsInjective
  <1>11. ToSet(c) = ToSet(h) \cup ToSet(q)
    <2>1. ASSUME NEW e \in ToSet(c) PROVE e \in ToSet(h) \cup ToSet(q)
      <3>1. PICK i \in 1..(n + k) : e = c[i] BY <1>6
      <3>2. QED BY <1>6, <1>8, <3>1
    <2>2. ASSUME NEW e \in ToSet(h) PROVE e \in ToSet(c)
      <3>1. PICK i \in 1..n : e = h[i] BY <1>6
      <3>2. i \in 1..(n + k) /\ i <= n BY <1>2
      <3>3. c[i] = h[i] BY <1>1, <3>2
      <3>4. QED BY <1>6, <3>1, <3>2, <3>3
    <2>3. ASSUME NEW e \in ToSet(q) PROVE e \in ToSet(c)
      <3>1. PICK i \in 1..k : e = q[i] BY <1>6
      <3>2. n + i \in 1..(n + k) /\ ~(n + i <= n) /\ (n + i) - n = i BY <1>2
      <3>3. c[n + i] = q[i] BY <1>1, <3>2
      <3>4. QED BY <1>6, <3>1, <3>2, <3>3
    <2>4. QED BY <2>1, <2>2, <2>3
  <1>12. QED BY <1>1, <1>10, <1>11 DEF c, n, k

\* A line of one name.
LEMMA OneNameRead ==
  ASSUME NEW name \in Lines, name # <<>>, SplitTopLevel(name) = <<name>>, NEW values, StandsFor(name, values)
  PROVE  Answered(name, values)
  <1> DEFINE g == StrictGroups(name)
             names == <<name>>
  <1>1. PICK h, size :
          /\ Group(h, size, values)
          /\ Whole(g) => Product(g) = h /\ Size(g) = Len(h) /\ Len(h) \in Nat
          /\ Whole(g) /\ Size(g) <= StrictLimit <=> Len(h) <= StrictLimit
    BY DEF StandsFor
  <1>2. h \in Seq(Words) /\ h # <<>> /\ IsInjective(h) BY <1>1 DEF Group
  <1>3. values = ToSet(h)
    <2>1. DOMAIN h = 1..Len(h) BY <1>2
    <2>2. QED BY <1>1, <2>1 DEF Group, ToSet
  <1>4. DOMAIN names = 1..1 /\ names[1] = name /\ \A i \in 1..1 : i = 1 /\ 1 \in 1..1 OBVIOUS
  <1> HIDE DEF names
  <1>5. (\A i \in DOMAIN names : Whole(StrictGroups(names[i]))) <=> Whole(g) BY <1>4
  <1>6. ASSUME Whole(g) PROVE SumFunction([i \in DOMAIN names |-> Size(StrictGroups(names[i]))]) = Size(g)
    <2> DEFINE n == Size(g)
    <2>1. n \in Nat BY <1>1, <1>6
    <2>2. [i \in DOMAIN names |-> Size(StrictGroups(names[i]))] = [i \in 1..1 |-> n] BY <1>4
    <2> HIDE DEF n, g
    <2>3. SumFunction([i \in 1..1 |-> n]) = n BY <2>1, SumOfOne
    <2>4. QED BY <2>2, <2>3 DEF n
  <1>7. ASSUME Whole(g) PROVE StrictHosts(names) = h
    <2>1. [i \in DOMAIN names |-> Product(StrictGroups(names[i]))] = [i \in 1..1 |-> h] BY <1>1, <1>4, <1>7
    <2>2. [i \in 1..1 |-> h] = <<h>> OBVIOUS
    <2>3. FlattenSeq(<<h>>) = h BY <1>2, FlattenOne
    <2>4. QED BY <2>1, <2>2, <2>3 DEF StrictHosts
  <1> HIDE DEF g
  <1>8. Fits(names) <=> Whole(g) /\ Size(g) <= StrictLimit BY <1>5, <1>6 DEF Fits
  <1>9. Fits(names) <=> Len(h) <= StrictLimit BY <1>1, <1>8
  <1>10. Fits(names) => StrictHosts(names) = h BY <1>7, <1>8
  <1>11. SplitTopLevel(name) = names BY DEF names
  <1>12. Answered(name, ToSet(h)) BY <1>2, <1>9, <1>10, <1>11, AnsweredIf
  <1>13. QED BY <1>3, <1>12

\* The second name is one host.
LEMMA PairRead ==
  /\ Pair \in Words /\ Whole(StrictGroups(Pair)) /\ Size(StrictGroups(Pair)) = 1
  /\ Product(StrictGroups(Pair)) \in Seq(Words) /\ IsInjective(Product(StrictGroups(Pair)))
  /\ Len(Product(StrictGroups(Pair))) = 1 /\ ToSet(Product(StrictGroups(Pair))) = {Pair}
  <1> DEFINE t == Pair
             a == <<t>>
             h == Product(<<a>>)
  <1>1. t \in Lines /\ Len(t) = 2 BY LettersAlone
  <1>2. t \in Words BY <1>1, GlyphsAreSigns DEF Lines, Words
  <1>3. StrictGroups(t) = <<a>>
    <2>1. Sections(t) = <<Literal(t)>> BY PairSections
    <2>2. StrictGroups(t) = <<GroupOf(Literal(t))>> BY <2>1, GroupsAre
    <2>3. QED BY <2>2, GroupsOfSections
  <1> HIDE DEF t
  <1>4. Group(a, Len(t), {t}) BY <1>2, OneInGroup
  <1>5. a # <<>> /\ Len(a) = 1 OBVIOUS
  <1>6. Len(t) \in Nat BY <1>1
  <1> HIDE DEF a
  <1>7. IsProduct(<<a>>, Len(t), {t}, Len(a)) BY <1>4, <1>6, ProductOfOne
  <1>8. Group(h, Len(t), {t}) /\ Len(h) = 1 /\ Size(<<a>>) = 1 BY <1>5, <1>7 DEF IsProduct
  <1> HIDE DEF h
  <1>9. Whole(<<a>>) BY <1>5, WholeIs
  <1>10. h \in Seq(Words) /\ IsInjective(h) /\ {t} = {h[i] : i \in 1..Len(h)} BY <1>8 DEF Group
  <1>11. ToSet(h) = {t}
    <2>1. DOMAIN h = 1..Len(h) BY <1>10
    <2>2. QED BY <1>10, <2>1 DEF ToSet
  <1>12. QED BY <1>2, <1>3, <1>8, <1>9, <1>10, <1>11 DEF h, t

\* A line of a name and the second one.
LEMMA TwoNamesRead ==
  ASSUME NEW s \in Lines, s # <<>>, NEW name, SplitTopLevel(s) = <<name, Pair>>,
         NEW values, StandsFor(name, values), Pair \notin values
  PROVE  Answered(s, values \cup {Pair})
  <1> DEFINE g == StrictGroups(name)
             q == Product(StrictGroups(Pair))
             names == <<name, Pair>>
  <1>1. PICK h, size :
          /\ Group(h, size, values)
          /\ Whole(g) => Product(g) = h /\ Size(g) = Len(h) /\ Len(h) \in Nat
          /\ Whole(g) /\ Size(g) <= StrictLimit <=> Len(h) <= StrictLimit
    BY DEF StandsFor
  <1> DEFINE c == h \o q
  <1>2. h \in Seq(Words) /\ h # <<>> /\ IsInjective(h) BY <1>1 DEF Group
  <1>3. values = ToSet(h)
    <2>1. DOMAIN h = 1..Len(h) BY <1>2
    <2>2. QED BY <1>1, <2>1 DEF Group, ToSet
  <1>4. /\ Whole(StrictGroups(Pair)) /\ Size(StrictGroups(Pair)) = 1
        /\ q \in Seq(Words) /\ IsInjective(q) /\ Len(q) = 1 /\ ToSet(q) = {Pair}
    BY PairRead
  <1>5. DOMAIN names = {1, 2} /\ names[1] = name /\ names[2] = Pair /\ 1 # 2 OBVIOUS
  <1> HIDE DEF names, g, q
  <1>6. c \in Seq(Words) /\ Len(c) = Len(h) + 1 /\ IsInjective(c) /\ ToSet(c) = values \cup {Pair}
    <2>1. ToSet(h) \cap ToSet(q) = {} BY <1>3, <1>4
    <2>2. c \in Seq(Words) /\ Len(c) = Len(h) + Len(q) /\ IsInjective(c) /\ ToSet(c) = ToSet(h) \cup ToSet(q)
      BY <1>2, <1>4, <2>1, BothApart
    <2>3. QED BY <1>3, <1>4, <2>2
  <1> HIDE DEF c
  <1>7. Len(h) \in Nat BY <1>2
  <1>8. c # <<>>
    <2>1. Len(c) # 0 BY <1>6, <1>7
    <2>2. QED BY <2>1
  <1>9. (\A i \in DOMAIN names : Whole(StrictGroups(names[i]))) <=> Whole(g) BY <1>4, <1>5 DEF g
  <1>10. ASSUME Whole(g) PROVE SumFunction([i \in DOMAIN names |-> Size(StrictGroups(names[i]))]) = Len(c)
    <2> DEFINE f == [i \in {1, 2} |-> Size(StrictGroups(names[i]))]
    <2>1. f[1] = Len(h) /\ f[2] = 1 BY <1>1, <1>4, <1>5, <1>10 DEF g
    <2>2. f \in [{1, 2} -> Nat] BY <1>7, <2>1
    <2>3. [i \in DOMAIN names |-> Size(StrictGroups(names[i]))] = f BY <1>5
    <2> HIDE DEF f
    <2>4. SumFunction(f) = f[1] + f[2] BY <1>5, <2>2, SumOfTwo
    <2>5. QED BY <1>6, <2>1, <2>3, <2>4
  <1>11. ASSUME Whole(g) PROVE StrictHosts(names) = c
    <2> DEFINE P(i) == Product(StrictGroups(names[i]))
    <2>1. P(1) = h /\ P(2) = q BY <1>1, <1>5, <1>11 DEF g, q
    <2>2. [i \in DOMAIN names |-> P(i)] = <<P(1), P(2)>>
      <3>1. DOMAIN names = 1..2 BY <1>5
      <3> HIDE DEF P
      <3>2. [i \in 1..2 |-> P(i)] = <<P(1), P(2)>> OBVIOUS
      <3>3. QED BY <3>1, <3>2
    <2>3. StrictHosts(names) = FlattenSeq([i \in DOMAIN names |-> P(i)]) BY DEF StrictHosts
    <2> HIDE DEF P
    <2>4. StrictHosts(names) = FlattenSeq(<<h, q>>) BY <2>1, <2>2, <2>3
    <2>5. FlattenSeq(<<h, q>>) = h \o q BY <1>2, <1>4, FlattenTwo
    <2>6. QED BY <2>4, <2>5 DEF c
  <1>12. ASSUME Len(c) <= StrictLimit PROVE Whole(g)
    <2>1. StrictLimit \in Nat BY ListAssumption
    <2>2. Len(h) <= StrictLimit BY <1>6, <1>7, <1>12, <2>1
    <2>3. QED BY <1>1, <2>2
  <1>13. Fits(names) <=> Len(c) <= StrictLimit BY <1>9, <1>10, <1>12 DEF Fits
  <1>14. Fits(names) => StrictHosts(names) = c BY <1>9, <1>11 DEF Fits
  <1>15. SplitTopLevel(s) = names BY DEF names
  <1>16. Answered(s, ToSet(c)) BY <1>6, <1>8, <1>13, <1>14, <1>15, AnsweredIf
  <1>17. QED BY <1>6, <1>16

\* What Slurm prints is read as what it means.
LEMMA PrintedIsAnswered ==
  ASSUME NEW lo \in Nat, NEW hi \in Nat, lo <= hi, NEW w \in Nat \ {0}, NEW tail \in Tails
  PROVE  /\ Answered(Name(Inner(lo, hi, w), tail), Named(Numbers(lo, hi, w), TailNames(tail)))
         /\ Answered(Name(Inner(lo, hi, w), tail) \o Second,
                     Named(Numbers(lo, hi, w), TailNames(tail)) \cup {Pair})
  <1> DEFINE spec == Inner(lo, hi, w)
             T == TailNames(tail)
             values == Named(Numbers(lo, hi, w), T)
             name == Name(spec, tail)
             s == name \o Second
  <1>1. spec \in Lines /\ AllPlain(spec) BY InnerIs
  <1>2. tail \in Lines /\ Level(tail) BY TailCases
  <1>3. StandsFor(name, values) BY NameStands
  <1>4. T \subseteq Words
    <2>1. 1 \in Nat /\ 2 \in Nat /\ 1 \in Nat \ {0} /\ 1 <= 2 OBVIOUS
    <2>2. Group(Padded(1, 2, 1), 1, Numbers(1, 2, 1)) BY <2>1, RangeGroup
    <2> DEFINE p == Padded(1, 2, 1)
    <2>3. \A i \in 1..Len(p) : p[i] \in Words
      <3>1. p \in Seq(Words) BY <2>2 DEF Group
      <3> HIDE DEF p
      <3>2. QED BY <3>1
    <2>4. Numbers(1, 2, 1) = {p[i] : i \in 1..Len(p)} BY <2>2 DEF Group
    <2> HIDE DEF p
    <2>5. Numbers(1, 2, 1) \subseteq Words BY <2>3, <2>4
    <2>6. tail \in Words BY <1>2, GlyphsAreSigns DEF Lines, Words
    <2>7. <<>> \in Words BY DEF Words
    <2> HIDE DEF T
    <2>8. T = {<<>>} \/ T = {tail} \/ T = Numbers(1, 2, 1) BY TailCases DEF T
    <2>9. QED BY <2>5, <2>6, <2>7, <2>8
  <1>5. Pair \notin values BY <1>4, PairIsOther
  <1> HIDE DEF spec, T, values
  <1>6. name \in Lines /\ name # <<>> BY <1>1, <1>2, NameType
  <1>7. SplitTopLevel(name) = <<name>> BY <1>1, <1>2, OneName
  <1>8. s \in Lines /\ SplitTopLevel(s) = <<name, Pair>> BY <1>1, <1>2, TwoNames
  <1> HIDE DEF name
  <1>9. s # <<>>
    <2>1. Second \in Lines
      <3>1. <<Comma>> \in Lines /\ Pair \in Lines BY LettersAlone
      <3>2. QED BY <3>1, JoinType DEF Second
    <2>2. Len(s) = Len(name) + Len(Second) BY <1>6, <2>1, JoinType
    <2>3. Len(name) \in Nat \ {0} /\ Len(Second) \in Nat BY <1>6, <2>1 DEF Lines
    <2>4. Len(s) # 0 BY <2>2, <2>3
    <2>5. QED BY <2>4
  <1> HIDE DEF s
  <1>10. Answered(name, values) BY <1>3, <1>6, <1>7, OneNameRead
  <1>11. Answered(s, values \cup {Pair}) BY <1>3, <1>5, <1>8, <1>9, TwoNamesRead
  <1>12. QED BY <1>10, <1>11 DEF s, name, values, T, spec

-----------------------------------------------------------------------------
(* The lines.                                                              *)

\* A line of one name or two, as Slurm prints it, and the hosts it is for.
PrintedAs(lo, hi, w, tail, single) ==
  LET name == Name(Inner(lo, hi, w), tail)
      values == Named(Numbers(lo, hi, w), TailNames(tail))
  IN  /\ line = IF single THEN name ELSE name \o Second
      /\ meant = [ok |-> TRUE, values |-> IF single THEN values ELSE values \cup {Pair}]

\* A line with a meaning is one of those.
MeaningIsPrinted ==
  meant.ok =>
    \E lo \in Nat, hi \in Nat, w \in Nat \ {0}, tail \in Tails, single \in BOOLEAN :
      lo <= hi /\ PrintedAs(lo, hi, w, tail, single)

\* The inductive invariant.
LinesInv == Readable /\ MeaningIsPrinted

\* What Slurm prints is such a line, of tokens.
LEMMA PrintsNames ==
  ASSUME NEW lo \in 1..3, NEW hi \in 1..3, NEW w \in 1..2, NEW single \in BOOLEAN, NEW tail \in Tails,
         SlurmPrints(lo, hi, w, tail, single)
  PROVE  PrintedAs(lo, hi, w, tail, single)' /\ line' \in Lines
  <1> DEFINE l == <<Letter>>
             b == Bracket(lo, hi, w)
             spec == Inner(lo, hi, w)
             name == Name(spec, tail)
             values == Named(Numbers(lo, hi, w), TailNames(tail))
             rest == IF single THEN <<>> ELSE <<Comma, Letter, Letter>>
  <1>1. lo \in Nat /\ hi \in Nat /\ w \in Nat \ {0} OBVIOUS
  <1>2. b = Bracketed(spec) BY <1>1, BracketIs
  <1>3. (l \o b) \o tail = name BY <1>2 DEF Name
  <1>4. line' = ((l \o b) \o tail) \o rest BY DEF SlurmPrints, Letter, Comma
  <1>5. name \in Lines
    <2>1. spec \in Lines BY <1>1, InnerIs
    <2>2. tail \in Lines BY TailCases
    <2> HIDE DEF spec
    <2>3. QED BY <2>1, <2>2, NameType
  <1>6. Second = <<Comma, Letter, Letter>>
    <2>1. <<Comma>> \o <<Letter, Letter>> = <<Comma, Letter, Letter>> BY InARow
    <2>2. QED BY <2>1 DEF Second, Pair
  <1>7. meant' = [ok |-> TRUE, values |-> values \cup (IF single THEN {} ELSE {Pair})]
    BY DEF SlurmPrints, TailNames, Pair, Letter
  <1> HIDE DEF b, l, name, values
  <1>8. line' = name \o rest BY <1>3, <1>4
  <1>9. line' = IF single THEN name ELSE name \o Second
    <2>1. CASE single
      <3>1. name \o <<>> = name BY <1>5 DEF Lines
      <3>2. QED BY <1>8, <2>1, <3>1
    <2>2. CASE ~single BY <1>6, <1>8, <2>2
    <2>3. QED BY <2>1, <2>2
  <1>10. meant' = [ok |-> TRUE, values |-> IF single THEN values ELSE values \cup {Pair}] BY <1>7
  <1>11. PrintedAs(lo, hi, w, tail, single)' BY <1>9, <1>10 DEF PrintedAs, name, values
  <1>12. Second \in Lines BY LettersAlone, JoinType DEF Second
  <1>13. name \o Second \in Lines BY <1>5, <1>12, JoinType
  <1>14. QED BY <1>5, <1>9, <1>11, <1>13

\* Whoever writes the line, token by token or as Slurm does.
LEMMA LinesHold == ListSpec => []LinesInv
  <1>1. ListInit => LinesInv BY DEF ListInit, LinesInv, Readable, Lines, MeaningIsPrinted, Unsaid
  <1>2. LinesInv /\ [ListNext]_listVars => LinesInv'
    <2> SUFFICES ASSUME LinesInv, [ListNext]_listVars PROVE LinesInv' OBVIOUS
    <2>1. ASSUME NEW t \in Tokens, Type(t) PROVE LinesInv'
      <3>1. t \in Glyphs
        <4>1. \/ \E c \in Punctuation : t = Mark(c)
              \/ \E p \in Numerals : t = Num(p[1], p[2])
          BY DEF Tokens, Punctuation
        <4>2. \A c \in Punctuation : Mark(c) \in Glyphs BY DEF Glyphs
        <4>3. \A p \in Numerals : p[1] \in Nat /\ p[2] \in Nat \ {0} BY ListAssumption
        <4>4. \A k \in Nat, w \in Nat \ {0} : Num(k, w) \in Glyphs BY DEF Glyphs
        <4>5. QED BY <4>1, <4>2, <4>3, <4>4
      <3>2. line' = Append(line, t) /\ ~meant.ok /\ meant' = meant BY <2>1 DEF Type
      <3>3. line' \in Lines BY <3>1, <3>2 DEF LinesInv, Readable, Lines
      <3>4. QED BY <3>2, <3>3 DEF LinesInv, Readable, MeaningIsPrinted
    <2>2. ASSUME NEW lo \in 1..3, NEW hi \in 1..3, NEW w \in 1..2, NEW single \in BOOLEAN, NEW tail \in Tails,
                 lo <= hi, SlurmPrints(lo, hi, w, tail, single)
          PROVE  LinesInv'
      <3>1. lo \in Nat /\ hi \in Nat /\ w \in Nat \ {0} OBVIOUS
      <3>2. PrintedAs(lo, hi, w, tail, single)' /\ line' \in Lines BY <2>2, PrintsNames
      <3>3. MeaningIsPrinted' BY <2>2, <3>1, <3>2 DEF MeaningIsPrinted
      <3>4. Readable' BY <3>2 DEF Readable
      <3>5. QED BY <3>3, <3>4, ZenonT(30) DEF LinesInv
    <2>3. CASE UNCHANGED listVars
      <3>1. line' = line /\ meant' = meant BY <2>3 DEF listVars
      <3>2. \A lo, hi, w, tail, single :
              PrintedAs(lo, hi, w, tail, single) => PrintedAs(lo, hi, w, tail, single)'
        BY <3>1 DEF PrintedAs
      <3>3. MeaningIsPrinted' BY <3>1, <3>2 DEF LinesInv, MeaningIsPrinted
      <3>4. Readable' BY <3>1 DEF LinesInv, Readable
      <3>5. QED BY <3>3, <3>4, ZenonT(30) DEF LinesInv
    <2>4. CASE ListNext
      <3>1. {<<>>, <<Mark("-"), Mark("x")>>, Bracket(1, 2, 1)} = Tails BY DEF Tails, Dash, Letter
      <3>2. \/ \E t \in Tokens : Type(t)
            \/ \E lo, hi \in 1..3, w \in 1..2, single \in BOOLEAN, tail \in Tails :
                 lo <= hi /\ SlurmPrints(lo, hi, w, tail, single)
        BY <2>4, <3>1 DEF ListNext
      <3>3. QED BY <2>1, <2>2, <3>2
    <2>5. QED BY <2>3, <2>4
  <1>3. QED BY <1>1, <1>2, PTL DEF ListSpec

\* Such a line is read as what it means.
LEMMA MeaningIsRead == MeaningIsPrinted => PrintedIsRead
  <1> SUFFICES ASSUME MeaningIsPrinted, meant.ok
               PROVE  IF Cardinality(meant.values) <= StrictLimit
                      THEN StrictExpandNodes(line) = meant ELSE ~StrictExpandNodes(line).ok
    BY DEF PrintedIsRead
  <1>1. PICK lo \in Nat, hi \in Nat, w \in Nat \ {0}, tail \in Tails, single \in BOOLEAN :
          lo <= hi /\ PrintedAs(lo, hi, w, tail, single)
    BY DEF MeaningIsPrinted
  <1> DEFINE name == Name(Inner(lo, hi, w), tail)
             values == Named(Numbers(lo, hi, w), TailNames(tail))
             all == IF single THEN values ELSE values \cup {Pair}
  <1>2. lo <= hi /\ line = (IF single THEN name ELSE name \o Second) /\ meant = [ok |-> TRUE, values |-> all]
    BY <1>1 DEF PrintedAs
  <1>3. Answered(name, values) /\ Answered(name \o Second, values \cup {Pair}) BY <1>2, PrintedIsAnswered
  <1> HIDE DEF name, values
  <1>4. Answered(line, all) BY <1>2, <1>3
  <1>5. meant.values = all BY <1>2
  <1> HIDE DEF all
  <1>6. QED BY <1>2, <1>4, <1>5 DEF Answered

\* The strict and the lenient reader of host lists agree on every line the strict one
\* accepts, and on every list of numbers; and every line that Slurm prints is read as the
\* hosts it is for, if they are not too many (common.py:447-504, 655-733, 1124-1141).
THEOREM ListsRead == ListSpec => []ListsAreRead
  <1>1. LinesInv => ListsAreRead BY LinesAgree, MeaningIsRead DEF LinesInv, ListsAreRead
  <1>2. QED BY <1>1, LinesHold, PTL
=============================================================================
