-------------------------- MODULE MergeRounds_proofs --------------------------
(***************************************************************************)
(* What the merge owes its users, proved of every run of MergeRounds: for  *)
(* all texts, of any length, and any number of runs.                       *)
(***************************************************************************)
EXTENDS MergeRounds, DiffLines_proofs, FunctionTheorems

-----------------------------------------------------------------------------
(* How often a text has a line.                                            *)

\* The places of the lines of a text that say the same as line.
Says(s, line) == {i \in 1..Len(s) : s[i].text = line.text}

\* The count is that of those places.
LEMMA CountIs ==
    ASSUME NEW s \in Text, NEW line
    PROVE  /\ Count(s, line) = Cardinality(Says(s, line))
           /\ Count(s, line) \in Nat /\ IsFiniteSet(Says(s, line))
<1>1. Len(s) \in Nat /\ DOMAIN s = 1..Len(s)
  BY DEF Text
<1>2. IsFiniteSet(1..Len(s)) /\ Says(s, line) \in SUBSET (1..Len(s))
  BY <1>1, FS_Interval DEF Says
<1>3. IsFiniteSet(Says(s, line))
  BY <1>2, FS_Subset
<1>4. Count(s, line) = Cardinality(Says(s, line))
  BY <1>1 DEF Count, Says
<1> QED
  BY <1>3, <1>4, FS_CardinalityType

\* Texts that say the same have the same count.
LEMMA CountSame ==
    ASSUME NEW s \in Text, NEW t \in Text, NEW line, Len(s) = Len(t),
           \A i \in 1..Len(s) : s[i].text = t[i].text
    PROVE  Count(s, line) = Count(t, line)
<1>1. Says(s, line) = Says(t, line)
  BY DEF Says
<1> QED
  BY <1>1, CountIs

\* The count of two texts joined is the sum of theirs.
LEMMA CountJoins ==
    ASSUME NEW a \in Text, NEW b \in Text, NEW line
    PROVE  a \o b \in Text /\ Count(a \o b, line) = Count(a, line) + Count(b, line)
<1> DEFINE c == a \o b
           A == Says(a, line)
           B == Says(b, line)
           C == Says(c, line)
           D == {Len(a) + i : i \in B}
           f == [i \in B |-> Len(a) + i]
<1>1. /\ c \in Text /\ Len(c) = Len(a) + Len(b) /\ Len(a) \in Nat /\ Len(b) \in Nat
      /\ \A i \in 1..Len(a) + Len(b) : c[i] = IF i <= Len(a) THEN a[i] ELSE b[i - Len(a)]
  BY ConcatProperties DEF Text
<1>2. C = A \cup D
  <2>0. A \subseteq 1..Len(a) /\ B \subseteq 1..Len(b)
    BY DEF Says
  <2>1. ASSUME NEW i \in C PROVE i \in A \cup D
    <3>1. i \in 1..Len(a) + Len(b) /\ c[i].text = line.text
      BY <1>1 DEF Says
    <3>2. CASE i <= Len(a)
      <4>1. i \in 1..Len(a) /\ c[i] = a[i]
        BY <1>1, <3>1, <3>2
      <4> QED
        BY <3>1, <4>1 DEF Says
    <3>3. CASE ~(i <= Len(a))
      <4>1. i - Len(a) \in 1..Len(b) /\ c[i] = b[i - Len(a)] /\ Len(a) + (i - Len(a)) = i
        BY <1>1, <3>1, <3>3
      <4>2. i - Len(a) \in B
        BY <3>1, <4>1 DEF Says
      <4> QED
        BY <4>1, <4>2
    <3> QED
      BY <3>2, <3>3
  <2>2. ASSUME NEW i \in A PROVE i \in C
    <3>1. i \in 1..Len(a) /\ a[i].text = line.text
      BY DEF Says
    <3>2. i \in 1..Len(a) + Len(b) /\ c[i] = a[i]
      BY <1>1, <3>1
    <3> QED
      BY <1>1, <3>1, <3>2 DEF Says
  <2>3. ASSUME NEW i \in D PROVE i \in C
    <3>1. PICK j \in B : i = Len(a) + j
      OBVIOUS
    <3>2. j \in 1..Len(b) /\ b[j].text = line.text
      BY DEF Says
    <3>3. i \in 1..Len(a) + Len(b) /\ ~(i <= Len(a)) /\ i - Len(a) = j
      BY <1>1, <3>1, <3>2
    <3>4. c[i] = b[j]
      BY <1>1, <3>3
    <3> QED
      BY <1>1, <3>2, <3>3, <3>4 DEF Says
  <2> HIDE DEF A, C, D
  <2> QED
    BY <2>1, <2>2, <2>3
<1>3. A \cap D = {}
  <2>1. A \subseteq 1..Len(a) /\ B \subseteq 1..Len(b)
    BY DEF Says
  <2> QED
    BY <1>1, <2>1
<1>4. f \in Bijection(B, D)
  <2>1. B \subseteq 1..Len(b)
    BY DEF Says
  <2>2. f \in [B -> D] /\ \A i, j \in B : f[i] = f[j] => i = j
    BY <1>1, <2>1
  <2>3. \A d \in D : \E i \in B : f[i] = d
    OBVIOUS
  <2> HIDE DEF B, D, f
  <2> QED
    BY <2>2, <2>3, Fun_IsBij
<1>5. IsFiniteSet(A) /\ IsFiniteSet(B) /\ Cardinality(A) \in Nat /\ Cardinality(B) \in Nat
  BY CountIs
<1>6. IsFiniteSet(D) /\ Cardinality(D) = Cardinality(B)
  <2>1. ExistsBijection(B, D)
    BY <1>4 DEF ExistsBijection
  <2> HIDE DEF B, D
  <2> QED
    BY <1>5, <2>1, FS_Bijection
<1>7. Cardinality(C) = Cardinality(A) + Cardinality(B)
  <2> HIDE DEF A, B, C, D
  <2>1. Cardinality(A \cup D) = Cardinality(A) + Cardinality(D) - Cardinality(A \cap D)
    BY <1>5, <1>6, FS_Union
  <2> QED
    BY <1>2, <1>3, <1>5, <1>6, <2>1, FS_EmptySet
<1> QED
  BY <1>1, <1>7, CountIs

\* What holds of the parts of three texts holds of the texts.
LEMMA KeptInParts ==
    ASSUME NEW n \in Nat, NEW p, NEW q, NEW r, NEW line,
           p \in [1..n -> Text], q \in [1..n -> Text], r \in [1..n -> Text],
           \A k \in 1..n : Count(p[k], line) + Count(q[k], line) >= Count(r[k], line)
    PROVE  Count(FlattenSeq(p), line) + Count(FlattenSeq(q), line) >= Count(FlattenSeq(r), line)
<1>1. PICK f \in [0..n -> Text] : IsJoining(f, p, n) /\ FlattenSeq(p) = f[n]
  BY FlattenIs DEF Text
<1>2. PICK g \in [0..n -> Text] : IsJoining(g, q, n) /\ FlattenSeq(q) = g[n]
  BY FlattenIs DEF Text
<1>3. PICK h \in [0..n -> Text] : IsJoining(h, r, n) /\ FlattenSeq(r) = h[n]
  BY FlattenIs DEF Text
<1> DEFINE Q == {k \in Nat : k <= n =>
                    Count(f[k], line) + Count(g[k], line) >= Count(h[k], line)}
<1>4. 0 \in Q
  <2>1. f[0] = <<>> /\ g[0] = <<>> /\ h[0] = <<>> /\ <<>> \in Text
    BY <1>1, <1>2, <1>3 DEF IsJoining, Text
  <2>2. Count(<<>>, line) \in Nat
    BY <2>1, CountIs
  <2>3. Count(f[0], line) + Count(g[0], line) >= Count(h[0], line)
    BY <2>1, <2>2
  <2> QED
    BY <2>3
<1>5. ASSUME NEW k \in Nat, k \in Q PROVE k + 1 \in Q
  <2> SUFFICES ASSUME k + 1 <= n
               PROVE  Count(f[k + 1], line) + Count(g[k + 1], line) >= Count(h[k + 1], line)
    OBVIOUS
  <2>1. k + 1 \in 1..n /\ (k + 1) - 1 = k /\ k <= n /\ k \in 0..n
    OBVIOUS
  <2>2. /\ f[k + 1] = f[k] \o p[k + 1] /\ f[k] \in Text /\ p[k + 1] \in Text
        /\ g[k + 1] = g[k] \o q[k + 1] /\ g[k] \in Text /\ q[k + 1] \in Text
        /\ h[k + 1] = h[k] \o r[k + 1] /\ h[k] \in Text /\ r[k + 1] \in Text
    BY <1>1, <1>2, <1>3, <2>1 DEF IsJoining
  <2>3. /\ Count(f[k + 1], line) = Count(f[k], line) + Count(p[k + 1], line)
        /\ Count(g[k + 1], line) = Count(g[k], line) + Count(q[k + 1], line)
        /\ Count(h[k + 1], line) = Count(h[k], line) + Count(r[k + 1], line)
    BY <2>2, CountJoins
  <2>4. /\ Count(f[k], line) \in Nat /\ Count(p[k + 1], line) \in Nat
        /\ Count(g[k], line) \in Nat /\ Count(q[k + 1], line) \in Nat
        /\ Count(h[k], line) \in Nat /\ Count(r[k + 1], line) \in Nat
    BY <2>2, CountIs
  <2>5. /\ Count(f[k], line) + Count(g[k], line) >= Count(h[k], line)
        /\ Count(p[k + 1], line) + Count(q[k + 1], line) >= Count(r[k + 1], line)
    BY <1>5, <2>1
  <2> QED
    BY <2>3, <2>4, <2>5
<1>6. Nat \subseteq Q
  <2> HIDE DEF Q
  <2> QED
    BY <1>4, <1>5, AllNumbers
<1> QED
  BY <1>1, <1>2, <1>3, <1>6

\* A conflict has the lines of both its sides.
LEMMA CountConflict ==
    ASSUME NEW labels \in [Sides -> Nat], NEW gen \in Seq(Plain), NEW exist \in Seq(Plain), NEW line
    PROVE  /\ Count(WriteConflict(gen, exist, labels), line) >= Count(gen, line)
           /\ Count(WriteConflict(gen, exist, labels), line) >= Count(exist, line)
           /\ Count(WriteConflict(gen, exist, labels), line) \in Nat
<1> DEFINE a == <<Opens("EXISTING", labels)>>
           b == Closed(exist)
           c == <<Middle>>
           d == Closed(gen)
           e == <<Closes("GENERATED", labels)>>
<1>1. WriteConflict(gen, exist, labels) = a \o b \o c \o d \o e
  BY DEF WriteConflict
<1>2. a \in Text /\ c \in Text /\ e \in Text
  <2>1. Opens("EXISTING", labels) \in Line /\ Middle \in Line /\ Closes("GENERATED", labels) \in Line
    BY OverIs DEF Sides
  <2> QED
    BY <2>1 DEF Text
<1>3. gen \in Text /\ exist \in Text /\ b \in Text /\ d \in Text
  <2>1. b \in Seq(Plain) /\ d \in Seq(Plain)
    BY ClosedIs
  <2> HIDE DEF b, d
  <2>2. Plain \in SUBSET Line
    BY DEF Plain
  <2> QED
    BY <2>1, <2>2, Widened DEF Text
<1>4. Count(b, line) = Count(exist, line) /\ Count(d, line) = Count(gen, line)
  BY <1>3, ClosedIs, CountSame
<1> HIDE DEF a, b, c, d, e
<1>5. a \o b \in Text /\ a \o b \o c \in Text /\ a \o b \o c \o d \in Text /\ a \o b \o c \o d \o e \in Text
  BY <1>2, <1>3, CountJoins
<1>6. Count(a \o b \o c \o d \o e, line) =
         Count(a, line) + Count(b, line) + Count(c, line) + Count(d, line) + Count(e, line)
  <2>1. Count(a \o b, line) = Count(a, line) + Count(b, line)
    BY <1>2, <1>3, CountJoins
  <2>2. Count(a \o b \o c, line) = Count(a \o b, line) + Count(c, line)
    BY <1>2, <1>5, CountJoins
  <2>3. Count(a \o b \o c \o d, line) = Count(a \o b \o c, line) + Count(d, line)
    BY <1>3, <1>5, CountJoins
  <2>4. Count(a \o b \o c \o d \o e, line) = Count(a \o b \o c \o d, line) + Count(e, line)
    BY <1>2, <1>5, CountJoins
  <2> QED
    BY <2>1, <2>2, <2>3, <2>4
<1>7. /\ Count(a, line) \in Nat /\ Count(b, line) \in Nat /\ Count(c, line) \in Nat
      /\ Count(d, line) \in Nat /\ Count(e, line) \in Nat
  BY <1>2, <1>3, CountIs
<1> QED
  BY <1>1, <1>4, <1>6, <1>7

\* What a region adds to its baseline is in what it is reconciled to.
LEMMA CountRegion ==
    ASSUME NEW labels \in [Sides -> Nat], NEW r, NEW line,
           r.gen \in Seq(Plain), r.base \in Seq(Plain), r.exist \in Seq(Plain)
    PROVE  /\ Count(Reconcile(r, labels), line) + Count(r.base, line) >= Count(r.gen, line)
           /\ Count(Reconcile(r, labels), line) + Count(r.base, line) >= Count(r.exist, line)
<1>1. r.gen \in Text /\ r.base \in Text /\ r.exist \in Text
  BY Widened DEF Text, Plain
<1>2. Count(r.gen, line) \in Nat /\ Count(r.base, line) \in Nat /\ Count(r.exist, line) \in Nat
  BY <1>1, CountIs
<1>3. CASE r.base = r.gen
  <2>1. Reconcile(r, labels) = r.exist
    BY <1>3 DEF Reconcile
  <2> QED
    BY <1>2, <1>3, <2>1
<1>4. CASE r.base # r.gen /\ Clash(r)
  <2>1. Reconcile(r, labels) = WriteConflict(r.gen, r.exist, labels)
    BY <1>4 DEF Reconcile
  <2> DEFINE w == Count(WriteConflict(r.gen, r.exist, labels), line)
  <2>2. w >= Count(r.gen, line) /\ w >= Count(r.exist, line) /\ w \in Nat
    BY CountConflict
  <2> HIDE DEF w
  <2>3. w + Count(r.base, line) >= Count(r.gen, line) /\ w + Count(r.base, line) >= Count(r.exist, line)
    BY <1>2, <2>2
  <2> QED
    BY <2>1, <2>3 DEF w
<1>5. CASE r.base # r.gen /\ ~Clash(r)
  <2>1. Reconcile(r, labels) = r.gen
    BY <1>5 DEF Reconcile
  <2>2. r.base = r.exist \/ r.gen = r.exist
    BY <1>5 DEF Clash
  <2> QED
    BY <1>2, <2>1, <2>2
<1> QED
  BY <1>3, <1>4, <1>5

\* No line that a side adds to the baseline is lost by the full merge.
LEMMA FullMergeKeeps ==
    ASSUME NEW labels \in [Sides -> Nat], NEW line,
           NEW gen \in Seq(Plain), NEW base \in Seq(Plain), NEW exist \in Seq(Plain)
    PROVE  LET content == MergeRegions(gen, base, exist, labels).content
           IN  /\ Count(content, line) + Count(base, line) >= Count(gen, line)
               /\ Count(content, line) + Count(base, line) >= Count(exist, line)
<1>1. gen \in Text /\ base \in Text /\ exist \in Text
  BY Widened DEF Text, Plain
<1>2. PICK R, m : /\ RegionsOf(R, m, gen, base, exist)
                  /\ MergeRegions(gen, base, exist, labels) = MergeOf(R, m, labels)
  BY <1>1, FullMerge
<1> DEFINE p == [k \in 1..m |-> Reconcile(R[k], labels) \o R[k].anchor]
           b == [k \in 1..m |-> R[k].base \o R[k].anchor]
           g == [k \in 1..m |-> R[k].gen \o R[k].anchor]
           e == [k \in 1..m |-> R[k].exist \o R[k].anchor]
<1>3. MergeRegions(gen, base, exist, labels).content = FlattenSeq(p)
  BY <1>2 DEF MergeOf, Reconciled
<1>4. m \in Nat
  BY <1>2 DEF RegionsOf, IsCut
<1>5. FlattenSeq(g) = gen
  <2>1. FlattenSeq([k \in 1..m |-> GenSides(R, m)[k] \o AnchorSides(R, m)[k]]) = gen
    BY <1>2 DEF RegionsOf, IsCut, MakeUp
  <2>2. [k \in 1..m |-> GenSides(R, m)[k] \o AnchorSides(R, m)[k]] = g
    BY DEF GenSides, AnchorSides
  <2> QED
    BY <2>1, <2>2, Zenon
<1>6. FlattenSeq(b) = base
  <2>1. FlattenSeq([k \in 1..m |-> BaseSides(R, m)[k] \o AnchorSides(R, m)[k]]) = base
    BY <1>2 DEF RegionsOf, IsCut, MakeUp
  <2>2. [k \in 1..m |-> BaseSides(R, m)[k] \o AnchorSides(R, m)[k]] = b
    BY DEF BaseSides, AnchorSides
  <2> QED
    BY <2>1, <2>2, Zenon
<1>7. FlattenSeq(e) = exist
  <2>1. FlattenSeq([k \in 1..m |-> ExistSides(R, m)[k] \o AnchorSides(R, m)[k]]) = exist
    BY <1>2 DEF RegionsOf, IsCut, MakeUp
  <2>2. [k \in 1..m |-> ExistSides(R, m)[k] \o AnchorSides(R, m)[k]] = e
    BY DEF ExistSides, AnchorSides
  <2> QED
    BY <2>1, <2>2, Zenon
<1>8. Plain \in SUBSET Line /\ Over(labels) \in SUBSET Line
  BY OverIs
<1>9. ASSUME NEW k \in 1..m
      PROVE  /\ p[k] \in Text /\ b[k] \in Text /\ g[k] \in Text /\ e[k] \in Text
             /\ Count(p[k], line) + Count(b[k], line) >= Count(g[k], line)
             /\ Count(p[k], line) + Count(b[k], line) >= Count(e[k], line)
  <2> DEFINE r == R[k]
             c == Reconcile(r, labels)
  <2>1. r.gen \in Seq(Plain) /\ r.base \in Seq(Plain) /\ r.exist \in Seq(Plain) /\ r.anchor \in Seq(Plain)
    BY <1>2, <1>8 DEF RegionsOf, Drawn
  <2>2. c \in Seq(Over(labels))
    BY <2>1, ReconcileIs
  <2>3. /\ Count(c, line) + Count(r.base, line) >= Count(r.gen, line)
        /\ Count(c, line) + Count(r.base, line) >= Count(r.exist, line)
    BY <2>1, CountRegion
  <2>4. p[k] = c \o r.anchor /\ b[k] = r.base \o r.anchor /\ g[k] = r.gen \o r.anchor
        /\ e[k] = r.exist \o r.anchor
    OBVIOUS
  <2> DEFINE rg == r.gen
             rb == r.base
             re == r.exist
             ra == r.anchor
  <2> HIDE DEF c, r, p, b, g, e
  <2>5. c \in Text /\ rg \in Text /\ rb \in Text /\ re \in Text /\ ra \in Text
    BY <1>8, <2>1, <2>2, Widened DEF Text
  <2>6. /\ c \o ra \in Text /\ Count(c \o ra, line) = Count(c, line) + Count(ra, line)
        /\ rb \o ra \in Text /\ Count(rb \o ra, line) = Count(rb, line) + Count(ra, line)
        /\ rg \o ra \in Text /\ Count(rg \o ra, line) = Count(rg, line) + Count(ra, line)
        /\ re \o ra \in Text /\ Count(re \o ra, line) = Count(re, line) + Count(ra, line)
    BY <2>5, CountJoins
  <2>7. /\ Count(c, line) \in Nat /\ Count(rg, line) \in Nat /\ Count(rb, line) \in Nat
        /\ Count(re, line) \in Nat /\ Count(ra, line) \in Nat
    BY <2>5, CountIs
  <2> QED
    BY <2>3, <2>4, <2>6, <2>7
<1>10. p \in [1..m -> Text] /\ b \in [1..m -> Text] /\ g \in [1..m -> Text] /\ e \in [1..m -> Text]
  <2>1. \A k \in 1..m : /\ Reconcile(R[k], labels) \o R[k].anchor \in Text
                        /\ R[k].base \o R[k].anchor \in Text
                        /\ R[k].gen \o R[k].anchor \in Text /\ R[k].exist \o R[k].anchor \in Text
    BY <1>9
  <2> QED
    BY <2>1
<1>11. /\ \A k \in 1..m : Count(p[k], line) + Count(b[k], line) >= Count(g[k], line)
       /\ \A k \in 1..m : Count(p[k], line) + Count(b[k], line) >= Count(e[k], line)
  BY <1>9
<1> HIDE DEF p, b, g, e
<1>12. Count(FlattenSeq(p), line) + Count(FlattenSeq(b), line) >= Count(FlattenSeq(g), line)
  BY <1>4, <1>10, <1>11, KeptInParts
<1>13. Count(FlattenSeq(p), line) + Count(FlattenSeq(b), line) >= Count(FlattenSeq(e), line)
  BY <1>4, <1>10, <1>11, KeptInParts
<1> QED
  BY <1>3, <1>5, <1>6, <1>7, <1>12, <1>13

-----------------------------------------------------------------------------
(* The rounds of runs and edits.                                           *)

\* Where every file of a reachable state stands: it has lines of content and
\* markers of one time for each side, and is well cut; before the first run
\* it is what a user may write.
RoundsInv ==
    /\ generated \in Texts /\ baseline \in Texts /\ landed \subseteq Texts
    /\ when \in Nat \ {0}
    /\ WellCut(existing)
    /\ \E labels \in [Sides -> Nat] : existing \in Seq(Over(labels))
    /\ stage = "edited" => existing \in Texts

\* A text without the mark of a conflict has plain lines (HasConflicts).
LEMMA UnmarkedIsPlain ==
    ASSUME NEW s \in Text, ~HasConflicts(s)
    PROVE  s \in Seq(Plain)
<1>1. Len(s) \in Nat /\ DOMAIN s = 1..Len(s) /\ \A i \in 1..Len(s) : s[i] \in Line
  BY DEF Text
<1>2. \A i \in 1..Len(s) : s[i] \in Plain
  BY <1>1 DEF HasConflicts, Plain
<1> QED
  BY <1>1, <1>2 DEF Text

\* So has what a generate, or a user who edits the file, may write.
LEMMA TextsArePlain == \A t \in Texts : t \in Seq(Plain) /\ t \in Text /\ WellCut(t) /\ ~HasConflicts(t)
<1>1. \A t \in Texts : t \in Text /\ WellCut(t) /\ ~HasConflicts(t)
  BY RoundsAssumption
<1> QED
  BY <1>1, UnmarkedIsPlain

\* The labels of a run give each side a time.
LEMMA LabelsAre ==
    ASSUME NEW t \in Nat \ {0}
    PROVE  LabelsOf(t, t - 1) \in [Sides -> Nat]
BY DEF LabelsOf, Sides

\* Plain lines are lines of a file with marks, whatever their labels.
LEMMA PlainIsOver ==
    ASSUME NEW s \in Seq(Plain), NEW labels \in [Sides -> Nat]
    PROVE  s \in Seq(Over(labels))
BY OverIs, Widened

\* And such a file is a text.
LEMMA OverIsText ==
    ASSUME NEW labels \in [Sides -> Nat], NEW s \in Seq(Over(labels))
    PROVE  s \in Text
BY OverIs, Widened DEF Text

\* What a merge without a fast path makes of the file.
LEMMA MergeCases ==
    ASSUME NEW gen, NEW base, NEW exist, NEW labels
    PROVE  \/ gen = exist /\ Merge(gen, base, exist, labels) =
                 [content |-> exist, outcome |-> "same", conflict |-> FALSE]
           \/ exist = base /\ Merge(gen, base, exist, labels) =
                 [content |-> gen, outcome |-> "clean", conflict |-> FALSE]
           \/ HasConflicts(exist) /\ Merge(gen, base, exist, labels) =
                 [content |-> exist, outcome |-> "unresolved", conflict |-> FALSE]
           \/ ~HasConflicts(exist) /\ Merge(gen, base, exist, labels) =
                 MergeRegions(gen, base, exist, labels)
BY Zenon DEF Merge

\* What a save under merge writes.
LEMMA SavedIs ==
    ASSUME RoundsInv, SaveMerge
    PROVE  LET labels == LabelsOf(when, when - 1)
               full == MergeRegions(generated, baseline, existing, labels)
           IN  \/ Earlier /\ existing' = generated
               \/ ~Earlier /\ generated = existing /\ existing' = existing
               \/ ~Earlier /\ existing = baseline /\ existing' = generated
               \/ ~Earlier /\ HasConflicts(existing) /\ existing' = existing
               \/ /\ ~Earlier /\ ~HasConflicts(existing)
                  /\ existing' = full.content
<1>1. existing' = Merged.content
  BY Zenon DEF SaveMerge
<1>2. CASE Earlier
  <2>1. Merged = [content |-> generated, outcome |-> "clean", conflict |-> FALSE]
    BY <1>2, Zenon DEF Merged
  <2> QED
    BY <1>1, <1>2, <2>1
<1>3. CASE ~Earlier
  <2> DEFINE labels == LabelsOf(when, when - 1)
             merged == Merge(generated, baseline, existing, labels)
             full == MergeRegions(generated, baseline, existing, labels)
  <2>1. Merged = merged
    BY <1>3, Zenon DEF Merged
  <2>2. \/ generated = existing /\ merged =
                 [content |-> existing, outcome |-> "same", conflict |-> FALSE]
        \/ existing = baseline /\ merged =
                 [content |-> generated, outcome |-> "clean", conflict |-> FALSE]
        \/ HasConflicts(existing) /\ merged =
                 [content |-> existing, outcome |-> "unresolved", conflict |-> FALSE]
        \/ ~HasConflicts(existing) /\ merged = full
    BY MergeCases, Zenon
  <2> HIDE DEF merged, full
  <2>3. \/ generated = existing /\ merged.content = existing
        \/ existing = baseline /\ merged.content = generated
        \/ HasConflicts(existing) /\ merged.content = existing
        \/ ~HasConflicts(existing) /\ merged.content = full.content
    BY <2>2
  <2> QED
    BY <1>1, <1>3, <2>1, <2>3, Zenon DEF full
<1> QED
  BY <1>2, <1>3

\* A save under merge keeps the invariant: what Merge makes of a file without
\* marks has those of this run alone, and a file with marks is left as it is
\* (saveMerge, Merge).
LEMMA SaveMergeSafe == RoundsInv /\ SaveMerge => RoundsInv'
<1> SUFFICES ASSUME RoundsInv, SaveMerge PROVE RoundsInv'
  OBVIOUS
<1>1. /\ generated' \in Texts /\ baseline' \in Texts /\ landed' \subseteq Texts
      /\ when' \in Nat \ {0} /\ stage' = "merged"
  <2>1. /\ generated' = generated /\ when' = when + 1 /\ stage' = "merged"
        /\ \/ baseline' = baseline /\ landed' = landed
           \/ baseline' = generated /\ landed' = landed \cup {generated}
    BY DEF SaveMerge
  <2> QED
    BY <2>1 DEF RoundsInv
<1> DEFINE labels == LabelsOf(when, when - 1)
<1>2. labels \in [Sides -> Nat]
  BY LabelsAre DEF RoundsInv
<1> HIDE DEF labels
<1>3. generated \in Seq(Plain) /\ WellCut(generated) /\ baseline \in Seq(Plain) /\ WellCut(baseline)
  BY TextsArePlain DEF RoundsInv
<1>4. WellCut(existing) /\ \E l \in [Sides -> Nat] : existing \in Seq(Over(l))
  BY DEF RoundsInv
<1> DEFINE full == MergeRegions(generated, baseline, existing, labels)
<1>5. WellCut(existing') /\ \E l \in [Sides -> Nat] : existing' \in Seq(Over(l))
  <2>1. CASE existing' = generated
    <3>1. generated \in Seq(Over(labels))
      BY <1>2, <1>3, PlainIsOver
    <3> QED
      BY <1>2, <1>3, <2>1, <3>1
  <2>2. CASE existing' = existing
    BY <1>4, <2>2
  <2>3. CASE ~HasConflicts(existing) /\ existing' = full.content
    <3>1. existing \in Text
      BY <1>4, OverIsText
    <3>2. existing \in Seq(Plain)
      BY <2>3, <3>1, UnmarkedIsPlain
    <3>3. full.content \in Seq(Over(labels)) /\ WellCut(full.content)
      BY <1>2, <1>3, <1>4, <3>2, MergeIs
    <3> QED
      BY <1>2, <2>3, <3>3
  <2>4. \/ existing' = generated \/ existing' = existing
        \/ ~HasConflicts(existing) /\ existing' = full.content
    BY SavedIs DEF labels
  <2> QED
    BY <2>1, <2>2, <2>3, <2>4
<1> QED
  BY <1>1, <1>5 DEF RoundsInv

\* So does a save in diff mode, which shows a file without marks (saveDiff,
\* Diff).
LEMMA SaveDiffSafe == RoundsInv /\ SaveDiff => RoundsInv'
<1> SUFFICES ASSUME RoundsInv, SaveDiff PROVE RoundsInv'
  OBVIOUS
<1>1. /\ stage = "edited" /\ stage' = "shown" /\ generated' = generated /\ landed' = landed
      /\ baseline' = generated /\ when' = when + 1
      /\ existing' = Diff(generated, existing, LabelsOf(when, when - 1))
  BY DEF SaveDiff
<1> DEFINE labels == LabelsOf(when, when - 1)
<1>2. labels \in [Sides -> Nat]
  BY LabelsAre DEF RoundsInv
<1>3. generated \in Seq(Plain) /\ WellCut(generated) /\ existing \in Seq(Plain) /\ WellCut(existing)
  BY <1>1, TextsArePlain DEF RoundsInv
<1>4. existing' = Diff(generated, existing, labels)
  BY <1>1
<1> HIDE DEF labels
<1>5. existing' \in Seq(Over(labels)) /\ WellCut(existing')
  BY <1>2, <1>3, <1>4, DiffIs
<1>6. /\ generated' \in Texts /\ baseline' \in Texts /\ landed' \subseteq Texts
      /\ when' \in Nat \ {0} /\ stage' # "edited"
  BY <1>1 DEF RoundsInv
<1> QED
  BY <1>2, <1>5, <1>6 DEF RoundsInv

\* Any lines of a text, in their order, make a text of its lines.
LEMMA SomeLines ==
    ASSUME NEW S \in SUBSET Line, NEW s \in Seq(S), WellCut(s), NEW P \in SUBSET (1..Len(s))
    PROVE  LinesAt(s, P) \in Seq(S) /\ WellCut(LinesAt(s, P))
<1> DEFINE at == InOrder(P)
           t == LinesAt(s, P)
<1>1. s \in Text /\ Len(s) \in Nat /\ \A i \in 1..Len(s) : s[i] \in S
  BY Widened DEF Text
<1>2. t \in Text /\ Len(t) = Len(at) /\ \A k \in 1..Len(at) : t[k] = s[at[k]]
  BY <1>1, LinesAtIs
<1>3. at \in Seq(1..Len(s)) /\ \A k \in 1..Len(at) : \A j \in 1..k - 1 : at[j] < at[k]
  BY <1>1, InOrderIs DEF IsRising
<1> HIDE DEF at, t
<1>4. Len(at) \in Nat /\ \A k \in 1..Len(at) : at[k] \in 1..Len(s)
  BY <1>3
<1>5. t \in Seq(S)
  <2>1. \A k \in 1..Len(t) : t[k] \in S
    BY <1>1, <1>2, <1>4
  <2> QED
    BY <1>2, <2>1 DEF Text
<1>6. ASSUME NEW k \in 1..Len(t) - 1 PROVE t[k].ended
  <2>1. k \in 1..Len(at) /\ k + 1 \in 1..Len(at) /\ k \in 1..(k + 1) - 1
    BY <1>2, <1>4
  <2>2. at[k] < at[k + 1] /\ at[k] \in 1..Len(s) /\ at[k + 1] \in 1..Len(s)
    BY <1>3, <1>4, <2>1
  <2>3. at[k] \in 1..Len(s) - 1
    BY <1>1, <2>2
  <2> QED
    BY <1>2, <2>1, <2>3 DEF WellCut
<1> QED
  BY <1>5, <1>6 DEF WellCut, t

\* So does the user who takes marker lines out, which adds no line.
LEMMA ClearMarksSafe == RoundsInv /\ ClearMarks => RoundsInv'
<1> SUFFICES ASSUME RoundsInv, ClearMarks PROVE RoundsInv'
  OBVIOUS
<1>1. /\ generated' = generated /\ baseline' = baseline /\ landed' = landed /\ when' = when
      /\ stage' = "cleared"
  BY DEF ClearMarks
<1>2. PICK marks, left : existing' = LinesAt(existing, DOMAIN existing \ (marks \ left))
  BY Zenon DEF ClearMarks
<1>3. PICK labels \in [Sides -> Nat] : existing \in Seq(Over(labels))
  BY DEF RoundsInv
<1>4. Over(labels) \in SUBSET Line /\ WellCut(existing)
  BY OverIs DEF RoundsInv
<1> DEFINE P == DOMAIN existing \ (marks \ left)
<1>5. P \in SUBSET (1..Len(existing))
  BY <1>3
<1> HIDE DEF P
<1>6. LinesAt(existing, P) \in Seq(Over(labels)) /\ WellCut(LinesAt(existing, P))
  BY <1>3, <1>4, <1>5, SomeLines
<1> QED
  BY <1>1, <1>2, <1>6 DEF RoundsInv, P

\* And so does another input of the generator.
LEMMA RegenerateSafe == RoundsInv /\ Regenerate => RoundsInv'
<1> SUFFICES ASSUME RoundsInv, Regenerate PROVE RoundsInv'
  OBVIOUS
<1>1. /\ generated' \in Regens /\ baseline' = baseline /\ landed' = landed /\ when' = when
      /\ existing' = existing /\ stage' = "generated"
  BY DEF Regenerate
<1> QED
  BY <1>1, RoundsAssumption DEF RoundsInv

\* In every reachable state the file is well cut, has the marks of one run at
\* most for each side, and the generates, the baseline and what landed are
\* texts without marks (saveMerge, saveDiff).
THEOREM RoundsInvHolds == Spec => []RoundsInv
<1>1. Init => RoundsInv
  <2> SUFFICES ASSUME Init PROVE RoundsInv
    OBVIOUS
  <2> DEFINE labels == [s \in Sides |-> 0]
  <2>1. labels \in [Sides -> Nat] /\ existing \in Texts
    BY DEF Init
  <2> HIDE DEF labels
  <2>2. existing \in Seq(Over(labels)) /\ WellCut(existing)
    BY <2>1, TextsArePlain, PlainIsOver
  <2> QED
    BY <2>1, <2>2 DEF Init, RoundsInv
<1>2. RoundsInv /\ [Next]_vars => RoundsInv'
  <2> SUFFICES ASSUME RoundsInv, [Next]_vars PROVE RoundsInv'
    OBVIOUS
  <2>1. CASE SaveMerge
    BY <2>1, SaveMergeSafe
  <2>2. CASE SaveDiff
    BY <2>2, SaveDiffSafe
  <2>3. CASE ClearMarks
    BY <2>3, ClearMarksSafe
  <2>4. CASE Regenerate
    BY <2>4, RegenerateSafe
  <2>5. CASE UNCHANGED vars
    BY <2>5 DEF RoundsInv, vars
  <2> QED
    BY <2>1, <2>2, <2>3, <2>4, <2>5 DEF Next
<1> QED
  BY <1>1, <1>2, PTL DEF Spec

\* No line of the file ever runs into the one after it, whichever text lacks
\* its last newline: neither Merge nor Diff appends anything after such a line
\* without closing it (endsWithNewline).
THEOREM LinesStayWhole == Spec => []NoGluedLines
<1>1. RoundsInv => NoGluedLines
  BY DEF RoundsInv, NoGluedLines
<1> QED
  BY <1>1, RoundsInvHolds, PTL

\* The marks in a file are those of one run for each side, whatever markers the
\* user has taken out: a file with any mark is not merged again (HasConflicts,
\* Merge).
THEOREM MarksAreOfOneRun == Spec => []OneRunOfMarks
<1>1. RoundsInv => OneRunOfMarks
  <2> SUFFICES ASSUME RoundsInv PROVE OneRunOfMarks
    OBVIOUS
  <2>1. PICK labels \in [Sides -> Nat] : existing \in Seq(Over(labels))
    BY DEF RoundsInv
  <2>2. ASSUME NEW i \in DOMAIN existing, existing[i].kind \in {"opens", "closes"}
        PROVE  existing[i].text[2] = labels[existing[i].text[1]]
    <3>1. existing[i] \in Over(labels) /\ existing[i] \notin Plain
      BY <2>1, <2>2 DEF Plain
    <3>2. PICK s \in Sides : existing[i] = Opens(s, labels) \/ existing[i] = Closes(s, labels)
      BY <3>1 DEF Over, Marks
    <3>3. existing[i].text = <<s, labels[s]>>
      BY <3>2 DEF Opens, Closes
    <3> QED
      BY <3>3
  <2> QED
    BY <2>2 DEF OneRunOfMarks
<1> QED
  BY <1>1, RoundsInvHolds, PTL

\* Each fast path of Merge writes what the full merge would, for all texts
\* (go/diff.go 448).
THEOREM ShortcutsAgree == Spec => []FastPathsAgree
<1>1. RoundsInv => FastPathsAgree
  <2> SUFFICES ASSUME RoundsInv, stage = "edited" PROVE FastPathsAgree
    BY DEF FastPathsAgree
  <2> DEFINE labels == LabelsOf(when, when - 1)
             fast == Merge(generated, baseline, existing, labels)
             full == MergeRegions(generated, baseline, existing, labels)
  <2>1. /\ generated \in Text /\ baseline \in Text /\ existing \in Text /\ ~HasConflicts(existing)
    BY TextsArePlain DEF RoundsInv
  <2>2. generated = existing \/ baseline = existing =>
           full = [content |-> generated, outcome |-> "merged", conflict |-> FALSE]
    <3> HIDE DEF labels
    <3> QED
      BY <2>1, MergeOfTwo
  <2>3. \/ generated = existing /\ fast =
                 [content |-> existing, outcome |-> "same", conflict |-> FALSE]
        \/ existing = baseline /\ fast =
                 [content |-> generated, outcome |-> "clean", conflict |-> FALSE]
        \/ fast = full
    BY <2>1, MergeCases, Zenon
  <2> HIDE DEF fast, full
  <2>4. fast.content = full.content /\ fast.conflict = full.conflict
    <3> HIDE DEF labels
    <3>1. generated = existing \/ baseline = existing =>
             full.content = generated /\ full.conflict = FALSE
      BY <2>2
    <3>2. \/ generated = existing /\ fast.content = existing /\ fast.conflict = FALSE
          \/ existing = baseline /\ fast.content = generated /\ fast.conflict = FALSE
          \/ fast = full
      BY <2>3
    <3> QED
      BY <3>1, <3>2, Zenon
  <2> QED
    BY <2>4, Zenon DEF FastPathsAgree, fast, full
<1> QED
  BY <1>1, RoundsInvHolds, PTL

\* A run whose generate is the baseline leaves the file as it is, unless it is
\* an earlier generate, for all texts (Merge, AlignLCS).
THEOREM SettledStays == Spec => SettledFileStays
<1>1. RoundsInv /\ [Next]_vars => [SaveMerge /\ generated = baseline /\ ~Earlier => existing' = existing]_vars
  <2> SUFFICES ASSUME RoundsInv, SaveMerge, generated = baseline, ~Earlier PROVE existing' = existing
    OBVIOUS
  <2> DEFINE labels == LabelsOf(when, when - 1)
             full == MergeRegions(generated, baseline, existing, labels)
  <2>1. generated \in Text /\ baseline \in Text /\ existing \in Text
    BY TextsArePlain, OverIsText DEF RoundsInv
  <2>2. full = [content |-> existing, outcome |-> "merged", conflict |-> FALSE]
    <3> HIDE DEF labels
    <3> QED
      BY <2>1, MergeOfTwo
  <2>3. \/ generated = existing /\ existing' = existing
        \/ existing = baseline /\ existing' = generated
        \/ existing' = existing
        \/ existing' = full.content
    BY SavedIs, Zenon
  <2> HIDE DEF full
  <2> QED
    BY <2>2, <2>3
<1> QED
  BY <1>1, RoundsInvHolds, PTL DEF Spec, SettledFileStays

\* A line that a side has more often than the baseline is in the merged file
\* that many times more, for all texts: no edit of the user's and no line of
\* the generator's is lost (Merge, AlignLCS, writeConflict).
THEOREM NoAdditionIsLost == Spec => AdditionsKept
<1>1. RoundsInv /\ [Next]_vars =>
         [SaveMerge /\ ~Earlier =>
            \A side \in {existing} \cup IF HasConflicts(existing) THEN {} ELSE {generated} :
            \A i \in DOMAIN side :
                Count(existing', side[i]) + Count(baseline, side[i]) >= Count(side, side[i])]_vars
  <2> SUFFICES ASSUME RoundsInv, SaveMerge, ~Earlier,
                      NEW side \in {existing} \cup IF HasConflicts(existing) THEN {} ELSE {generated},
                      NEW i \in DOMAIN side
               PROVE  Count(existing', side[i]) + Count(baseline, side[i]) >= Count(side, side[i])
    OBVIOUS
  <2> DEFINE labels == LabelsOf(when, when - 1)
             line == side[i]
             full == MergeRegions(generated, baseline, existing, labels)
  <2>1. /\ generated \in Seq(Plain) /\ baseline \in Seq(Plain) /\ labels \in [Sides -> Nat]
        /\ generated \in Text /\ baseline \in Text /\ existing \in Text
    BY TextsArePlain, OverIsText, LabelsAre DEF RoundsInv
  <2>2. side = existing \/ (~HasConflicts(existing) /\ side = generated)
    OBVIOUS
  <2>3. \/ generated = existing /\ existing' = existing
        \/ existing = baseline /\ existing' = generated
        \/ HasConflicts(existing) /\ existing' = existing
        \/ ~HasConflicts(existing) /\ existing' = full.content
    BY SavedIs, Zenon
  <2> HIDE DEF labels, line, full
  <2>4. /\ Count(generated, line) \in Nat /\ Count(baseline, line) \in Nat
        /\ Count(existing, line) \in Nat
    BY <2>1, CountIs
  <2>5. CASE ~HasConflicts(existing) /\ existing' = full.content
    <3>1. existing \in Seq(Plain)
      BY <2>1, <2>5, UnmarkedIsPlain
    <3>2. /\ Count(full.content, line) + Count(baseline, line) >= Count(generated, line)
          /\ Count(full.content, line) + Count(baseline, line) >= Count(existing, line)
      BY <2>1, <3>1, FullMergeKeeps DEF full
    <3> QED
      BY <2>2, <2>5, <3>2 DEF line
  <2>6. CASE HasConflicts(existing) /\ existing' = existing
    <3>1. side = existing
      BY <2>2, <2>6
    <3> QED
      BY <2>4, <2>6, <3>1 DEF line
  <2>7. CASE existing = baseline /\ existing' = generated
    BY <2>2, <2>4, <2>7 DEF line
  <2>8. CASE generated = existing /\ existing' = existing
    BY <2>2, <2>4, <2>8 DEF line
  <2> QED
    BY <2>3, <2>5, <2>6, <2>7, <2>8
<1> QED
  BY <1>1, RoundsInvHolds, PTL DEF Spec, AdditionsKept

-----------------------------------------------------------------------------
(* Anchors.                                                                *)

\* AlignLCS anchors on every line of the longest common subsequence (AlignLCS).
LEMMA AlignKeepsAll ==
    ASSUME NEW base \in Text, NEW target \in Text
    PROVE  LET kept == {i \in 1..Len(base) : AlignLCS(base, target)[i] > 0}
           IN  IsFiniteSet(kept) /\ Len(LCS(base, target)) <= Cardinality(kept)
<1> DEFINE common == LCS(base, target)
           inBase == Found(common, base)
           inTarget == Found(common, target)
           n == Len(common)
           Of(i) == {k \in DOMAIN inBase : inBase[k] = i /\ inTarget[k] <= Len(target)}
           map == [i \in 1..Len(base) |-> IF Of(i) = {} THEN 0 ELSE inTarget[Min(Of(i))]]
           kept == {i \in 1..Len(base) : map[i] > 0}
<1>1. /\ common \in Text /\ n \in Nat /\ Len(base) \in Nat /\ Len(target) \in Nat
      /\ InPart(common, base, 0, Len(base)) /\ InPart(common, target, 0, Len(target))
  <2>1. IsLCS(common, base, target)
    BY LCSIsLongest
  <2> HIDE DEF common
  <2>2. common \in Text /\ InPart(common, base, 0, Len(base)) /\ InPart(common, target, 0, Len(target))
    BY <2>1 DEF IsLCS
  <2> QED
    BY <2>2 DEF Text
<1>2. AlignLCS(base, target) = map
  BY Zenon DEF AlignLCS, Paired, map, Of, inBase, inTarget, common
<1> HIDE DEF common
<1>3. /\ inBase \in [1..n -> 1..Len(base) + 1] /\ inTarget \in [1..n -> 1..Len(target) + 1]
  BY <1>1, FoundIs
<1>4. \A k \in 1..n : inBase[k] \in 1..Len(base) /\ inTarget[k] \in 1..Len(target)
  BY <1>1, FoundAll
<1>5. \A k \in 1..n : \A j \in 1..k - 1 : inBase[k] <= Len(base) => inBase[j] < inBase[k]
  BY <1>1, FoundRises
<1> HIDE DEF inBase, inTarget, n
<1>6. ASSUME NEW k \in 1..n PROVE inBase[k] \in kept
  <2> DEFINE i == inBase[k]
  <2>1. i \in 1..Len(base) /\ k \in Of(i) /\ Of(i) \in SUBSET Nat /\ Of(i) \in SUBSET (1..n)
    BY <1>1, <1>3, <1>4
  <2>2. Min(Of(i)) \in Of(i)
    <3> HIDE DEF Of
    <3> QED
      BY <2>1, MinIs
  <2>3. Of(i) # {} /\ Min(Of(i)) \in 1..n
    <3> HIDE DEF Of
    <3> QED
      BY <2>1, <2>2
  <2>4. map[i] = inTarget[Min(Of(i))]
    <3> HIDE DEF Of, i
    <3> QED
      BY <2>1, <2>3
  <2>5. inTarget[Min(Of(i))] \in 1..Len(target)
    BY <1>4, <2>3
  <2> HIDE DEF Of, map
  <2>6. map[i] > 0
    BY <1>1, <2>4, <2>5
  <2> QED
    BY <2>1, <2>6
<1> DEFINE g == [k \in 1..n |-> inBase[k]]
<1>7. IsFiniteSet(kept)
  <2>1. IsFiniteSet(1..Len(base)) /\ kept \in SUBSET (1..Len(base))
    BY <1>1, FS_Interval
  <2> HIDE DEF kept
  <2> QED
    BY <2>1, FS_Subset
<1> HIDE DEF kept, map, Of
<1>8. g \in Injection(1..n, kept)
  <2>1. g \in [1..n -> kept]
    BY <1>6
  <2>2. \A j, k \in 1..n : g[j] = g[k] => j = k
    <3> SUFFICES ASSUME NEW j \in 1..n, NEW k \in 1..n, inBase[j] = inBase[k], j # k PROVE FALSE
      OBVIOUS
    <3>1. j \in 1..k - 1 \/ k \in 1..j - 1
      BY <1>1
    <3>2. inBase[j] < inBase[k] \/ inBase[k] < inBase[j]
      BY <1>4, <1>5, <3>1
    <3> QED
      BY <1>4, <3>2
  <2> HIDE DEF g
  <2> QED
    BY <2>1, <2>2, Fun_IsInj
<1>9. Cardinality(1..n) <= Cardinality(kept)
  <2> HIDE DEF g
  <2> QED
    BY <1>7, <1>8, FS_Injection
<1>10. Cardinality(1..n) = n
  <2>1. 1 \in Int /\ n \in Int
    BY <1>1
  <2>2. Cardinality(1..n) = IF 1 > n THEN 0 ELSE n - 1 + 1
    BY <2>1, FS_Interval
  <2> QED
    BY <1>1, <2>2
<1>11. {i \in 1..Len(base) : AlignLCS(base, target)[i] > 0} = kept
  BY <1>2 DEF kept
<1> QED
  BY <1>7, <1>9, <1>10, <1>11 DEF n, common

\* No pairing of equal lines has more pairs than the longest common
\* subsequence has lines.
LEMMA PairingFits ==
    ASSUME NEW a \in Text, NEW b \in Text, NEW D \in SUBSET (1..Len(a)),
           NEW f \in [D -> 1..Len(b)], IsPairing(f, a, b)
    PROVE  Cardinality(D) <= Len(LCS(a, b))
<1> DEFINE at == InOrder(D)
           n == Len(at)
           u == [k \in 1..n |-> at[k]]
           v == [k \in 1..n |-> f[at[k]]]
<1>1. Len(a) \in Nat /\ Len(b) \in Nat
  BY DEF Text
<1>2. IsRising(at, Len(a)) /\ n = Cardinality(D) /\ \A k \in 1..n : at[k] \in D
  BY <1>1, InOrderIs
<1> HIDE DEF at
<1>3. n \in Nat /\ \A k \in 1..n : \A j \in 1..k - 1 : at[j] < at[k]
  BY <1>2 DEF IsRising
<1>4. \A i \in D : i \in 1..Len(a) /\ f[i] \in 1..Len(b) /\ b[f[i]] = a[i]
  BY DEF IsPairing
<1>5. \A i, j \in D : i < j => f[i] < f[j]
  BY DEF IsPairing
<1> HIDE DEF n
<1>6. u \in [1..n -> 0 + 1..Len(a)] /\ v \in [1..n -> 0 + 1..Len(b)]
  BY <1>2, <1>4
<1>7. \A k \in 1..n : u[k] = at[k] /\ v[k] = f[at[k]]
  OBVIOUS
<1> HIDE DEF u, v
<1>8. ASSUME NEW k \in 1..n, NEW j \in 1..k - 1 PROVE u[j] < u[k] /\ v[j] < v[k]
  <2>1. j \in 1..n /\ at[j] < at[k] /\ at[j] \in D /\ at[k] \in D
    BY <1>2, <1>3
  <2> QED
    BY <1>5, <1>7, <2>1
<1>9. \A k \in 1..n : a[u[k]] = b[v[k]]
  BY <1>2, <1>4, <1>7
<1>10. IsMatch(u, v, a, 0, Len(a), b, 0, Len(b), n)
  BY <1>6, <1>8, <1>9 DEF IsMatch, Rises
<1>11. Match(a, 0, Len(a), b, 0, Len(b), n)
  BY <1>10 DEF Match
<1>12. n <= Len(LCS(a, b))
  BY <1>3, <1>11, LCSIsLongest DEF IsLCS
<1> QED
  BY <1>2, <1>12

\* The merge anchors on as many lines as two texts can share, for all texts:
\* the greedy walks of AlignLCS lose none that LCS found, and LCS finds as
\* many as any pairing (AlignLCS, LCS, hirschberg, lcsRow).
THEOREM AnchorsAreLongest == Spec => []LongestAnchors
<1>1. RoundsInv => LongestAnchors
  <2> SUFFICES ASSUME RoundsInv, stage = "edited" PROVE LongestAnchors
    BY DEF LongestAnchors
  <2> DEFINE a == baseline
             b == existing
             map == AlignLCS(a, b)
             kept == {i \in DOMAIN map : map[i] > 0}
             longest == \A places \in SUBSET DOMAIN a : \A f \in [places -> DOMAIN b] :
                           IsPairing(f, a, b) => Cardinality(places) <= Cardinality(kept)
             paired == IsPairing([i \in kept |-> map[i]], a, b)
  <2>1. a \in Text /\ b \in Text
    BY TextsArePlain DEF RoundsInv
  <2>2. /\ DOMAIN a = 1..Len(a) /\ DOMAIN b = 1..Len(b) /\ Len(a) \in Nat /\ Len(b) \in Nat
    BY <2>1 DEF Text
  <2> HIDE DEF a, b
  <2>3. IsAlignment(map, a, b)
    BY <2>1, AlignIs
  <2>4. DOMAIN map = 1..Len(a)
    BY <2>3 DEF IsAlignment
  <2>5. /\ \A i \in kept : i \in 1..Len(a) /\ b[map[i]] = a[i]
        /\ \A i, j \in kept : i < j => map[i] < map[j]
    BY <2>3, <2>4 DEF IsAlignment
  <2>6. paired
    <3> HIDE DEF kept, map
    <3> QED
      BY <2>5 DEF IsPairing
  <2>7. IsFiniteSet(kept) /\ Len(LCS(a, b)) <= Cardinality(kept)
    <3>1. kept = {i \in 1..Len(a) : AlignLCS(a, b)[i] > 0}
      BY <2>4
    <3> HIDE DEF kept
    <3> QED
      BY <2>1, <3>1, AlignKeepsAll
  <2>8. longest
    <3> SUFFICES ASSUME NEW D \in SUBSET (1..Len(a)), NEW f \in [D -> 1..Len(b)], IsPairing(f, a, b)
                 PROVE  Cardinality(D) <= Cardinality(kept)
      BY <2>2
    <3>1. Cardinality(D) <= Len(LCS(a, b))
      BY <2>1, PairingFits
    <3>2. Cardinality(D) \in Nat /\ Cardinality(kept) \in Nat /\ Len(LCS(a, b)) \in Nat
      <4>1. IsFiniteSet(D)
        <5>1. IsFiniteSet(1..Len(a))
          BY <2>2, FS_Interval
        <5> QED
          BY <5>1, FS_Subset
      <4>2. LCS(a, b) \in Text
        BY <2>1, LCSIsLongest DEF IsLCS
      <4> HIDE DEF kept
      <4> QED
        BY <2>7, <4>1, <4>2, FS_CardinalityType DEF Text
    <3> HIDE DEF kept
    <3> QED
      BY <2>7, <3>1, <3>2
  <2>9. \E m \in {AlignLCS(baseline, existing)} :
            LET held == {i \in DOMAIN m : m[i] > 0}
            IN  /\ IsPairing([i \in held |-> m[i]], baseline, existing)
                /\ \A places \in SUBSET DOMAIN baseline : \A f \in [places -> DOMAIN existing] :
                      IsPairing(f, baseline, existing) => Cardinality(places) <= Cardinality(held)
    <3>1. map \in {AlignLCS(baseline, existing)}
      BY DEF a, b
    <3> QED
      BY <2>6, <2>8, <3>1, Zenon DEF a, b
  <2> QED
    BY <2>9, Zenon DEF LongestAnchors
<1> QED
  BY <1>1, RoundsInvHolds, PTL

-----------------------------------------------------------------------------
(* What a diff shows.                                                      *)

\* The lines of a hunk that are of the text read when the blocks of the other
\* side are passed over.
Seen(h, other) == IF h.kind = "same" \/ other = "EXISTING" THEN h.generated ELSE h.existing

\* The text that is read when the blocks of the other side are passed over.
TextOf(gen, exist, other) == IF other = "EXISTING" THEN gen ELSE exist

\* The lines seen in the hunks, in their order, are those of s.
Joined(o, other, s) ==
    \E g \in [0..Len(o) -> Text] :
        /\ g[0] = <<>> /\ g[Len(o)] = s
        /\ \A k \in 1..Len(o) : g[k] = g[k - 1] \o Seen(o[k], other)

\* In no hunk there is nothing.
LEMMA JoinedNone ==
    ASSUME NEW other
    PROVE  Joined(<<>>, other, <<>>)
<1> DEFINE g == [k \in 0..0 |-> <<>>]
<1>1. g \in [0..0 -> Text] /\ g[0] = <<>> /\ Len(<<>>) = 0 /\ 1..0 = {}
  BY DEF Text
<1> HIDE DEF g
<1>2. g \in [0..Len(<<>>) -> Text] /\ g[Len(<<>>)] = <<>> /\ \A k \in 1..Len(<<>>) : FALSE
  BY <1>1
<1> QED
  BY <1>1, <1>2, Zenon DEF Joined

\* What is seen in a hunk is a text.
LEMMA SeenIs ==
    ASSUME NEW h \in HunkShape, NEW other
    PROVE  Seen(h, other) \in Text /\ Seen(h, other) \in Seq(Plain)
<1>1. h.generated \in Seq(Plain) /\ h.existing \in Seq(Plain) /\ Plain \in SUBSET Line
  BY DEF HunkShape, Plain
<1>2. Seen(h, other) \in Seq(Plain)
  BY <1>1 DEF Seen
<1> QED
  BY <1>1, <1>2, Widened DEF Text

\* One hunk more shows its lines after the others.
LEMMA JoinedMore ==
    ASSUME NEW o \in Seq(HunkShape), NEW h \in HunkShape, NEW other, NEW s, Joined(o, other, s)
    PROVE  Joined(Append(o, h), other, s \o Seen(h, other))
<1> DEFINE n == Len(o)
           p == Append(o, h)
           t == s \o Seen(h, other)
<1>1. n \in Nat /\ Len(p) = n + 1 /\ p[n + 1] = h /\ \A k \in 1..n : p[k] = o[k]
  OBVIOUS
<1>2. PICK g \in [0..n -> Text] :
         g[0] = <<>> /\ g[n] = s /\ \A k \in 1..n : g[k] = g[k - 1] \o Seen(o[k], other)
  BY DEF Joined
<1> HIDE DEF n, p
<1>3. t \in Text
  <2>1. s \in Text /\ Seen(h, other) \in Text
    BY <1>1, <1>2, SeenIs
  <2> QED
    BY <2>1 DEF Text
<1> HIDE DEF t
<1> DEFINE f == [k \in 0..n + 1 |-> IF k = n + 1 THEN t ELSE g[k]]
<1>4. f \in [0..n + 1 -> Text] /\ f[n + 1] = t /\ \A k \in 0..n : f[k] = g[k]
  BY <1>1, <1>2, <1>3
<1> HIDE DEF f
<1>5. ASSUME NEW k \in 1..n + 1 PROVE f[k] = f[k - 1] \o Seen(p[k], other)
  <2>1. CASE k = n + 1
    <3>1. k - 1 = n /\ n \in 0..n
      BY <1>1, <2>1
    <3>2. f[k - 1] = s
      BY <1>2, <1>4, <3>1
    <3> QED
      BY <1>1, <1>4, <2>1, <3>2 DEF t
  <2>2. CASE k # n + 1
    <3>1. k \in 1..n /\ k \in 0..n /\ k - 1 \in 0..n
      BY <1>1, <2>2
    <3> QED
      BY <1>1, <1>2, <1>4, <3>1
  <2> QED
    BY <2>1, <2>2
<1>6. f[0] = <<>>
  BY <1>1, <1>2, <1>4
<1> QED
  BY <1>1, <1>4, <1>5, <1>6 DEF Joined, p, t

\* A line that joins the last hunk, of shared lines, is seen after the others.
LEMMA JoinedLonger ==
    ASSUME NEW o \in Seq(HunkShape), o # <<>>, Last(o).kind = "same", NEW l \in Plain,
           NEW other, NEW s, Joined(o, other, s)
    PROVE  Joined(Share(o, l), other, s \o <<l>>)
<1> DEFINE n == Len(o)
           old == o[n]
           longer == [old EXCEPT !.generated = Append(old.generated, l)]
           p == [o EXCEPT ![n] = longer]
           t == s \o <<l>>
<1>1. n \in Nat /\ n \in 1..n /\ old \in HunkShape /\ old.kind = "same"
  BY DEF Last
<1>2. PICK g \in [0..n -> Text] :
         g[0] = <<>> /\ g[n] = s /\ \A k \in 1..n : g[k] = g[k - 1] \o Seen(o[k], other)
  BY DEF Joined
<1>3. Share(o, l) = p
  BY DEF Share, Last
<1>4. /\ old.generated \in Seq(Plain)
      /\ longer.kind = "same" /\ longer.generated = Append(old.generated, l)
  BY <1>1 DEF HunkShape
<1> HIDE DEF longer
<1>5. Len(p) = n /\ \A k \in 1..n : p[k] = IF k = n THEN longer ELSE o[k]
  BY <1>1
<1>6. Seen(longer, other) = Append(old.generated, l) /\ Seen(old, other) = old.generated
  BY <1>1, <1>4 DEF Seen
<1> HIDE DEF n, p, old
<1>7. g[n] = g[n - 1] \o old.generated
  BY <1>1, <1>2, <1>6 DEF old
<1>8. g[n - 1] \in Seq(Line) /\ old.generated \in Seq(Line) /\ l \in Line /\ s \in Seq(Line)
  <2>1. n - 1 \in 0..n /\ n \in 0..n
    BY <1>1
  <2> QED
    BY <1>2, <1>4, <2>1, Widened DEF Text, Plain
<1>9. t = g[n - 1] \o Append(old.generated, l) /\ t \in Text
  <2> DEFINE a == g[n - 1]
             b == old.generated
  <2>1. a \in Seq(Line) /\ b \in Seq(Line) /\ s = a \o b
    BY <1>2, <1>7, <1>8
  <2> HIDE DEF a, b
  <2>2. Append(b, l) = b \o <<l>> /\ <<l>> \in Seq(Line)
    BY <1>8, <2>1
  <2>3. a \o (b \o <<l>>) = (a \o b) \o <<l>>
    BY <2>1, <2>2, JoinsAssociate
  <2>4. s \o <<l>> \in Seq(Line)
    BY <1>8
  <2> QED
    BY <2>1, <2>2, <2>3, <2>4 DEF a, b, Text
<1> HIDE DEF t
<1> DEFINE f == [k \in 0..n |-> IF k = n THEN t ELSE g[k]]
<1>10. f \in [0..n -> Text] /\ f[n] = t /\ \A k \in 0..n - 1 : f[k] = g[k]
  <2>1. n \in Nat /\ t \in Text
    BY <1>1, <1>9
  <2> QED
    BY <1>2, <2>1
<1> HIDE DEF f
<1>11. ASSUME NEW k \in 1..n PROVE f[k] = f[k - 1] \o Seen(p[k], other)
  <2>1. k - 1 \in 0..n - 1
    BY <1>1
  <2>2. CASE k = n
    BY <1>5, <1>6, <1>9, <1>10, <2>1, <2>2
  <2>3. CASE k # n
    <3>1. k \in 0..n - 1
      BY <1>1, <2>3
    <3> QED
      BY <1>2, <1>5, <1>10, <2>1, <2>3, <3>1
  <2> QED
    BY <2>2, <2>3
<1>12. f[0] = <<>>
  BY <1>1, <1>2, <1>10
<1>13. Joined(p, other, t)
  BY <1>5, <1>10, <1>11, <1>12 DEF Joined
<1> QED
  BY <1>3, <1>13 DEF t

\* A changed region shows the lines of its side after the others.
LEMMA FlushReads ==
    ASSUME NEW o \in Seq(HunkShape), NEW gen \in Seq(Plain), NEW exist \in Seq(Plain),
           NEW other, NEW s \in Text, Joined(o, other, s)
    PROVE  Joined(Flush(o, gen, exist), other, s \o TextOf(gen, exist, other))
<1>1. CASE gen = <<>> /\ exist = <<>>
  <2>1. TextOf(gen, exist, other) = <<>> /\ Flush(o, gen, exist) = o
    BY <1>1 DEF TextOf, Flush
  <2>2. s \o <<>> = s
    BY ConcatEmptySeq DEF Text
  <2> QED
    BY <2>1, <2>2
<1>2. CASE ~(gen = <<>> /\ exist = <<>>)
  <2> DEFINE h == [kind |-> "change", generated |-> gen, existing |-> exist]
  <2>1. h \in HunkShape /\ Seen(h, other) = TextOf(gen, exist, other)
    BY DEF HunkShape, Seen, TextOf
  <2>2. Flush(o, gen, exist) = Append(o, h)
    BY <1>2 DEF Flush
  <2> HIDE DEF h
  <2> QED
    BY <2>1, <2>2, JoinedMore
<1> QED
  BY <1>1, <1>2

\* And a shared line that line.
LEMMA ShareReads ==
    ASSUME NEW o \in Seq(HunkShape), NEW l \in Plain, NEW other, NEW s, Joined(o, other, s)
    PROVE  Joined(Share(o, l), other, s \o <<l>>)
<1>1. CASE o # <<>> /\ Last(o).kind = "same"
  BY <1>1, JoinedLonger
<1>2. CASE ~(o # <<>> /\ Last(o).kind = "same")
  <2> DEFINE h == [kind |-> "same", generated |-> <<l>>, existing |-> <<>>]
  <2>1. h \in HunkShape /\ Seen(h, other) = <<l>>
    BY DEF HunkShape, Seen
  <2>2. Share(o, l) = Append(o, h)
    BY <1>2 DEF Share
  <2> HIDE DEF h
  <2> QED
    BY <2>1, <2>2, JoinedMore
<1> QED
  BY <1>1, <1>2

\* The lines of one text of a diff are seen in its hunks, all and in order: the
\* two walks come to every common line, and no gap is left out (Hunks).
LEMMA HunksRead ==
    ASSUME NEW gen \in Seq(Plain), NEW exist \in Seq(Plain), WellCut(gen), WellCut(exist), NEW other
    PROVE  Hunks(gen, exist) \in Seq(HunkShape) /\ Joined(Hunks(gen, exist), other, TextOf(gen, exist, other))
<1> DEFINE common == LCS(gen, exist)
           n == Len(common)
           inGen == Found(common, gen)
           inExist == Found(common, exist)
           H == HunksTo(gen, exist, common, inGen, inExist)
           g(k) == Between(gen, inGen, k)
           e(k) == Between(exist, inExist, k)
           x == TextOf(gen, exist, other)
           at == TextOf(inGen, inExist, other)
<1>1. gen \in Text /\ exist \in Text
  BY Widened DEF Text, Plain
<1>2. common \in Text /\ InPart(common, gen, 0, Len(gen)) /\ InPart(common, exist, 0, Len(exist))
  BY <1>1, LCSIsLongest DEF IsLCS
<1>3. common \in Seq(Plain) /\ n \in Nat
  <2>1. Takes(common, gen)
    BY <1>1, LCSTakes
  <2> HIDE DEF common
  <2>2. common \in Seq(Line) /\ \A i \in 1..n : common[i] \in ToSet(gen)
    BY <2>1 DEF Takes, Text
  <2>3. ToSet(gen) \subseteq Plain
    BY DEF ToSet
  <2>4. \A i \in 1..n : common[i] \in Plain
    BY <2>2, <2>3
  <2> QED
    BY <2>2, <2>4
<1> HIDE DEF common
<1>4. inGen \in [1..n -> 1..Len(gen) + 1] /\ inExist \in [1..n -> 1..Len(exist) + 1]
  BY <1>1, <1>2, FoundIs
<1>5. H[0] = <<>> /\ \A k \in 1..n : H[k] = Share(Flush(H[k - 1], g(k), e(k)), common[k])
  <2> HIDE DEF inGen, inExist
  <2> QED
    BY <1>3, <1>4, HunksToIs, SMTT(60)
<1>6. \A k \in 1..n + 1 : g(k) \in Seq(Plain) /\ WellCut(g(k)) /\ e(k) \in Seq(Plain) /\ WellCut(e(k))
  <2> HIDE DEF inGen, inExist
  <2> QED
    BY <1>3, <1>4, GapIs
<1>7. Hunks(gen, exist) = Flush(H[n], g(n + 1), e(n + 1))
  BY Zenon DEF Hunks, HunksOf, common
<1>8. \A k \in 1..n + 1 : TextOf(g(k), e(k), other) = Between(x, at, k)
  BY DEF TextOf
<1>9. /\ x \in Text /\ at = Found(common, x) /\ InPart(common, x, 0, Len(x))
  BY <1>1, <1>2 DEF TextOf
<1> HIDE DEF inGen, inExist, H, g, e, x, at
<1>10. /\ at \in [1..n -> 1..Len(x)] /\ \A k \in 1..n : x[at[k]] = common[k]
       /\ \A k \in 1..n : \A j \in 1..k - 1 : at[j] < at[k]
  <2>1. at \in [1..n -> 1..Len(x) + 1] /\ \A k \in 1..n : at[k] \in 1..Len(x)
    BY <1>2, <1>9, FoundIs, FoundAll
  <2>2. \A k \in 1..n : at[k] <= Len(x)
    BY <1>9, <2>1 DEF Text
  <2>3. \A k \in 1..n : x[at[k]] = common[k]
    BY <1>2, <1>9, <2>2, FoundThere
  <2>4. \A k \in 1..n : \A j \in 1..k - 1 : at[j] < at[k]
    BY <1>2, <1>9, <2>2, FoundRises
  <2> HIDE DEF n
  <2> QED
    BY <2>1, <2>3, <2>4
<1>11. IsRising(at, Len(x)) /\ Len(at) = n /\ DOMAIN at = 1..n
  <2> HIDE DEF n
  <2> QED
    BY <1>3, <1>10 DEF IsRising
<1> DEFINE add(k) == IF k \in 1..n THEN <<common[k]>> ELSE <<>>
           pieces == [k \in 1..n + 1 |-> Between(x, at, k) \o add(k)]
<1>12. \A k \in 1..n + 1 : Between(x, at, k) \in Text /\ add(k) \in Text
  <2>1. \A k \in 1..n + 1 : Between(x, at, k) \in Text
    BY <1>9, <1>11, BetweenIs
  <2>2. \A k \in 1..n + 1 : add(k) \in Text
    BY <1>2 DEF Text
  <2> QED
    BY <2>1, <2>2
<1>13. pieces \in [1..n + 1 -> Text]
  <2>1. \A k \in 1..n + 1 : Between(x, at, k) \o add(k) \in Text
    <3> SUFFICES ASSUME NEW k \in 1..n + 1 PROVE Between(x, at, k) \o add(k) \in Text
      OBVIOUS
    <3>1. Between(x, at, k) \in Text /\ add(k) \in Text
      BY <1>12
    <3> HIDE DEF add
    <3> QED
      BY <3>1, ConcatProperties DEF Text
  <2> HIDE DEF add, n
  <2> QED
    BY <2>1
<1>14. \A k \in 1..n + 1 : pieces[k] = Between(x, at, k) \o add(k)
  OBVIOUS
<1> HIDE DEF pieces
<1>15. FlattenSeq(pieces) = x
  <2>1. \A k \in 1..Len(at) + 1 :
          pieces[k] = Between(x, at, k) \o IF k \in DOMAIN at THEN <<x[at[k]]>> ELSE <<>>
    BY <1>10, <1>11, <1>14
  <2> HIDE DEF n, add
  <2> QED
    BY <1>9, <1>11, <1>13, <2>1, Reassembled
<1> HIDE DEF add, n
<1>16. PICK f \in [0..n + 1 -> Seq(Line)] : IsJoining(f, pieces, n + 1) /\ FlattenSeq(pieces) = f[n + 1]
  <2>1. n + 1 \in Nat /\ pieces \in [1..n + 1 -> Seq(Line)]
    BY <1>3, <1>13 DEF Text, n
  <2> QED
    BY <2>1, FlattenIs
<1>17. n \in Nat
  BY <1>3 DEF n
<1> DEFINE Q == {k \in Nat : k <= n => H[k] \in Seq(HunkShape) /\ Joined(H[k], other, f[k])}
<1>18. 0 \in Q
  <2>1. 0 \in Nat /\ f[0] = <<>> /\ <<>> \in Seq(HunkShape)
    BY <1>16 DEF IsJoining
  <2> QED
    BY <1>5, <2>1, JoinedNone
<1>19. ASSUME NEW k \in 1..n + 1, H[k - 1] \in Seq(HunkShape), Joined(H[k - 1], other, f[k - 1])
       PROVE  /\ Flush(H[k - 1], g(k), e(k)) \in Seq(HunkShape)
              /\ Joined(Flush(H[k - 1], g(k), e(k)), other, f[k - 1] \o Between(x, at, k))
              /\ f[k - 1] \in Text
  <2>1. g(k) \in Seq(Plain) /\ e(k) \in Seq(Plain) /\ f[k - 1] \in Text
    <3>1. k - 1 \in 0..n + 1
      BY <1>17
    <3> QED
      BY <1>6, <1>16, <3>1 DEF n, Text
  <2>2. Flush(H[k - 1], g(k), e(k)) \in Seq(HunkShape)
    <3>1. WellCut(g(k)) /\ WellCut(e(k))
      BY <1>6 DEF n
    <3> QED
      BY <1>19, <2>1, <3>1, FlushIs
  <2>3. Joined(Flush(H[k - 1], g(k), e(k)), other, f[k - 1] \o TextOf(g(k), e(k), other))
    BY <1>19, <2>1, FlushReads
  <2>4. TextOf(g(k), e(k), other) = Between(x, at, k)
    BY <1>8 DEF n
  <2> QED
    BY <2>1, <2>2, <2>3, <2>4
<1>20. \A k \in 1..n + 1 : f[k] = (f[k - 1] \o Between(x, at, k)) \o add(k)
  <2> SUFFICES ASSUME NEW k \in 1..n + 1 PROVE f[k] = (f[k - 1] \o Between(x, at, k)) \o add(k)
    OBVIOUS
  <2> DEFINE a == f[k - 1]
             b == Between(x, at, k)
             c == add(k)
  <2>1. a \in Seq(Line) /\ b \in Seq(Line) /\ c \in Seq(Line)
    <3>1. k - 1 \in 0..n + 1
      BY <1>17
    <3> QED
      BY <1>12, <1>16, <3>1 DEF Text, n, add
  <2>2. f[k] = a \o (b \o c)
    BY <1>14, <1>16 DEF IsJoining, n, add
  <2> HIDE DEF a, b, c
  <2>3. f[k] = (a \o b) \o c
    BY <2>1, <2>2, JoinsAssociate
  <2> QED
    BY <2>3 DEF a, b, c
<1>21. ASSUME NEW k \in Nat, k \in Q PROVE k + 1 \in Q
  <2> SUFFICES ASSUME k + 1 <= n
               PROVE  H[k + 1] \in Seq(HunkShape) /\ Joined(H[k + 1], other, f[k + 1])
    OBVIOUS
  <2>1. k + 1 \in 1..n + 1 /\ k + 1 \in 1..n /\ (k + 1) - 1 = k /\ k <= n
    BY <1>17
  <2>2. H[k] \in Seq(HunkShape) /\ Joined(H[k], other, f[k])
    BY <1>21, <2>1
  <2> DEFINE o == Flush(H[k], g(k + 1), e(k + 1))
             t == f[k] \o Between(x, at, k + 1)
  <2>3. o \in Seq(HunkShape) /\ Joined(o, other, t)
    <3> DEFINE j == k + 1
    <3>1. j \in 1..n + 1 /\ j - 1 = k
      BY <2>1
    <3>2. H[j - 1] \in Seq(HunkShape) /\ Joined(H[j - 1], other, f[j - 1])
      BY <2>2, <3>1
    <3> HIDE DEF j
    <3>3. /\ Flush(H[j - 1], g(j), e(j)) \in Seq(HunkShape)
          /\ Joined(Flush(H[j - 1], g(j), e(j)), other, f[j - 1] \o Between(x, at, j))
      BY <1>19, <3>1, <3>2
    <3>4. /\ Flush(H[k], g(j), e(j)) \in Seq(HunkShape)
          /\ Joined(Flush(H[k], g(j), e(j)), other, f[k] \o Between(x, at, j))
      BY <3>1, <3>3
    <3> QED
      BY <3>4 DEF j
  <2>4. common[k + 1] \in Plain
    BY <1>3, <2>1 DEF n
  <2>5. H[k + 1] = Share(o, common[k + 1])
    BY <1>5, <2>1 DEF n
  <2>6. f[k + 1] = t \o <<common[k + 1]>>
    BY <1>20, <2>1 DEF add
  <2> HIDE DEF o, t
  <2>7. Share(o, common[k + 1]) \in Seq(HunkShape)
    BY <2>3, <2>4, ShareIs
  <2> QED
    BY <2>3, <2>4, <2>5, <2>6, <2>7, ShareReads
<1>22. n \in Q
  <2>1. Nat \subseteq Q
    <3> HIDE DEF Q
    <3> QED
      BY <1>18, <1>21, AllNumbers
  <2> QED
    BY <1>17, <2>1
<1>23. /\ Flush(H[n], g(n + 1), e(n + 1)) \in Seq(HunkShape)
       /\ Joined(Flush(H[n], g(n + 1), e(n + 1)), other, f[n] \o Between(x, at, n + 1))
       /\ f[n] \in Text
  <2> DEFINE j == n + 1
  <2>1. j \in 1..n + 1 /\ j - 1 = n
    BY <1>17
  <2>2. H[j - 1] \in Seq(HunkShape) /\ Joined(H[j - 1], other, f[j - 1])
    BY <1>22, <1>17, <2>1
  <2> HIDE DEF j
  <2>3. /\ Flush(H[j - 1], g(j), e(j)) \in Seq(HunkShape)
        /\ Joined(Flush(H[j - 1], g(j), e(j)), other, f[j - 1] \o Between(x, at, j))
        /\ f[j - 1] \in Text
    BY <1>19, <2>1, <2>2
  <2>4. /\ Flush(H[n], g(j), e(j)) \in Seq(HunkShape)
        /\ Joined(Flush(H[n], g(j), e(j)), other, f[n] \o Between(x, at, j))
        /\ f[n] \in Text
    BY <2>1, <2>3
  <2> QED
    BY <2>4 DEF j
<1>24. f[n] \o Between(x, at, n + 1) = x
  <2>1. n + 1 \in 1..n + 1 /\ n + 1 \notin 1..n /\ (n + 1) - 1 = n
    BY <1>17
  <2>2. f[n + 1] = (f[n] \o Between(x, at, n + 1)) \o <<>>
    BY <1>20, <2>1 DEF add
  <2>3. f[n] \o Between(x, at, n + 1) \in Seq(Line)
    <3>1. Between(x, at, n + 1) \in Text
      BY <1>12, <2>1 DEF n
    <3> QED
      BY <1>23, <3>1, ConcatProperties DEF Text
  <2>4. (f[n] \o Between(x, at, n + 1)) \o <<>> = f[n] \o Between(x, at, n + 1)
    BY <2>3, ConcatEmptySeq
  <2> QED
    BY <1>15, <1>16, <2>2, <2>4
<1> QED
  BY <1>7, <1>23, <1>24 DEF x, n

\* Every block of a text is closed in it.
Settled(t) == \A i \in 1..Len(t) : t[i].kind = "opens" => \E j \in i..Len(t) : t[j].kind = "closes"

\* A line that is read: it marks nothing and stands in no block of the other
\* side.
Visible(t, other, i) == t[i].kind \notin {"opens", "closes"} /\ ~InBlock(t, other, i)

\* Two lines that are alike but for a newline.
Like(l, m) == l.kind = m.kind /\ l.text = m.text

\* f leads from the lines of s to the lines of t that are read, in their order.
IsView(f, t, other, s) ==
    /\ f \in [1..Len(s) -> 1..Len(t)] /\ Rises(f, Len(s))
    /\ \A k \in 1..Len(s) : Visible(t, other, f[k]) /\ Like(t[f[k]], s[k])
    /\ \A i \in 1..Len(t) : Visible(t, other, i) => \E k \in 1..Len(s) : f[k] = i

\* What is read of t is s, but for newlines.
Shows(t, other, s) == Settled(t) /\ \E f : IsView(f, t, other, s)

\* A block is of one text: it does not reach into what follows the text.
LEMMA InBlockJoins ==
    ASSUME NEW a \in Text, NEW b \in Text, Settled(a), NEW other
    PROVE  /\ \A i \in 1..Len(a) : InBlock(a \o b, other, i) <=> InBlock(a, other, i)
           /\ \A i \in 1..Len(b) : InBlock(a \o b, other, Len(a) + i) <=> InBlock(b, other, i)
<1> DEFINE n == Len(a)
           m == Len(b)
           c == a \o b
<1>1. /\ n \in Nat /\ m \in Nat
      /\ \A i \in 1..n : c[i] = a[i]
      /\ \A i \in 1..m : c[n + i] = b[i]
  BY DEF Text
<1>2. \A i \in 1..n : a[i].kind = "opens" => \E j \in i..n : a[j].kind = "closes"
  BY DEF Settled
<1> HIDE DEF n, m, c
<1>3. ASSUME NEW i \in 1..n PROVE InBlock(c, other, i) <=> InBlock(a, other, i)
  <2>1. \A s \in 1..i : c[s] = a[s] /\ \A j \in s..i - 1 : c[j] = a[j]
    <3>1. \A s \in 1..i : s \in 1..n /\ \A j \in s..i - 1 : j \in 1..n
      BY <1>1
    <3> QED
      BY <1>1, <3>1
  <2> QED
    BY <2>1 DEF InBlock
<1>4. ASSUME NEW i \in 1..m PROVE InBlock(c, other, n + i) <=> InBlock(b, other, i)
  <2>1. ASSUME InBlock(b, other, i) PROVE InBlock(c, other, n + i)
    <3>1. PICK s \in 1..i : /\ b[s].kind = "opens" /\ b[s].text[1] = other
                            /\ \A j \in s..i - 1 : b[j].kind # "closes"
      BY <2>1 DEF InBlock
    <3>2. s \in 1..m /\ n + s \in 1..n + i /\ c[n + s] = b[s]
      BY <1>1
    <3>3. ASSUME NEW j \in n + s..(n + i) - 1 PROVE c[j].kind # "closes"
      <4>1. j - n \in s..i - 1 /\ j - n \in 1..m /\ n + (j - n) = j
        BY <1>1
      <4>2. c[n + (j - n)] = b[j - n]
        BY <1>1, <4>1
      <4> QED
        BY <3>1, <4>1, <4>2
    <3> QED
      BY <3>1, <3>2, <3>3 DEF InBlock
  <2>2. ASSUME InBlock(c, other, n + i) PROVE InBlock(b, other, i)
    <3>1. PICK s \in 1..n + i : /\ c[s].kind = "opens" /\ c[s].text[1] = other
                                /\ \A j \in s..(n + i) - 1 : c[j].kind # "closes"
      BY <2>2 DEF InBlock
    <3>2. CASE s \in 1..n
      <4>1. a[s].kind = "opens"
        BY <1>1, <3>1, <3>2
      <4>2. PICK j \in s..n : a[j].kind = "closes"
        BY <1>2, <3>2, <4>1
      <4>3. j \in s..(n + i) - 1 /\ j \in 1..n
        BY <1>1, <3>2
      <4> QED
        BY <1>1, <3>1, <4>2, <4>3
    <3>3. CASE s \notin 1..n
      <4> DEFINE r == s - n
      <4>1. r \in 1..i /\ r \in 1..m /\ n + r = s
        BY <1>1, <3>3
      <4> HIDE DEF r
      <4>2. c[s] = b[r]
        BY <1>1, <4>1
      <4>3. ASSUME NEW j \in r..i - 1 PROVE b[j].kind # "closes"
        <5>1. n + j \in s..(n + i) - 1 /\ j \in 1..m
          BY <1>1, <4>1
        <5>2. c[n + j] = b[j]
          BY <1>1, <5>1
        <5> QED
          BY <3>1, <5>1, <5>2
      <4> QED
        BY <3>1, <4>1, <4>2, <4>3 DEF InBlock
    <3> QED
      BY <3>2, <3>3
  <2> QED
    BY <2>1, <2>2
<1> QED
  BY <1>3, <1>4 DEF n, m, c

\* What is read of two texts, one after the other.
LEMMA ShowsJoin ==
    ASSUME NEW a \in Text, NEW b \in Text, NEW s \in Text, NEW u \in Text, NEW other,
           Shows(a, other, s), Shows(b, other, u)
    PROVE  a \o b \in Text /\ s \o u \in Text /\ Shows(a \o b, other, s \o u)
<1> DEFINE n == Len(a)
           m == Len(b)
           c == a \o b
           p == Len(s)
           q == Len(u)
           t == s \o u
<1>1. /\ n \in Nat /\ m \in Nat /\ Len(c) = n + m /\ c \in Text
      /\ \A i \in 1..n : c[i] = a[i]
      /\ \A i \in 1..m : c[n + i] = b[i]
  BY DEF Text
<1>2. /\ p \in Nat /\ q \in Nat /\ Len(t) = p + q /\ t \in Text
      /\ \A i \in 1..p : t[i] = s[i]
      /\ \A i \in 1..q : t[p + i] = u[i]
  BY DEF Text
<1>3. /\ \A i \in 1..n : InBlock(c, other, i) <=> InBlock(a, other, i)
      /\ \A i \in 1..m : InBlock(c, other, n + i) <=> InBlock(b, other, i)
  BY InBlockJoins DEF Shows
<1>4. PICK f : /\ f \in [1..p -> 1..n] /\ Rises(f, p)
               /\ \A k \in 1..p : Visible(a, other, f[k]) /\ Like(a[f[k]], s[k])
               /\ \A i \in 1..n : Visible(a, other, i) => \E k \in 1..p : f[k] = i
  BY DEF Shows, IsView
<1>5. PICK g : /\ g \in [1..q -> 1..m] /\ Rises(g, q)
               /\ \A k \in 1..q : Visible(b, other, g[k]) /\ Like(b[g[k]], u[k])
               /\ \A i \in 1..m : Visible(b, other, i) => \E k \in 1..q : g[k] = i
  BY DEF Shows, IsView
<1>6. /\ \A i \in 1..n : a[i].kind = "opens" => \E j \in i..n : a[j].kind = "closes"
      /\ \A i \in 1..m : b[i].kind = "opens" => \E j \in i..m : b[j].kind = "closes"
  BY DEF Shows, Settled
<1> HIDE DEF n, m, c, p, q, t
<1>7. /\ \A i \in 1..n : Visible(c, other, i) <=> Visible(a, other, i)
      /\ \A i \in 1..m : Visible(c, other, n + i) <=> Visible(b, other, i)
  BY <1>1, <1>3 DEF Visible
<1> DEFINE h == [k \in 1..p + q |-> IF k <= p THEN f[k] ELSE n + g[k - p]]
<1>8. /\ \A k \in 1..p : h[k] = f[k] /\ f[k] \in 1..n
      /\ \A k \in 1..q : h[p + k] = n + g[k] /\ g[k] \in 1..m
  <2>1. \A k \in 1..p : k \in 1..p + q /\ k <= p
    BY <1>2
  <2>2. \A k \in 1..q : p + k \in 1..p + q /\ ~(p + k <= p) /\ (p + k) - p = k
    BY <1>2
  <2> QED
    BY <1>4, <1>5, <2>1, <2>2
<1>9. \A k \in 1..p + q : k \in 1..p \/ \E j \in 1..q : k = p + j
  <2> SUFFICES ASSUME NEW k \in 1..p + q, k \notin 1..p PROVE \E j \in 1..q : k = p + j
    OBVIOUS
  <2>1. k - p \in 1..q /\ k = p + (k - p)
    BY <1>2
  <2> QED
    BY <2>1
<1>10. \A i \in 1..n + m : i \in 1..n \/ \E j \in 1..m : i = n + j
  <2> SUFFICES ASSUME NEW i \in 1..n + m, i \notin 1..n PROVE \E j \in 1..m : i = n + j
    OBVIOUS
  <2>1. i - n \in 1..m /\ i = n + (i - n)
    BY <1>1
  <2> QED
    BY <2>1
<1>11. h \in [1..p + q -> 1..n + m]
  <2>1. \A k \in 1..p + q : h[k] \in 1..n + m
    <3> HIDE DEF h
    <3> SUFFICES ASSUME NEW k \in 1..p + q PROVE h[k] \in 1..n + m
      OBVIOUS
    <3>1. CASE k \in 1..p
      BY <1>1, <1>8, <3>1
    <3>2. CASE k \notin 1..p
      <4>1. PICK j \in 1..q : k = p + j
        BY <1>9, <3>2
      <4> QED
        BY <1>1, <1>8, <4>1
    <3> QED
      BY <3>1, <3>2
  <2> QED
    BY <2>1
<1> HIDE DEF h
<1>12. Rises(h, p + q)
  <2> SUFFICES ASSUME NEW k \in 1..p + q, NEW l \in 1..k - 1 PROVE h[l] < h[k]
    BY DEF Rises
  <2>1. CASE k \in 1..p
    <3>1. l \in 1..p
      BY <1>2, <2>1
    <3> QED
      BY <1>4, <1>8, <2>1, <3>1 DEF Rises
  <2>2. CASE k \notin 1..p
    <3>1. PICK j \in 1..q : k = p + j
      BY <1>9, <2>2
    <3>2. CASE l \in 1..p
      BY <1>1, <1>8, <3>1, <3>2
    <3>3. CASE l \notin 1..p
      <4>1. l - p \in 1..j - 1 /\ l - p \in 1..q /\ l = p + (l - p)
        BY <1>2, <3>1, <3>3
      <4>2. g[l - p] < g[j] /\ h[l] = n + g[l - p] /\ h[k] = n + g[j] /\ g[l - p] \in 1..m /\ g[j] \in 1..m
        BY <1>5, <1>8, <3>1, <4>1 DEF Rises
      <4> QED
        BY <1>1, <4>2
    <3> QED
      BY <3>2, <3>3
  <2> QED
    BY <2>1, <2>2
<1>13. ASSUME NEW k \in 1..p + q PROVE Visible(c, other, h[k]) /\ Like(c[h[k]], t[k])
  <2>1. CASE k \in 1..p
    BY <1>1, <1>2, <1>4, <1>7, <1>8, <2>1
  <2>2. CASE k \notin 1..p
    <3>1. PICK j \in 1..q : k = p + j
      BY <1>9, <2>2
    <3>2. h[k] = n + g[j] /\ g[j] \in 1..m /\ t[k] = u[j]
      BY <1>2, <1>8, <3>1
    <3>3. Visible(c, other, n + g[j]) /\ c[n + g[j]] = b[g[j]]
      BY <1>1, <1>5, <1>7, <3>2
    <3> QED
      BY <1>5, <3>2, <3>3
  <2> QED
    BY <2>1, <2>2
<1>14. ASSUME NEW i \in 1..n + m, Visible(c, other, i) PROVE \E k \in 1..p + q : h[k] = i
  <2>1. CASE i \in 1..n
    <3>1. PICK k \in 1..p : f[k] = i
      BY <1>4, <1>7, <1>14, <2>1
    <3>2. k \in 1..p + q
      BY <1>2
    <3> QED
      BY <1>8, <3>1, <3>2
  <2>2. CASE i \notin 1..n
    <3>1. PICK j \in 1..m : i = n + j
      BY <1>10, <2>2
    <3>2. PICK k \in 1..q : g[k] = j
      BY <1>5, <1>7, <1>14, <3>1
    <3>3. p + k \in 1..p + q
      BY <1>2
    <3> QED
      BY <1>8, <3>1, <3>2, <3>3
  <2> QED
    BY <2>1, <2>2
<1>15. ASSUME NEW i \in 1..n + m, c[i].kind = "opens" PROVE \E j \in i..n + m : c[j].kind = "closes"
  <2>1. CASE i \in 1..n
    <3>1. PICK j \in i..n : a[j].kind = "closes"
      BY <1>1, <1>6, <1>15, <2>1
    <3>2. j \in i..n + m /\ j \in 1..n
      BY <1>1, <2>1
    <3> QED
      BY <1>1, <3>1, <3>2
  <2>2. CASE i \notin 1..n
    <3>1. PICK k \in 1..m : i = n + k
      BY <1>10, <2>2
    <3>2. PICK j \in k..m : b[j].kind = "closes"
      BY <1>1, <1>6, <1>15, <3>1
    <3>3. n + j \in i..n + m /\ j \in 1..m
      BY <1>1, <3>1
    <3> QED
      BY <1>1, <3>2, <3>3
  <2> QED
    BY <2>1, <2>2
<1>16. Settled(c)
  BY <1>1, <1>15 DEF Settled
<1>17. IsView(h, c, other, t)
  BY <1>1, <1>2, <1>11, <1>12, <1>13, <1>14 DEF IsView
<1> QED
  BY <1>1, <1>2, <1>16, <1>17 DEF Shows, c, t

\* Plain lines are read as they are.
LEMMA ShowsPlain ==
    ASSUME NEW s \in Seq(Plain), NEW other
    PROVE  Shows(s, other, s)
<1> DEFINE n == Len(s)
           f == [k \in 1..n |-> k]
<1>1. n \in Nat /\ \A i \in 1..n : s[i].kind \notin {"opens", "closes"}
  BY DEF Plain
<1>2. f \in [1..n -> 1..n] /\ \A k \in 1..n : f[k] = k
  BY <1>1
<1> HIDE DEF f
<1>3. Rises(f, n)
  <2> SUFFICES ASSUME NEW k \in 1..n, NEW l \in 1..k - 1 PROVE f[l] < f[k]
    BY DEF Rises
  <2>1. l \in 1..n /\ l < k
    BY <1>1
  <2> QED
    BY <1>2, <2>1
<1>4. \A i \in 1..n : Visible(s, other, i)
  <2>1. ASSUME NEW i \in 1..n, InBlock(s, other, i) PROVE FALSE
    <3>1. PICK j \in 1..i : s[j].kind = "opens"
      BY <2>1 DEF InBlock
    <3>2. j \in 1..n
      BY <1>1
    <3> QED
      BY <1>1, <3>1, <3>2
  <2> QED
    BY <1>1, <2>1 DEF Visible
<1>5. Settled(s)
  BY <1>1 DEF Settled
<1>6. IsView(f, s, other, s)
  BY <1>2, <1>3, <1>4 DEF IsView, Like, n
<1> QED
  BY <1>5, <1>6 DEF Shows

\* A block of a side shows its lines, unless blocks of that side are passed over
\* (endsWithNewline: each line keeps to itself).
LEMMA ShowsBlock ==
    ASSUME NEW labels \in [Sides -> Nat], NEW side \in Sides, NEW other,
           NEW s \in Seq(Plain), WellCut(s)
    PROVE  /\ Block(s, side, labels) \in Text
           /\ Shows(Block(s, side, labels), other, IF side = other THEN <<>> ELSE s)
<1> DEFINE t == Block(s, side, labels)
           n == Len(s)
           d == Closed(s)
           a == <<Opens(side, labels)>>
           b == <<Closes(side, labels)>>
<1>1. t \in Text
  <2>1. t \in Seq(Over(labels))
    BY BlockIs
  <2> HIDE DEF t
  <2> QED
    BY <2>1, OverIsText
<1>2. CASE s = <<>>
  <2>1. t = s
    BY <1>2 DEF Block
  <2>2. (IF side = other THEN <<>> ELSE s) = s
    BY <1>2
  <2>3. Shows(s, other, s)
    BY ShowsPlain
  <2> HIDE DEF t
  <2>4. t \in Text /\ Shows(t, other, IF side = other THEN <<>> ELSE s)
    BY <1>1, <2>1, <2>2, <2>3
  <2> QED
    BY <2>4 DEF t
<1>3. CASE s # <<>>
  <2>1. t = a \o d \o b
    BY <1>3, Zenon DEF Block
  <2>2. /\ n \in Nat /\ d \in Seq(Plain) /\ Len(d) = n
        /\ \A i \in 1..n : d[i] \in Plain /\ Like(d[i], s[i])
    <3>1. d \in Seq(Plain) /\ Len(d) = n /\ \A i \in 1..n : d[i].kind = s[i].kind /\ d[i].text = s[i].text
      BY ClosedIs
    <3> HIDE DEF d
    <3>2. \A i \in 1..n : d[i] \in Plain
      BY <3>1
    <3>3. \A i \in 1..n : Like(d[i], s[i])
      BY <3>1 DEF Like
    <3>4. n \in Nat
      OBVIOUS
    <3> QED
      BY <3>1, <3>2, <3>3, <3>4
  <2>3. /\ Opens(side, labels).kind = "opens" /\ Opens(side, labels).text[1] = side
        /\ Closes(side, labels).kind = "closes"
    BY DEF Opens, Closes
  <2> HIDE DEF d
  <2>4. /\ Len(t) = n + 2 /\ t[1] = Opens(side, labels) /\ t[n + 2] = Closes(side, labels)
        /\ \A i \in 1..n : t[i + 1] = d[i]
    <3>1. a \in Seq(Line) /\ b \in Seq(Line) /\ d \in Seq(Line) /\ Len(a) = 1 /\ Len(b) = 1
          /\ a[1] = Opens(side, labels) /\ b[1] = Closes(side, labels)
      <4>1. Opens(side, labels) \in Line /\ Closes(side, labels) \in Line /\ Plain \in SUBSET Line
        BY OverIs
      <4> QED
        BY <2>2, <4>1, Widened
    <3> HIDE DEF a, b, t
    <3> DEFINE e == a \o d
    <3> HIDE DEF n
    <3>2. /\ e \in Seq(Line) /\ Len(e) = 1 + n
          /\ \A i \in 1..1 + n : e[i] = IF i <= 1 THEN a[i] ELSE d[i - 1]
      <4>1. /\ a \o d \in Seq(Line) /\ Len(a \o d) = Len(a) + Len(d)
            /\ \A i \in 1..Len(a) + Len(d) : (a \o d)[i] = IF i <= Len(a) THEN a[i] ELSE d[i - Len(a)]
        BY <3>1, ConcatProperties
      <4> HIDE DEF e
      <4>2. Len(a) = 1 /\ Len(d) = n
        BY <2>2, <3>1
      <4> QED
        BY <4>1, <4>2 DEF e
    <3>3. t = e \o b
      BY <2>1
    <3> HIDE DEF e
    <3>4. /\ Len(t) = (1 + n) + 1
          /\ \A i \in 1..(1 + n) + 1 : t[i] = IF i <= 1 + n THEN e[i] ELSE b[i - (1 + n)]
      <4>1. /\ e \o b \in Seq(Line) /\ Len(e \o b) = Len(e) + Len(b)
            /\ \A i \in 1..Len(e) + Len(b) : (e \o b)[i] = IF i <= Len(e) THEN e[i] ELSE b[i - Len(e)]
        BY <3>1, <3>2, ConcatProperties
      <4>2. Len(e) = 1 + n /\ Len(b) = 1
        BY <3>1, <3>2
      <4> QED
        BY <3>3, <4>1, <4>2
    <3>5. \A i \in 1..n : i + 1 \in 1..1 + n /\ ~(i + 1 <= 1) /\ (i + 1) - 1 = i
                        /\ i + 1 \in 1..(1 + n) + 1 /\ i + 1 <= 1 + n
      BY <2>2
    <3>6. 1 \in 1..1 + n /\ 1 \in 1..(1 + n) + 1 /\ 1 <= 1 + n /\ n + 2 \in 1..(1 + n) + 1
          /\ ~(n + 2 <= 1 + n) /\ n + 2 - (1 + n) = 1 /\ (1 + n) + 1 = n + 2
      BY <2>2
    <3>7. t[1] = a[1] /\ t[n + 2] = b[1]
      BY <3>2, <3>4, <3>6
    <3>8. \A i \in 1..n : t[i + 1] = d[i]
      BY <3>2, <3>4, <3>5
    <3> QED
      BY <3>1, <3>4, <3>6, <3>7, <3>8
  <2> HIDE DEF t
  <2>5. \A i \in 1..n + 2 : i = 1 \/ i = n + 2 \/ i - 1 \in 1..n
    BY <2>2
  <2>6. /\ \A i \in 1..n + 2 : t[i].kind = "opens" => i = 1
        /\ \A i \in 1..n + 2 : t[i].kind = "closes" => i = n + 2
        /\ \A i \in 1..n : t[i + 1].kind \notin {"opens", "closes"}
        /\ n + 2 # 1
    <3>1. \A i \in 1..n : t[i + 1].kind \notin {"opens", "closes"}
      BY <2>2, <2>4 DEF Plain
    <3>2. ASSUME NEW i \in 1..n + 2, i # 1, i # n + 2 PROVE t[i].kind \notin {"opens", "closes"}
      <4>1. i - 1 \in 1..n /\ (i - 1) + 1 = i
        BY <2>5, <3>2
      <4>2. t[(i - 1) + 1].kind \notin {"opens", "closes"}
        BY <3>1, <4>1
      <4> QED
        BY <4>1, <4>2
    <3>3. n + 2 # 1
      BY <2>2
    <3> QED
      BY <2>3, <2>4, <3>1, <3>2, <3>3
  <2>7. Settled(t)
    <3> SUFFICES ASSUME NEW i \in 1..n + 2, t[i].kind = "opens" PROVE \E j \in i..n + 2 : t[j].kind = "closes"
      BY <2>4 DEF Settled
    <3>1. n + 2 \in i..n + 2
      BY <2>2
    <3> QED
      BY <2>3, <2>4, <3>1
  <2>8. CASE side = other
    <3>1. ASSUME NEW i \in 1..n + 2 PROVE ~Visible(t, other, i)
      <4>1. ASSUME i # 1, i # n + 2 PROVE InBlock(t, other, i)
        <5>1. 1 \in 1..i /\ \A j \in 1..i - 1 : j \in 1..n + 2 /\ j # n + 2
          BY <2>2
        <5>2. t[1].kind = "opens" /\ t[1].text[1] = other
          BY <2>3, <2>4, <2>8
        <5>3. \A j \in 1..i - 1 : t[j].kind # "closes"
          BY <2>6, <5>1
        <5> QED
          BY <5>1, <5>2, <5>3 DEF InBlock
      <4> QED
        BY <2>3, <2>4, <4>1 DEF Visible
    <3> DEFINE f == [k \in 1..0 |-> 1]
    <3>2. f \in [1..0 -> 1..n + 2] /\ Len(<<>>) = 0 /\ 1..0 = {}
      OBVIOUS
    <3> HIDE DEF f
    <3>3. IsView(f, t, other, <<>>)
      BY <2>4, <3>1, <3>2 DEF IsView, Rises
    <3> QED
      BY <1>1, <2>7, <2>8, <3>3 DEF Shows, t
  <2>9. CASE side # other
    <3>1. ASSUME NEW i \in 1..n + 2 PROVE ~InBlock(t, other, i)
      <4> SUFFICES ASSUME NEW j \in 1..i, t[j].kind = "opens", t[j].text[1] = other PROVE FALSE
        BY DEF InBlock
      <4>1. j \in 1..n + 2
        BY <2>2
      <4>2. j = 1
        BY <2>6, <4>1
      <4> QED
        BY <2>3, <2>4, <2>9, <4>2
    <3> DEFINE f == [k \in 1..n |-> k + 1]
    <3>2. f \in [1..n -> 1..n + 2] /\ \A k \in 1..n : f[k] = k + 1
      BY <2>2
    <3> HIDE DEF f
    <3>3. Rises(f, n)
      <4> SUFFICES ASSUME NEW k \in 1..n, NEW l \in 1..k - 1 PROVE f[l] < f[k]
        BY DEF Rises
      <4>1. l \in 1..n /\ l < k
        BY <2>2
      <4> QED
        BY <3>2, <4>1
    <3>4. \A k \in 1..n : Visible(t, other, f[k]) /\ Like(t[f[k]], s[k])
      BY <2>2, <2>4, <2>6, <3>1, <3>2 DEF Visible
    <3>5. ASSUME NEW i \in 1..n + 2, Visible(t, other, i) PROVE \E k \in 1..n : f[k] = i
      <4>1. i # 1 /\ i # n + 2
        BY <2>3, <2>4, <3>5 DEF Visible
      <4>2. i - 1 \in 1..n /\ (i - 1) + 1 = i
        BY <2>5, <4>1
      <4>3. f[i - 1] = i
        BY <3>2, <4>2
      <4> QED
        BY <4>2, <4>3
    <3>6. IsView(f, t, other, s)
      BY <2>4, <3>2, <3>3, <3>4, <3>5 DEF IsView
    <3> QED
      BY <1>1, <2>7, <2>9, <3>6 DEF Shows, t
  <2> QED
    BY <2>8, <2>9
<1> QED
  BY <1>2, <1>3

\* A hunk in the file shows what is seen in it.
LEMMA ShowsHunk ==
    ASSUME NEW labels \in [Sides -> Nat], NEW h \in CutHunks, NEW other \in Sides
    PROVE  Shown(h, labels) \in Text /\ Shows(Shown(h, labels), other, Seen(h, other))
<1>1. /\ h.generated \in Seq(Plain) /\ h.existing \in Seq(Plain)
      /\ WellCut(h.generated) /\ WellCut(h.existing)
  BY DEF CutHunks, HunkShape
<1>2. h.generated \in Text /\ h.existing \in Text /\ <<>> \in Text
  BY <1>1, Widened DEF Text, Plain
<1>3. CASE h.kind = "same"
  <2>1. Shown(h, labels) = h.generated /\ Seen(h, other) = h.generated
    BY <1>3 DEF Shown, Seen
  <2> QED
    BY <1>1, <1>2, <2>1, ShowsPlain
<1>4. CASE h.kind # "same"
  <2> DEFINE a == Block(h.existing, "EXISTING", labels)
             b == Block(h.generated, "GENERATED", labels)
             s == IF "EXISTING" = other THEN <<>> ELSE h.existing
             u == IF "GENERATED" = other THEN <<>> ELSE h.generated
  <2>1. Shown(h, labels) = a \o b
    BY <1>4 DEF Shown
  <2>2. a \in Text /\ Shows(a, other, s) /\ b \in Text /\ Shows(b, other, u)
    BY <1>1, ShowsBlock DEF Sides
  <2>3. s \in Text /\ u \in Text
    BY <1>2
  <2>4. s \o u = Seen(h, other)
    <3>1. CASE other = "EXISTING"
      <4>1. s = <<>> /\ u = h.generated /\ Seen(h, other) = h.generated
        BY <3>1 DEF Seen
      <4> QED
        BY <1>1, <4>1, ConcatEmptySeq
    <3>2. CASE other = "GENERATED"
      <4>1. s = h.existing /\ u = <<>> /\ Seen(h, other) = h.existing
        BY <1>4, <3>2 DEF Seen
      <4> QED
        BY <1>1, <4>1, ConcatEmptySeq
    <3> QED
      BY <3>1, <3>2 DEF Sides
  <2> HIDE DEF a, b, s, u
  <2>5. a \o b \in Text /\ Shows(a \o b, other, s \o u)
    BY <2>2, <2>3, ShowsJoin
  <2> QED
    BY <2>1, <2>4, <2>5
<1> QED
  BY <1>3, <1>4

\* Pieces of a file show one after the other what each of them shows.
LEMMA ShowsAll ==
    ASSUME NEW n \in Nat, NEW p, NEW q, NEW other,
           \A k \in 1..n : p[k] \in Text /\ q[k] \in Text /\ Shows(p[k], other, q[k]),
           NEW f, NEW g, IsJoining(f, p, n), IsJoining(g, q, n)
    PROVE  Shows(f[n], other, g[n])
<1> DEFINE Q == {k \in Nat : k <= n => f[k] \in Text /\ g[k] \in Text /\ Shows(f[k], other, g[k])}
<1>1. 0 \in Q
  <2>1. f[0] = <<>> /\ g[0] = <<>>
    BY DEF IsJoining
  <2>2. <<>> \in Seq(Plain) /\ <<>> \in Text
    BY DEF Text
  <2>3. Shows(<<>>, other, <<>>)
    BY <2>2, ShowsPlain
  <2> QED
    BY <2>1, <2>2, <2>3
<1>2. ASSUME NEW k \in Nat, k \in Q PROVE k + 1 \in Q
  <2> SUFFICES ASSUME k + 1 <= n
               PROVE  f[k + 1] \in Text /\ g[k + 1] \in Text /\ Shows(f[k + 1], other, g[k + 1])
    OBVIOUS
  <2>1. k + 1 \in 1..n /\ (k + 1) - 1 = k /\ k <= n
    OBVIOUS
  <2>2. f[k + 1] = f[k] \o p[k + 1] /\ g[k + 1] = g[k] \o q[k + 1]
    BY <2>1 DEF IsJoining
  <2>3. f[k] \in Text /\ g[k] \in Text /\ Shows(f[k], other, g[k])
    BY <1>2, <2>1
  <2>4. p[k + 1] \in Text /\ q[k + 1] \in Text /\ Shows(p[k + 1], other, q[k + 1])
    BY <2>1
  <2>5. /\ f[k] \o p[k + 1] \in Text /\ g[k] \o q[k + 1] \in Text
        /\ Shows(f[k] \o p[k + 1], other, g[k] \o q[k + 1])
    BY <2>3, <2>4, ShowsJoin
  <2> QED
    BY <2>2, <2>5
<1>3. Nat \subseteq Q
  <2> HIDE DEF Q
  <2> QED
    BY <1>1, <1>2, AllNumbers
<1> QED
  BY <1>3

\* A diff shows the text whose blocks are not passed over (Diff).
LEMMA DiffShows ==
    ASSUME NEW labels \in [Sides -> Nat], NEW gen \in Seq(Plain), NEW exist \in Seq(Plain),
           WellCut(gen), WellCut(exist), NEW other \in Sides
    PROVE  Shows(Diff(gen, exist, labels), other, TextOf(gen, exist, other))
<1>1. CASE gen = exist
  <2>1. Diff(gen, exist, labels) = gen /\ TextOf(gen, exist, other) = gen
    BY <1>1 DEF Diff, TextOf
  <2> QED
    BY <2>1, ShowsPlain
<1>2. CASE gen # exist
  <2> DEFINE H == Hunks(gen, exist)
             n == Len(H)
             x == TextOf(gen, exist, other)
             p == [k \in 1..n |-> Shown(H[k], labels)]
             q == [k \in 1..n |-> Seen(H[k], other)]
  <2>1. H \in Seq(CutHunks)
    BY HunksAre DEF OnlyLastOpen
  <2>2. Joined(H, other, x)
    BY HunksRead
  <2>3. Diff(gen, exist, labels) = FlattenSeq([k \in DOMAIN H |-> Shown(H[k], labels)])
    BY <1>2, Zenon DEF Diff
  <2> HIDE DEF H, x
  <2>4. n \in Nat /\ DOMAIN H = 1..n /\ \A k \in 1..n : H[k] \in CutHunks
    BY <2>1
  <2>5. Diff(gen, exist, labels) = FlattenSeq(p)
    BY <2>3, <2>4
  <2>6. \A k \in 1..n : p[k] = Shown(H[k], labels) /\ q[k] = Seen(H[k], other)
    OBVIOUS
  <2>7. PICK g \in [0..n -> Text] :
           g[0] = <<>> /\ g[n] = x /\ \A k \in 1..n : g[k] = g[k - 1] \o Seen(H[k], other)
    BY <2>2 DEF Joined
  <2>8. \A k \in 1..n : Shown(H[k], labels) \in Text /\ Seen(H[k], other) \in Text
                        /\ Shows(Shown(H[k], labels), other, Seen(H[k], other))
    <3> HIDE DEF n
    <3>1. CutHunks \subseteq HunkShape
      BY DEF CutHunks
    <3> QED
      BY <2>4, <3>1, ShowsHunk, SeenIs
  <2>9. p \in [1..n -> Text]
    BY <2>8
  <2> HIDE DEF n, p, q
  <2>10. PICK f \in [0..n -> Seq(Line)] : IsJoining(f, p, n) /\ FlattenSeq(p) = f[n]
    BY <2>4, <2>9, FlattenIs DEF Text
  <2>11. IsJoining(g, q, n)
    BY <2>6, <2>7 DEF IsJoining
  <2>12. \A k \in 1..n : p[k] \in Text /\ q[k] \in Text /\ Shows(p[k], other, q[k])
    BY <2>6, <2>8
  <2>13. Shows(f[n], other, g[n])
    BY <2>4, <2>10, <2>11, <2>12, ShowsAll
  <2> QED
    BY <2>5, <2>7, <2>10, <2>13 DEF x
<1> QED
  BY <1>1, <1>2

\* Every place of f is one of g.
Covers(f, n, g, p) == \A k \in 1..n : \E j \in 1..p : g[j] = f[k]

\* Where two orders agree so far, the next place of the one is not before that
\* of the other.
LEMMA NoneSkipped ==
    ASSUME NEW n \in Nat, NEW p \in Nat, NEW f \in [1..n -> Int], NEW g \in [1..p -> Int],
           Rises(f, n), Rises(g, p), Covers(f, n, g, p), NEW k \in 1..n,
           \A j \in 1..k - 1 : f[j] = g[j]
    PROVE  k \in 1..p /\ g[k] <= f[k]
<1>1. PICK j \in 1..p : g[j] = f[k]
  BY DEF Covers
<1>2. ~(j \in 1..k - 1)
  <2> SUFFICES ASSUME j \in 1..k - 1 PROVE FALSE
    OBVIOUS
  <2>1. f[j] < f[k] /\ f[j] = g[j]
    BY DEF Rises
  <2> QED
    BY <1>1, <2>1
<1>3. k \in 1..p /\ (j = k \/ k \in 1..j - 1)
  BY <1>2
<1>4. k \in 1..j - 1 => g[k] < g[j]
  BY DEF Rises
<1>5. g[k] \in Int /\ g[j] \in Int
  BY <1>3
<1> QED
  BY <1>1, <1>3, <1>4, <1>5

\* Some places have one order only.
LEMMA SameOrder ==
    ASSUME NEW n \in Nat, NEW p \in Nat, NEW f \in [1..n -> Int], NEW g \in [1..p -> Int],
           Rises(f, n), Rises(g, p), Covers(f, n, g, p), Covers(g, p, f, n)
    PROVE  n = p /\ \A k \in 1..n : f[k] = g[k]
<1> DEFINE Q == {k \in Nat : \A j \in 1..k :
                    j \in 1..n \/ j \in 1..p => j \in 1..n /\ j \in 1..p /\ f[j] = g[j]}
<1>1. 0 \in Q
  OBVIOUS
<1>2. ASSUME NEW k \in Nat, k \in Q PROVE k + 1 \in Q
  <2> DEFINE i == k + 1
  <2>1. \A j \in 1..k : j \in 1..n \/ j \in 1..p => j \in 1..n /\ j \in 1..p /\ f[j] = g[j]
    BY <1>2
  <2>2. i \in Nat /\ i - 1 = k /\ \A j \in 1..i : j = i \/ j \in 1..k
    OBVIOUS
  <2>3. ASSUME i \in 1..n \/ i \in 1..p PROVE \A j \in 1..i - 1 : f[j] = g[j] /\ g[j] = f[j]
    <3>1. \A j \in 1..i - 1 : j \in 1..k /\ (j \in 1..n \/ j \in 1..p)
      BY <2>3
    <3> QED
      BY <2>1, <3>1
  <2> HIDE DEF i
  <2>4. i \in 1..n => i \in 1..p /\ g[i] <= f[i]
    <3> SUFFICES ASSUME i \in 1..n PROVE i \in 1..p /\ g[i] <= f[i]
      OBVIOUS
    <3>1. \A j \in 1..i - 1 : f[j] = g[j]
      BY <2>3
    <3> QED
      BY <3>1, NoneSkipped
  <2>5. i \in 1..p => i \in 1..n /\ f[i] <= g[i]
    <3> SUFFICES ASSUME i \in 1..p PROVE i \in 1..n /\ f[i] <= g[i]
      OBVIOUS
    <3>1. \A j \in 1..i - 1 : g[j] = f[j]
      BY <2>3
    <3> QED
      BY <3>1, NoneSkipped
  <2>6. i \in 1..n \/ i \in 1..p => i \in 1..n /\ i \in 1..p /\ f[i] = g[i]
    <3> SUFFICES ASSUME i \in 1..n \/ i \in 1..p PROVE i \in 1..n /\ i \in 1..p /\ f[i] = g[i]
      OBVIOUS
    <3>1. i \in 1..n /\ i \in 1..p /\ g[i] <= f[i] /\ f[i] <= g[i]
      BY <2>4, <2>5
    <3>2. f[i] \in Int /\ g[i] \in Int
      BY <3>1
    <3> QED
      BY <3>1, <3>2
  <2>7. i \in Q
    BY <2>1, <2>2, <2>6
  <2> QED
    BY <2>7 DEF i
<1>3. Nat \subseteq Q
  <2> HIDE DEF Q
  <2> QED
    BY <1>1, <1>2, AllNumbers
<1>4. \A j \in Nat \ {0} : j \in 1..n \/ j \in 1..p => j \in 1..n /\ j \in 1..p /\ f[j] = g[j]
  <2> SUFFICES ASSUME NEW j \in Nat \ {0}
               PROVE  j \in 1..n \/ j \in 1..p => j \in 1..n /\ j \in 1..p /\ f[j] = g[j]
    OBVIOUS
  <2>1. j \in Q /\ j \in 1..j
    BY <1>3
  <2> QED
    BY <2>1
<1>5. n = p
  <2>1. n # 0 => n \in 1..n /\ n \in Nat \ {0}
    OBVIOUS
  <2>2. p # 0 => p \in 1..p /\ p \in Nat \ {0}
    OBVIOUS
  <2>3. n # 0 => n \in 1..p
    BY <1>4, <2>1
  <2>4. p # 0 => p \in 1..n
    BY <1>4, <2>2
  <2> QED
    BY <2>3, <2>4
<1>6. ASSUME NEW k \in 1..n PROVE f[k] = g[k]
  <2>1. k \in Nat \ {0}
    OBVIOUS
  <2> QED
    BY <1>4, <2>1
<1> QED
  BY <1>5, <1>6

\* Two well-cut texts that are alike but for newlines differ in the last one
\* at most.
LEMMA ClosedSame ==
    ASSUME NEW r \in Text, NEW s \in Text, WellCut(r), WellCut(s), Len(r) = Len(s),
           \A k \in 1..Len(s) : Like(r[k], s[k])
    PROVE  Closed(r) = Closed(s)
<1> DEFINE n == Len(s)
           to(t) == [t[n] EXCEPT !.ended = TRUE]
<1>1. /\ n \in Nat /\ Len(r) = n /\ r \in Seq(Line) /\ s \in Seq(Line)
      /\ \A k \in 1..n : r[k] \in Line /\ s[k] \in Line
  BY DEF Text
<1>2. CASE n = 0
  <2>1. r = <<>> /\ s = <<>>
    BY <1>1, <1>2, EmptySeq
  <2> QED
    BY <2>1
<1>3. CASE n # 0
  <2>1. r # <<>> /\ s # <<>> /\ n \in 1..n
    BY <1>1, <1>3
  <2>2. Closed(r) = [r EXCEPT ![n] = to(r)] /\ Closed(s) = [s EXCEPT ![n] = to(s)]
    BY <1>1, <2>1 DEF Closed
  <2>3. \A l, m \in Line : l.kind = m.kind /\ l.text = m.text /\ l.ended = m.ended => l = m
    BY DEF Line
  <2>4. to(r) = to(s)
    <3>1. \A l, m \in Line : l.kind = m.kind /\ l.text = m.text =>
             [l EXCEPT !.ended = TRUE] = [m EXCEPT !.ended = TRUE]
      BY DEF Line
    <3>2. r[n] \in Line /\ s[n] \in Line /\ r[n].kind = s[n].kind /\ r[n].text = s[n].text
      BY <1>1, <2>1 DEF Like
    <3> QED
      BY <3>1, <3>2, Zenon
  <2>5. \A k \in 1..n : k # n => r[k] = s[k]
    <3> SUFFICES ASSUME NEW k \in 1..n, k # n PROVE r[k] = s[k]
      OBVIOUS
    <3>1. k \in 1..n - 1
      BY <1>1
    <3>2. r[k].ended /\ s[k].ended
      BY <1>1, <3>1 DEF WellCut
    <3>3. r[k].ended \in BOOLEAN /\ s[k].ended \in BOOLEAN
      BY <1>1 DEF Line
    <3> QED
      BY <1>1, <2>3, <3>2, <3>3 DEF Like
  <2> HIDE DEF to, n
  <2>6. DOMAIN r = 1..n /\ DOMAIN s = 1..n
    BY <1>1 DEF n
  <2>7. [r EXCEPT ![n] = to(r)] = [s EXCEPT ![n] = to(s)]
    <3>1. r = [k \in 1..n |-> r[k]] /\ s = [k \in 1..n |-> s[k]]
      BY <1>1, <2>6
    <3>2. [r EXCEPT ![n] = to(r)] = [k \in 1..n |-> IF k = n THEN to(r) ELSE r[k]]
      BY <2>6
    <3>3. [s EXCEPT ![n] = to(s)] = [k \in 1..n |-> IF k = n THEN to(s) ELSE s[k]]
      BY <2>6
    <3>4. \A k \in 1..n : (IF k = n THEN to(r) ELSE r[k]) = (IF k = n THEN to(s) ELSE s[k])
      BY <2>4, <2>5
    <3> QED
      BY <3>2, <3>3, <3>4
  <2> QED
    BY <2>2, <2>7
<1> QED
  BY <1>2, <1>3

\* What a file shows is what its reader reads (ReadBack).
LEMMA ReadBackIs ==
    ASSUME NEW t \in Text, NEW s \in Text, WellCut(t), WellCut(s), NEW other, Shows(t, other, s)
    PROVE  Closed(ReadBack(t, other)) = Closed(s)
<1> DEFINE m == Len(t)
           n == Len(s)
           P == {i \in 1..m : Visible(t, other, i)}
           at == InOrder(P)
           r == LinesAt(t, P)
<1>1. m \in Nat /\ n \in Nat /\ DOMAIN t = 1..m /\ P \in SUBSET (1..m) /\ t \in Seq(Line)
  BY DEF Text
<1>2. ReadBack(t, other) = r
  <2>1. {i \in DOMAIN t : t[i].kind \notin {"opens", "closes"} /\ ~InBlock(t, other, i)} = P
    BY <1>1 DEF Visible
  <2> QED
    BY <2>1 DEF ReadBack
<1>3. PICK f : IsView(f, t, other, s)
  BY DEF Shows
<1>4. /\ f \in [1..n -> 1..m] /\ Rises(f, n)
      /\ \A k \in 1..n : f[k] \in P /\ Like(t[f[k]], s[k])
      /\ \A i \in P : \E k \in 1..n : f[k] = i
  BY <1>3 DEF IsView
<1> HIDE DEF P, at, r
<1>5. /\ at \in Seq(1..m) /\ \A k \in 1..Len(at) : \A j \in 1..k - 1 : at[j] < at[k]
      /\ \A k \in 1..Len(at) : at[k] \in P
      /\ \A i \in P : \E k \in 1..Len(at) : at[k] = i
  BY <1>1, InOrderIs DEF IsRising, at
<1> DEFINE p == Len(at)
<1>6. p \in Nat /\ at \in [1..p -> 1..m]
  BY <1>5
<1> HIDE DEF p
<1>7. n = p /\ \A k \in 1..n : f[k] = at[k]
  <2>1. Rises(at, p)
    BY <1>5 DEF Rises, p
  <2>2. Covers(f, n, at, p)
    BY <1>4, <1>5 DEF Covers, p
  <2>3. Covers(at, p, f, n)
    BY <1>4, <1>5 DEF Covers, p
  <2>4. n \in Nat /\ f \in [1..n -> Int] /\ Rises(f, n)
    BY <1>1, <1>4
  <2>5. at \in [1..p -> Int]
    BY <1>1, <1>6
  <2> HIDE DEF n
  <2> QED
    BY <1>6, <2>1, <2>2, <2>3, <2>4, <2>5, SameOrder
<1>8. r \in Text /\ Len(r) = Len(at) /\ \A k \in 1..Len(at) : r[k] = t[at[k]]
  BY <1>1, LinesAtIs DEF r, at
<1>9. WellCut(r)
  BY <1>1, SomeLines DEF r
<1>10. Len(r) = Len(s) /\ \A k \in 1..Len(s) : Like(r[k], s[k])
  BY <1>4, <1>7, <1>8 DEF p
<1> QED
  BY <1>2, <1>8, <1>9, <1>10, ClosedSame

\* Both texts of a diff can be read back from the file, whole and in order, up
\* to the last newline, for all texts (saveDiff, Diff, Hunks).
THEOREM BothTextsShown == Spec => DiffShowsBoth
<1>1. RoundsInv /\ [Next]_vars =>
         [SaveDiff =>
            /\ Closed(ReadBack(existing', "EXISTING")) = Closed(generated)
            /\ Closed(ReadBack(existing', "GENERATED")) = Closed(existing)]_vars
  <2> SUFFICES ASSUME RoundsInv, SaveDiff
               PROVE  /\ Closed(ReadBack(existing', "EXISTING")) = Closed(generated)
                      /\ Closed(ReadBack(existing', "GENERATED")) = Closed(existing)
    OBVIOUS
  <2> DEFINE labels == LabelsOf(when, when - 1)
             t == Diff(generated, existing, labels)
  <2>1. stage = "edited" /\ existing' = t
    BY DEF SaveDiff
  <2>2. labels \in [Sides -> Nat]
    BY LabelsAre DEF RoundsInv
  <2>3. /\ generated \in Seq(Plain) /\ WellCut(generated) /\ generated \in Text
        /\ existing \in Seq(Plain) /\ WellCut(existing) /\ existing \in Text
    BY <2>1, TextsArePlain DEF RoundsInv
  <2> HIDE DEF labels
  <2>4. t \in Text /\ WellCut(t)
    BY <2>2, <2>3, DiffIs, OverIsText
  <2>5. TextOf(generated, existing, "EXISTING") = generated
        /\ TextOf(generated, existing, "GENERATED") = existing
    BY DEF TextOf
  <2>6. Shows(t, "EXISTING", generated) /\ Shows(t, "GENERATED", existing)
    <3>1. "EXISTING" \in Sides /\ "GENERATED" \in Sides
      BY DEF Sides
    <3>2. /\ Shows(t, "EXISTING", TextOf(generated, existing, "EXISTING"))
          /\ Shows(t, "GENERATED", TextOf(generated, existing, "GENERATED"))
      BY <2>2, <2>3, <3>1, DiffShows
    <3> QED
      BY <2>5, <3>2
  <2> HIDE DEF t
  <2>7. /\ Closed(ReadBack(t, "EXISTING")) = Closed(generated)
        /\ Closed(ReadBack(t, "GENERATED")) = Closed(existing)
    BY <2>3, <2>4, <2>6, ReadBackIs
  <2> QED
    BY <2>1, <2>7
<1> QED
  BY <1>1, RoundsInvHolds, PTL DEF Spec, DiffShowsBoth
=============================================================================
