------------------------------ MODULE DiffLines ------------------------------
(***************************************************************************)
(* The line diff and the three-way merge of go/diff.go, line by line.      *)
(* Contents keeps of a text the regions the handler's decisions can tell   *)
(* apart; here a text is the sequence Lines() cuts it into, so that the    *)
(* cut into regions itself, the order of the lines and a last line without *)
(* a newline are part of the model.                                        *)
(***************************************************************************)
EXTENDS Naturals, Sequences, SequencesExt, FiniteSetsExt

CONSTANT Names      \* what a line of content may say

Sides == {"GENERATED", "EXISTING"}

\* A line: of content, with what it says, or a marker, with its label (a side
\* and a time stamp) or none; and whether it ends in a newline.
Line == [kind  : {"content", "opens", "closes", "middle"},
         text  : Names \cup (Sides \X Nat) \cup {<<>>},
         ended : BOOLEAN]

Text == Seq(Line)

\* Only the last line of a text may lack its newline: two lines of which the
\* first does are one line of the file.
WellCut(text) == \A i \in 1..Len(text) - 1 : text[i].ended

\* The lines with the last one given a newline if it lacks one.
Closed(lines) ==
    IF lines = <<>> THEN lines ELSE [lines EXCEPT ![Len(lines)].ended = TRUE]

\* The members of a set of places in their order: the k-th has k of them up
\* to it.
InOrder(places) ==
    [k \in 1..Cardinality(places) |->
        CHOOSE i \in places : Cardinality({j \in places : j <= i}) = k]

\* The lines at some places of a text, in their order.
LinesAt(text, places) == [k \in DOMAIN InOrder(places) |-> text[InOrder(places)[k]]]

-----------------------------------------------------------------------------
(* Longest common subsequence. A recursive function of two texts takes      *)
(* them as a pair.                                                         *)

\* The last row of the length table: for each k, how many lines a and the
\* first k lines of b have in common.
LCSRow(a, b) ==
    LET table[at \in (0..Len(a)) \X (0..Len(b))] ==
          LET i == at[1]
              j == at[2]
          IN  IF i = 0 \/ j = 0 THEN 0
              ELSE IF a[i] = b[j] THEN table[<<i - 1, j - 1>>] + 1
              ELSE Max({table[<<i - 1, j>>], table[<<i, j - 1>>]})
    IN  [k \in 0..Len(b) |-> table[<<Len(a), k>>]]

\* Fault: the second half is walked front to back.
SplitOf_Forward(a, b) ==
    LET mid == Len(a) \div 2
        head == LCSRow(SubSeq(a, 1, mid), b)
        tail == LCSRow(SubSeq(a, mid + 1, Len(a)), b)
        sum(k) == head[k] + tail[Len(b) - k]
    IN  Max({k \in 0..Len(b) : \A j \in 0..Len(b) : sum(j) <= sum(k)})

\* Where hirschberg cuts b for the two halves of a: of the best cuts, the
\* largest.
SplitOf(a, b) ==
    LET mid == Len(a) \div 2
        head == LCSRow(SubSeq(a, 1, mid), b)
        tail == LCSRow(Reverse(SubSeq(a, mid + 1, Len(a))), Reverse(b))
        sum(k) == head[k] + tail[Len(b) - k]
    IN  Max({k \in 0..Len(b) : \A j \in 0..Len(b) : sum(j) <= sum(k)})

Hirschberg[texts \in Text \X Text] ==
    LET a == texts[1]
        b == texts[2]
        mid == Len(a) \div 2
        split == SplitOf(a, b)
    IN  IF a = <<>> \/ b = <<>> THEN <<>>
        ELSE IF Len(a) = 1 THEN IF Contains(b, a[1]) THEN a ELSE <<>>
        ELSE Hirschberg[<<SubSeq(a, 1, mid), SubSeq(b, 1, split)>>]
             \o Hirschberg[<<SubSeq(a, mid + 1, Len(a)), SubSeq(b, split + 1, Len(b))>>]

\* How many lines two texts have in common at their start.
CommonHead(a, b) ==
    Max({n \in 0..Min({Len(a), Len(b)}) : \A i \in 1..n : a[i] = b[i]})

\* The common suffix, after hirschberg on what is before it.
LCSOfTails(a, b) ==
    LET tail == CommonHead(Reverse(a), Reverse(b))
    IN  Hirschberg[<<SubSeq(a, 1, Len(a) - tail), SubSeq(b, 1, Len(b) - tail)>>]
        \o SubSeq(a, Len(a) - tail + 1, Len(a))

\* The common prefix and then the rest.
LCS(a, b) ==
    LET head == CommonHead(a, b)
    IN  SubSeq(a, 1, head)
        \o LCSOfTails(SubSeq(a, head + 1, Len(a)), SubSeq(b, head + 1, Len(b)))

-----------------------------------------------------------------------------
(* Anchors and regions.                                                    *)

\* The first place after from where the line stands in s, past the end when
\* there is none.
NextAt(s, from, line) ==
    Min({i \in from + 1..Len(s) : s[i] = line} \cup {Len(s) + 1})

\* Where a walk over s that looks for the lines of common finds each.
Found(common, s) ==
    LET at[k \in 0..Len(common)] == IF k = 0 THEN 0 ELSE NextAt(s, at[k - 1], common[k])
    IN  [k \in 1..Len(common) |-> at[k]]

\* For each place of base that the first walk came to, where the second one
\* was then, or 0.
Paired(inBase, inTarget, base, target) ==
    LET Of(i) == {k \in DOMAIN inBase : inBase[k] = i /\ inTarget[k] <= Len(target)}
    IN  [i \in 1..Len(base) |-> IF Of(i) = {} THEN 0 ELSE inTarget[Min(Of(i))]]

\* For each baseline line, its place in target, or 0 where it has none.
AlignLCS(base, target) ==
    LET common == LCS(base, target)
    IN  Paired(Found(common, base), Found(common, target), base, target)

\* The lines of s strictly between its (k-1)-th and its k-th anchor, at
\* holding the anchors' places.
Between(s, at, k) ==
    SubSeq(s, IF k = 1 THEN 1 ELSE at[k - 1] + 1, IF k > Len(at) THEN Len(s) ELSE at[k] - 1)

\* The places of the baseline lines that both sides kept.
Anchors(gMap, eMap) == InOrder({i \in DOMAIN gMap : gMap[i] > 0 /\ eMap[i] > 0})

-----------------------------------------------------------------------------
(* Markers.                                                                *)

\* The lines that open and close a side carry its label, of which the side
\* and the time stamp are kept. The line between the sides has no label.
Opens(side, labels) ==
    [kind |-> "opens", text |-> <<side, labels[side]>>, ended |-> TRUE]
Closes(side, labels) ==
    [kind |-> "closes", text |-> <<side, labels[side]>>, ended |-> TRUE]
Middle == [kind |-> "middle", text |-> <<>>, ended |-> TRUE]

\* The default labels: the generated side carries the time of this run, the
\* existing side the time of the last.
LabelsOf(when, last) == [GENERATED |-> when, EXISTING |-> last]

\* Fault: a file is unresolved only while an opening marker is left in it.
HasConflicts_Opens(text) == \E i \in DOMAIN text : text[i].kind = "opens"

\* Any one opening or closing marker is enough, of either side and with any
\* time stamp. The line between the sides is not looked for.
HasConflicts(text) == \E i \in DOMAIN text : text[i].kind \in {"opens", "closes"}

\* Fault: a side that lacks its last newline runs into the marker after it.
WriteConflict_Glued(gen, exist, labels) ==
    <<Opens("EXISTING", labels)>> \o exist \o <<Middle>>
    \o gen \o <<Closes("GENERATED", labels)>>

\* A conflict, the existing side first.
WriteConflict(gen, exist, labels) ==
    <<Opens("EXISTING", labels)>> \o Closed(exist) \o <<Middle>>
    \o Closed(gen) \o <<Closes("GENERATED", labels)>>

-----------------------------------------------------------------------------
(* Three-way merge.                                                        *)

\* The regions of the three texts, cut at the anchors: the lines on each
\* side, and the anchor after them, if any.
Cut(gen, base, exist, gMap, eMap) ==
    LET at == Anchors(gMap, eMap)
    IN  [k \in 1..Len(at) + 1 |->
           [gen    |-> Between(gen, [i \in DOMAIN at |-> gMap[at[i]]], k),
            base   |-> Between(base, at, k),
            exist  |-> Between(exist, [i \in DOMAIN at |-> eMap[at[i]]], k),
            anchor |-> IF k \in DOMAIN at THEN <<base[at[k]]>> ELSE <<>>]]

\* Both sides changed the region, and not alike.
Clash(r) == r.base # r.gen /\ r.base # r.exist /\ r.gen # r.exist

\* Fault: where both sides changed a region, the generate wins.
Reconcile_Takes(r, labels) == IF r.base = r.gen THEN r.exist ELSE r.gen

\* One region. Before an anchor and after the last one it holds no baseline
\* line, and the code's cases on the two insertions come to the same rule.
Reconcile(r, labels) ==
    IF r.base = r.gen THEN r.exist
    ELSE IF Clash(r) THEN WriteConflict(r.gen, r.exist, labels)
    ELSE r.gen

\* The full merge, with no fast path: the regions reconciled in order, each
\* followed by the anchor that ends it.
MergeRegions(gen, base, exist, labels) ==
    LET regions == Cut(gen, base, exist, AlignLCS(base, gen), AlignLCS(base, exist))
    IN  [content  |-> FlattenSeq([k \in DOMAIN regions |->
                                    Reconcile(regions[k], labels) \o regions[k].anchor]),
         outcome  |-> "merged",
         conflict |-> \E k \in DOMAIN regions : Clash(regions[k])]

\* Fault: a generate that did not change is taken for a file that did not.
Merge_Stale(gen, base, exist, labels) ==
    IF gen = base THEN [content |-> base, outcome |-> "same", conflict |-> FALSE]
    ELSE MergeRegions(gen, base, exist, labels)

\* Merge(generated, baseline, existing): the fast paths in their order, then
\* the full merge.
Merge(gen, base, exist, labels) ==
    IF gen = exist THEN [content |-> exist, outcome |-> "same", conflict |-> FALSE]
    ELSE IF exist = base THEN [content |-> gen, outcome |-> "clean", conflict |-> FALSE]
    ELSE IF HasConflicts(exist)
      THEN [content |-> exist, outcome |-> "unresolved", conflict |-> FALSE]
    ELSE MergeRegions(gen, base, exist, labels)

-----------------------------------------------------------------------------
(* Two-way diff. A hunk is shared or a change; a shared one keeps its      *)
(* lines as the generated side.                                            *)

\* A changed region, if there is one, after the hunks so far.
Flush(out, gen, exist) ==
    IF gen = <<>> /\ exist = <<>> THEN out
    ELSE Append(out, [kind |-> "change", generated |-> gen, existing |-> exist])

\* A line of both sides: it joins the run of such lines before it.
Share(out, line) ==
    IF out # <<>> /\ Last(out).kind = "same"
      THEN [out EXCEPT ![Len(out)].generated = Append(@, line)]
      ELSE Append(out, [kind |-> "same", generated |-> <<line>>, existing |-> <<>>])

\* The hunks up to each of the common lines, found at the given places.
HunksTo(gen, exist, common, inGen, inExist) ==
    LET out[k \in 0..Len(common)] ==
          IF k = 0 THEN <<>>
          ELSE Share(Flush(out[k - 1], Between(gen, inGen, k), Between(exist, inExist, k)),
                     common[k])
    IN  out

\* Fault: what follows the last shared line is dropped.
HunksOf_NoTail(gen, exist, common, inGen, inExist) ==
    HunksTo(gen, exist, common, inGen, inExist)[Len(common)]

\* The shared lines in runs, and between them the changed regions with both
\* sides.
HunksOf(gen, exist, common, inGen, inExist) ==
    Flush(HunksTo(gen, exist, common, inGen, inExist)[Len(common)],
          Between(gen, inGen, Len(common) + 1), Between(exist, inExist, Len(common) + 1))

Hunks(gen, exist) ==
    LET common == LCS(gen, exist)
    IN  HunksOf(gen, exist, common, Found(common, gen), Found(common, exist))

\* A side of a changed region between its markers, if it has lines.
Block(lines, side, labels) ==
    IF lines = <<>> THEN <<>>
    ELSE <<Opens(side, labels)>> \o Closed(lines) \o <<Closes(side, labels)>>

\* A hunk in the file: a changed region as the block of the file and then
\* that of the generate.
Shown(h, labels) ==
    IF h.kind = "same" THEN h.generated
    ELSE Block(h.existing, "EXISTING", labels) \o Block(h.generated, "GENERATED", labels)

\* The content of Diff(generated, existing).
Diff(gen, exist, labels) ==
    IF gen = exist THEN gen
    ELSE LET hunks == Hunks(gen, exist)
         IN  FlattenSeq([k \in DOMAIN hunks |-> Shown(hunks[k], labels)])
=============================================================================
