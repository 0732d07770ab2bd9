----------------------------- MODULE MergeRounds -----------------------------
(***************************************************************************)
(* One file under merge over several runs, line by line: what saveMerge of *)
(* go/filehandler.go makes of the file and of its baseline with the merge  *)
(* of go/diff.go, while the user edits the file before the first of the    *)
(* runs and takes marker lines out of it after a conflict. FileHandler has *)
(* the handler's other modes, and its crashes.                             *)
(***************************************************************************)
EXTENDS DiffLines

CONSTANTS
    Texts,      \* what a generate, and a user who edits the file, may write
    Regens,     \* what the generates after the first merge may write
    MaxRuns     \* bound: how many runs save the file

ASSUME RoundsAssumption ==
    /\ MaxRuns \in Nat \ {0}
    /\ Regens \subseteq Texts
    /\ Texts \subseteq Text
    /\ \A t \in Texts : WellCut(t) /\ ~HasConflicts(t)

VARIABLES
    generated,  \* what the next run generates
    baseline,   \* the generate kept in the duplicate folder
    existing,   \* the file
    landed,     \* the generates of this file that landed, by fingerprint
    when,       \* time of the next run; the last one ran at when - 1
    stage       \* who is next: "edited", "merged", "cleared", "generated", "shown"

vars == <<generated, baseline, existing, landed, when, stage>>

\* The file was generated and then edited, to any text, and the generator's
\* input changed, to any other.
Init ==
    /\ generated \in Texts
    /\ baseline \in Texts
    /\ existing \in Texts
    /\ landed = {baseline}
    /\ when = 1
    /\ stage = "edited"

\* The file is one of its own generates, and not the last: it is nobody's
\* edit, and the generate is taken whole.
Earlier == existing # baseline /\ existing \in landed

\* What saveMerge is to write.
Merged ==
    IF Earlier THEN [content |-> generated, outcome |-> "clean", conflict |-> FALSE]
    ELSE Merge(generated, baseline, existing, LabelsOf(when, when - 1))

\* A run saves the file: the merge is written and the generate has landed, as
\* the next baseline, except over an unresolved file, which is left as it is.
SaveMerge ==
    /\ stage # "shown"
    /\ when <= MaxRuns
    /\ \E merged \in {Merged} :
          /\ existing' = merged.content
          /\ IF merged.outcome = "unresolved"
               THEN UNCHANGED <<baseline, landed>>
               ELSE baseline' = generated /\ landed' = landed \cup {generated}
    /\ when' = when + 1
    /\ stage' = "merged"
    /\ UNCHANGED generated

\* A run in diff mode shows the two texts in the file instead.
SaveDiff ==
    /\ stage = "edited"
    /\ existing' = Diff(generated, existing, LabelsOf(when, when - 1))
    /\ baseline' = generated
    /\ when' = when + 1
    /\ stage' = "shown"
    /\ UNCHANGED <<generated, landed>>

\* The user takes the marker lines out of a conflict, but may forget one.
ClearMarks ==
    /\ stage = "merged"
    /\ LET marks == {i \in DOMAIN existing : existing[i].kind # "content"}
       IN  /\ marks # {}
           /\ \E left \in {{}} \cup {{i} : i \in marks} :
                 existing' = LinesAt(existing, DOMAIN existing \ (marks \ left))
    /\ stage' = "cleared"
    /\ UNCHANGED <<generated, baseline, landed, when>>

\* The generator's input changes before the next run.
Regenerate ==
    /\ stage \in {"merged", "cleared"}
    /\ when <= MaxRuns
    /\ generated' \in Regens \ {generated}
    /\ stage' = "generated"
    /\ UNCHANGED <<baseline, existing, landed, when>>

Next == SaveMerge \/ SaveDiff \/ ClearMarks \/ Regenerate

Spec == Init /\ [][Next]_vars

-----------------------------------------------------------------------------
(* What the merge owes its users.                                          *)

\* The file is never glued together: whichever side lacks its last newline,
\* no line of the file runs into the one after it (endsWithNewline, and the
\* order in which Merge and Diff append their regions).
NoGluedLines == WellCut(existing)

\* A marker never meets one of another run: a conflict is not merged again
\* into a conflict, even where the user has taken out only some of its
\* markers (HasConflicts).
OneRunOfMarks ==
    LET times == {<<existing[i].text[1], existing[i].text[2]>> :
                    i \in {j \in DOMAIN existing : existing[j].kind \in {"opens", "closes"}}}
    IN  \A s, t \in times : s[1] = t[1] => s[2] = t[2]

\* How many lines of a text say the same as line.
Count(text, line) == Cardinality({i \in DOMAIN text : text[i].text = line.text})

\* No line that a side added to the baseline is lost by a merge, with its
\* multiplicity: the user's edits and the generator's are both in the file,
\* in its regions or in a conflict (Merge, AlignLCS).
AdditionsKept ==
    [][SaveMerge /\ ~Earlier =>
        \A side \in {existing} \cup IF HasConflicts(existing) THEN {} ELSE {generated} :
        \A i \in DOMAIN side :
            Count(existing', side[i]) + Count(baseline, side[i]) >= Count(side, side[i])]_vars

\* The fast paths of Merge return what the full merge would
\* (go/diff.go 448: "Each is semantics-identical to running the full merge").
FastPathsAgree ==
    stage = "edited" =>
        \E fast \in {Merge(generated, baseline, existing, LabelsOf(when, when - 1))} :
        \E full \in {MergeRegions(generated, baseline, existing, LabelsOf(when, when - 1))} :
            fast.content = full.content /\ fast.conflict = full.conflict

\* A run that generates what its baseline is leaves the file alone, with the
\* user's edits, a conflict or what the user made of one, unless the file is
\* an earlier generate.
SettledFileStays ==
    [][SaveMerge /\ generated = baseline /\ ~Earlier => existing' = existing]_vars

\* A pairing of equal lines of two texts, in the order they have in both.
IsPairing(f, a, b) ==
    /\ \A i \in DOMAIN f : b[f[i]] = a[i]
    /\ \A i, j \in DOMAIN f : i < j => f[i] < f[j]

\* The lines AlignLCS anchors on are as many as two texts can share, and are
\* paired in their order (LCS, hirschberg, lcsRow). Reference: every such
\* pairing of some places of the one text with places of the other.
LongestAnchors ==
    stage = "edited" =>
        \E map \in {AlignLCS(baseline, existing)} :
            LET kept == {i \in DOMAIN map : map[i] > 0}
            IN  /\ IsPairing([i \in kept |-> map[i]], baseline, existing)
                /\ \A places \in SUBSET DOMAIN baseline :
                   \A f \in [places -> DOMAIN existing] :
                      IsPairing(f, baseline, existing) => Cardinality(places) <= Cardinality(kept)

\* Line i stands in a block of the side.
InBlock(text, side, i) ==
    \E s \in 1..i : /\ text[s].kind = "opens" /\ text[s].text[1] = side
                    /\ \A j \in s..i - 1 : text[j].kind # "closes"

\* What a reader of a diff takes one of its sides for: the text without the
\* blocks of the other side and without the markers. A diff writes no line
\* between the sides, so that one that looks like it is of the text.
ReadBack(text, other) ==
    LinesAt(text, {i \in DOMAIN text :
                      text[i].kind \notin {"opens", "closes"} /\ ~InBlock(text, other, i)})

\* A diff shows both texts whole and in order: each can be read back from
\* the file, up to its last newline (Diff, Hunks).
DiffShowsBoth ==
    [][SaveDiff =>
        /\ Closed(ReadBack(existing', "EXISTING")) = Closed(generated)
        /\ Closed(ReadBack(existing', "GENERATED")) = Closed(existing)]_vars
=============================================================================
