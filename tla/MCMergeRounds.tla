---------------------------- MODULE MCMergeRounds ----------------------------
(***************************************************************************)
(* A small instance of MergeRounds for TLC: texts of a few lines over a    *)
(* few names, so that lines repeat and common subsequences tie.            *)
(***************************************************************************)
EXTENDS MergeRounds

CONSTANTS
    WholeLines, \* bound: lines of a text that ends in a newline
    OpenLines,  \* bound: lines of a text that does not
    RegenLines  \* bound: lines of the generates after the first merge

Wholes(n) == UNION {[1..k -> [kind : {"content"}, text : Names, ended : {TRUE}]] : k \in 0..n}

Opened(text) == [text EXCEPT ![Len(text)].ended = FALSE]

MCTexts == Wholes(WholeLines) \cup {Opened(t) : t \in Wholes(OpenLines) \ {<<>>}}

MCRegens == Wholes(RegenLines)
=============================================================================
