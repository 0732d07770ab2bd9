-------------------------- MODULE MCExcludeWindow --------------------------
(***************************************************************************)
(* Two outputs over a few milliseconds, for TLC.                           *)
(***************************************************************************)
EXTENDS ExcludeWindow

CONSTANTS f1, f2, g1, g2

TwoOutputs == {f1, f2}
TwoGenerates == {g1, g2}
OneCopied == {f2}
=============================================================================
