--------------------------- MODULE MCAtomicWrite ---------------------------
(***************************************************************************)
(* Two processes that replace one file, for TLC.                           *)
(***************************************************************************)
EXTENDS AtomicWrite, TLC

CONSTANTS w1, w2, n1, n2, n3

TwoWriters == {w1, w2}
ThreeNames == {n1, n2, n3}

\* The first has two temp paths to try, the second one.
MCNamesOf == (w1 :> {n1, n2}) @@ (w2 :> {n3})

\* One of them creates exclusively, the other asks first.
OneExclusive == {w1}
=============================================================================
