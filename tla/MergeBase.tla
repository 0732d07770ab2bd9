----------------------------- MODULE MergeBase -----------------------------
(***************************************************************************)
(* What the file handler promises about the files of a folder, with no     *)
(* word of modes, markers or fingerprints: a file changes under the user   *)
(* only by the landing of a generate, a landing keeps the lines the user   *)
(* wrote unless the run gave them up first, and a file's baseline only     *)
(* ever moves to the generate that has just landed in it.                  *)
(***************************************************************************)
EXTENDS Contents

CONSTANTS Paths, NoFile

VARIABLES
    file,      \* the file at each path
    baseline,  \* the generate each file was last reconciled with
    landing,   \* a generate that landed and is not the baseline yet
    forfeited  \* the paths whose user lines the run may overwrite

abstractVars == <<file, baseline, landing, forfeited>>

Nowhere == [p \in Paths |-> NoFile]

\* No line of the user's is gone from any region.
Keeps(f, t) ==
    f # NoFile => \A r \in Regions : f[r] \cap UserLines \subseteq t[r]

OthersStay(f, g, p) == \A q \in Paths \ {p} : g[q] = f[q]

Init == /\ file = Nowhere /\ baseline = Nowhere /\ landing = Nowhere
        /\ forfeited \subseteq Paths

\* A generate lands at a path: the file's text is what became of it.
Land(p) ==
    /\ file'[p] \in Text /\ OthersStay(file, file', p)
    /\ Keeps(file[p], file'[p]) \/ p \in forfeited
    /\ landing'[p] \in Text /\ OthersStay(landing, landing', p)
    /\ UNCHANGED <<baseline, forfeited>>

\* The baseline catches up with what landed.
Record(p) ==
    /\ landing[p] # NoFile
    /\ baseline' = [baseline EXCEPT ![p] = landing[p]]
    /\ landing' = [landing EXCEPT ![p] = NoFile]
    /\ UNCHANGED <<file, forfeited>>

\* A landing that is interrupted, or made without a baseline.
Drop == /\ landing' = Nowhere
        /\ UNCHANGED <<file, baseline>> /\ forfeited' \subseteq Paths

\* A run gives up a path, before it writes there; a new run starts over.
Forfeit == /\ forfeited' \subseteq Paths
           /\ UNCHANGED <<file, baseline, landing>>

\* The user, a checkout, a clone: never while a landing is pending.
Outside(p) ==
    /\ landing = Nowhere
    /\ file'[p] \in Text \cup {NoFile} /\ OthersStay(file, file', p)
    /\ UNCHANGED <<baseline, landing, forfeited>>

Forget == /\ landing = Nowhere /\ baseline' = Nowhere
          /\ UNCHANGED <<file, landing, forfeited>>

Next == \/ \E p \in Paths : Land(p) \/ Record(p) \/ Outside(p)
        \/ Drop \/ Forfeit \/ Forget

Spec == Init /\ [][Next]_abstractVars
=============================================================================
