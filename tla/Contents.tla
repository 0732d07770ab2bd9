------------------------------ MODULE Contents ------------------------------
(***************************************************************************)
(* The texts the file handler moves around, and what the diff engine does  *)
(* with them (go/diff.go, and injectAfter of go/build.go).                 *)
(*                                                                         *)
(* A text is cut into regions, the stretches between the lines both sides  *)
(* of a comparison kept, and a region is the set of the lines it holds.    *)
(* That is what the handler's decisions can tell apart: whether two texts  *)
(* are equal, whether a region changed on one side or on both, whether a   *)
(* text holds conflict markers, and whether it holds JOSTRACA_PROTECT.     *)
(***************************************************************************)

CONSTANTS
    Regions,    \* the stretches of a text that are reconciled one by one
    GenLines,   \* lines a generator writes
    UserLines,  \* lines only a user writes
    Fence,      \* the marker pair Inject writes between: a generated line
    Mark,       \* a conflict marker line
    Protect     \* a line holding JOSTRACA_PROTECT

Lines == GenLines \cup UserLines \cup {Mark, Protect}

ASSUME LinesAssumption ==
    /\ Fence \in GenLines
    /\ Mark \notin GenLines \cup UserLines \cup {Protect}
    /\ Protect \notin GenLines \cup UserLines
    /\ GenLines \cap UserLines = {}

Text == [Regions -> SUBSET Lines]

Empty == [r \in Regions |-> {}]

\* The lines of one kind that a text holds, anywhere.
Part(t, kind) == {l \in kind : \E r \in Regions : l \in t[r]}

\* Some line of the text starts with a conflict marker.
HasConflicts(t) == \E r \in Regions : Mark \in t[r]

\* JOSTRACA_PROTECT appears anywhere in the text.
IsProtected(t) == \E r \in Regions : Protect \in t[r]

\* A changed region with both sides written out between markers.
Conflict(gen, exist) == exist \cup gen \cup {Mark}

\* Fault: a region the user left alone keeps its old text.
MergeRegion_Keeps(gen, base, exist) ==
    IF base = gen \/ base = exist THEN exist
    ELSE IF gen = exist THEN gen ELSE Conflict(gen, exist)

\* One region of the three-way merge: a side that did not move from the
\* baseline gives way to the other, equal changes are taken once, and two
\* different changes are a conflict.
MergeRegion(gen, base, exist) ==
    IF base = gen THEN exist
    ELSE IF base = exist \/ gen = exist THEN gen
    ELSE Conflict(gen, exist)

\* Fault: markers from an earlier merge are merged like any other line.
Unresolved_Never(exist) == FALSE

\* A merge is never made into an unresolved one.
Unresolved(exist) == HasConflicts(exist)

\* Merge(generated, baseline, existing): the fast paths in their order, then
\* every region.
Merge(gen, base, exist) ==
    IF gen = exist THEN [content |-> exist, outcome |-> "same", conflict |-> FALSE]
    ELSE IF exist = base THEN [content |-> gen, outcome |-> "clean", conflict |-> FALSE]
    ELSE IF Unresolved(exist)
      THEN [content |-> exist, outcome |-> "unresolved", conflict |-> FALSE]
    ELSE [content  |-> [r \in Regions |-> MergeRegion(gen[r], base[r], exist[r])],
          outcome  |-> "merged",
          conflict |-> \E r \in Regions : /\ base[r] # gen[r]
                                          /\ base[r] # exist[r]
                                          /\ gen[r] # exist[r]]

\* Diff(generated, existing).Content: every changed region is marked up.
DiffRender(gen, exist) ==
    [r \in Regions |-> IF gen[r] = exist[r] THEN gen[r] ELSE Conflict(gen[r], exist[r])]

\* What an Inject makes of the file's text: the body replaces what stands
\* between the markers, in every region that has them. A text without the
\* markers comes back as it is, and is still saved.
Injected(t, body) ==
    [r \in Regions |-> IF Fence \in t[r] THEN {Fence} \cup body ELSE t[r]]
=============================================================================
