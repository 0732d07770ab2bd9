--------------------------- MODULE MCFileHandler ---------------------------
(***************************************************************************)
(* Small instances of FileHandler for TLC.                                 *)
(***************************************************************************)
EXTENDS FileHandlerProps, TLC

CONSTANTS A, B, a1, a2, b1, i1, u, p, q

OnePath == {p}
TwoPaths == {p, q}

NoInjections == {}
OneInjection == {{i1}}

AllEvents == Events
EditsOnly == {"edit"}

MCRegions  == {A, B}
MCGenLines == {a1, a2, b1, i1, Fence}
MCUserLines == {u}

\* Two generates that differ in one region.
Plain(l) == (A :> {l}) @@ (B :> {b1})
MCGenerates == {Plain(a1), Plain(a2)}

\* The same, with a fenced region for Inject.
Fenced(l) == (A :> {l}) @@ (B :> {Fence})
MCFenced == {Fenced(a1), Fenced(a2)}

\* Options of a run, by the flags that are on.
NoOptions == [write |-> FALSE, preserve |-> FALSE, present |-> FALSE, diff |-> FALSE,
              merge |-> FALSE, conflictFail |-> FALSE, duplicate |-> FALSE, dryrun |-> FALSE]
With(on) == [flag \in DOMAIN NoOptions |-> flag \in on]

MergeMode   == With({"write", "merge", "duplicate"})
FailMode    == With({"write", "merge", "conflictFail", "duplicate"})
OnlyMerge   == {MergeMode}
MergeModes  == {MergeMode, FailMode}
BackupModes == {With({"write", "preserve", "duplicate"})}
FolderModes == {FailMode, With({"write", "merge"}), With({"write", "diff", "duplicate"})}

\* Every flag that touches an existing file, in every combination.
AllModes == {With(on \cup {"preserve", "duplicate"}) :
               on \in SUBSET {"write", "present", "diff", "merge"}}
            \cup {With({"write", "merge"}), With({"merge", "conflictFail", "duplicate"}),
                  With({"write", "preserve", "merge", "duplicate", "dryrun"})}
=============================================================================
