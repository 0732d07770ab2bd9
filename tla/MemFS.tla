------------------------------- MODULE MemFS -------------------------------
(***************************************************************************)
(* A file volume (MemFS of go/fs.go): files and directories by path.  A    *)
(* path is the sequence of its segments, as memClean leaves it.  A write   *)
(* makes the directories above it, and nothing asks what they were.        *)
(***************************************************************************)
EXTENDS Naturals, Sequences, TLC

CONSTANTS
    DefaultMode,  \* what the process gives a new file
    MemMode,      \* what MemFS reports of every file
    EmptyDir      \* what a volume map holds for an empty directory

File(text, mode) == [text |-> text, mode |-> mode]

NoVolume == [files |-> <<>>, dirs |-> {}]

\* The directories above a path, the root left out.
Above(path) == {SubSeq(path, 1, n) : n \in 1..(Len(path) - 1)}

IsBelow(path, dir) == Len(path) > Len(dir) /\ SubSeq(path, 1, Len(dir)) = dir

HasFile(v, path) == path \in DOMAIN v.files

Has(v, path) == path = <<>> \/ HasFile(v, path) \/ path \in v.dirs

\* One map laid over another.
Over(top, base) ==
    [x \in DOMAIN top \cup DOMAIN base |-> IF x \in DOMAIN top THEN top[x] ELSE base[x]]

Put(files, path, file) == Over([x \in {path} |-> file], files)

WriteFile(v, path, file) ==
    [files |-> Put(v.files, path, file), dirs |-> v.dirs \cup Above(path)]

MkdirAll(v, path) == [v EXCEPT !.dirs = @ \cup Above(path) \cup ({path} \ {<<>>})]

Rename(v, from, to) ==
    [files |-> Put([p \in DOMAIN v.files \ {from} |-> v.files[p]], to, v.files[from]),
     dirs |-> v.dirs \cup Above(to)]

Chmod(v, path, mode) == [v EXCEPT !.files[path].mode = mode]

\* newSeededMemFS: a volume map becomes files, and directories for what is
\* nothing but one.
Seed(vol) ==
    LET texts == {p \in DOMAIN vol : vol[p] # EmptyDir}
    IN  [files |-> [p \in texts |-> File(vol[p], MemMode)],
         dirs |-> (UNION {Above(p) : p \in DOMAIN vol}) \cup (DOMAIN vol \ texts)]

\* Vol: every text, and the directories with nothing in them.
Vol(v) ==
    LET bare == {d \in v.dirs \ DOMAIN v.files :
                    \A p \in DOMAIN v.files \cup v.dirs : ~IsBelow(p, d)}
    IN  [p \in DOMAIN v.files \cup bare |->
            IF p \in DOMAIN v.files THEN v.files[p].text ELSE EmptyDir]
=============================================================================
