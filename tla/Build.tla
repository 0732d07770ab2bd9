------------------------------- MODULE Build -------------------------------
(***************************************************************************)
(* The build phase of one Generate (go/build.go): the node tree is walked  *)
(* depth first, each kind of node has a hook on the way in and one on the  *)
(* way out, and the hooks share a mutable context: the current folder, the *)
(* paths that Files have claimed, the texts stashed on nodes.  A CopyFiles *)
(* of a directory walks its source, which may hold links, and an Inject    *)
(* scans its target for marker pairs.                                      *)
(*                                                                         *)
(* What a save does with an existing file is FileHandler's subject; here   *)
(* the options are the defaults, and a save replaces the file.             *)
(***************************************************************************)
EXTENDS Define

CONSTANTS
    Programs,   \* the programs a behaviour may run
    Ignored     \* entry names that a copy ignores

\* The folder that a program starts from is one of a file system: no file is
\* its root, and no file lies below a file.
ASSUME ProgramsAssumption ==
    \A p \in Programs : \A path \in DOMAIN p.disk :
        path # <<>> /\ Parents(path) \cap DOMAIN p.disk = {}

VARIABLES
    hooks,      \* the nodes being visited: node, and the next child
    folder,     \* b.current.folder: its parent path and the folder names
    claims,     \* b.filepaths: the paths that a File has claimed
    copying,    \* the directories a copy is inside of
    visited,    \* the directories on the way to the one being copied
    scan,       \* an Inject in progress: position, output, matched
    disk,       \* the files of the output folder, by path
    dirs,       \* the directories of the output folder
    saved,      \* fh.savedPaths: the paths saved in this run
    warned,     \* the warnings raised
    served      \* how many output operations have been carried out

buildVars == <<hooks, folder, claims, copying, visited, scan, disk, dirs, saved, warned,
               served>>
vars == <<prog, nodes, calls, phase, buildVars>>

Out == <<"out">>
NoScan == [on |-> FALSE, pos |-> 1, out |-> <<>>, hit |-> FALSE]

Canon(path) == SelectSeq(path, LAMBDA seg : seg # ".")

\* The path of a name in the current folder.
PathTo(name) == Canon(folder.parent \o FlattenSeq(folder.path) \o name)

Exists(path) == path \in DOMAIN disk \cup dirs

MkdirFails(path) == ~prog.dry /\ (Parents(path) \cup {path}) \cap DOMAIN disk # {}

Mkdir(path) ==
    dirs' = IF prog.dry \/ MkdirFails(path) THEN dirs
            ELSE dirs \cup Parents(path) \cup {path}

\* Fault: a directory in the way is not seen.
SaveFails_Blind(path) == ~prog.dry /\ Parents(path) \cap DOMAIN disk # {}

SaveFails(path) == path \in dirs \/ (~prog.dry /\ Parents(path) \cap DOMAIN disk # {})

\* A second save of a path is carried out, with a warning.
Save(path, text, warning) ==
    /\ IF prog.dry THEN UNCHANGED <<disk, dirs>>
       ELSE /\ disk' = [p \in DOMAIN disk \cup {path} |-> IF p = path THEN text ELSE disk[p]]
            /\ dirs' = dirs \cup Parents(path)
    /\ saved' = saved \cup {path}
    /\ warned' = warned \o warning \o (IF path \in saved THEN <<path>> ELSE <<>>)

Served == served' = served + 1

Here == Last(hooks)
Node == nodes[Here.n]

\* The first error of a hook stops the walk.
Fail ==
    /\ phase' = "failed"
    /\ UNCHANGED <<prog, nodes, calls, buildVars>>

Visiting == phase = "build" /\ hooks # <<>> /\ copying = <<>> /\ ~scan.on

Before(kind) == Visiting /\ Here.next = 0 /\ Node.kind = kind
After(kind)  == Visiting /\ Here.next = Len(Node.kids) + 1 /\ Node.kind = kind

Enter == hooks' = [hooks EXCEPT ![Len(hooks)].next = 1]
Leave == hooks' = Front(hooks)

\* The text a File, an Inject or a Fragment takes from its children, in
\* source order: through the nodes that only nest, but not into a File.
CollectInPlace(id) ==
    LET Text[i \in DOMAIN nodes] ==
          FlattenSeq([k \in DOMAIN nodes[i].kids |->
            LET d == nodes[i].kids[k]
            IN  CASE nodes[d].kind \in {"none", "slot", "folder", "project"} -> Text[d]
                  [] nodes[d].kind \in {"content", "fragment", "inject", "copy"} -> nodes[d].text
                  [] nodes[d].kind = "file" -> <<>>])
    IN  Text[id]

\* The define phase is over; a tree with nothing in it builds nothing.
StartBuild ==
    /\ phase = "define" /\ calls = <<>>
    /\ IF prog.build /\ nodes[1].kids # <<>>
       THEN phase' = "build" /\ hooks' = <<[n |-> 1, next |-> 0]>>
       ELSE phase' = "done" /\ UNCHANGED hooks
    /\ UNCHANGED <<prog, nodes, calls, folder, claims, copying, visited, scan, disk, dirs,
                   saved, warned, served>>

Descend ==
    /\ Visiting
    /\ Here.next \in DOMAIN Node.kids
    /\ hooks' = Append([hooks EXCEPT ![Len(hooks)].next = @ + 1],
                       [n |-> Node.kids[Here.next], next |-> 0])
    /\ UNCHANGED <<prog, nodes, calls, phase, folder, claims, copying, visited, scan, disk,
                   dirs, saved, warned, served>>

\* A node without hooks on the way in, and on the way out.
NoHook ==
    /\ \/ /\ \E kind \in {"none", "content", "slot", "fragment"} : Before(kind)
          /\ Enter
       \/ /\ \E kind \in {"none", "content", "slot"} : After(kind)
          /\ Leave
    /\ UNCHANGED <<prog, nodes, calls, phase, folder, claims, copying, visited, scan, disk,
                   dirs, saved, warned, served>>

\* A Project sets the folder for its subtree and keeps what was there.
ProjectBefore ==
    /\ Before("project")
    /\ LET parent == Canon(Out \o Node.folder)
       IN  /\ nodes' = [nodes EXCEPT ![Here.n].prev = folder]
           /\ folder' = [parent |-> parent, path |-> <<>>]
           /\ Mkdir(parent)
    /\ Enter /\ Served
    /\ UNCHANGED <<prog, calls, phase, claims, copying, visited, scan, disk, saved, warned>>

\* Fault: the folder of a Project stays current after it.
Restored_Never(node) == folder

Restored(node) == node.prev

ProjectAfter ==
    /\ After("project")
    /\ folder' = Restored(Node)
    /\ Leave
    /\ UNCHANGED <<prog, nodes, calls, phase, claims, copying, visited, scan, disk, dirs,
                   saved, warned, served>>

FolderBefore ==
    /\ Before("folder")
    /\ LET path == PathTo(Node.name)
       IN  IF BadName(Node.name) \/ MkdirFails(path) THEN Fail
           ELSE /\ folder' = [folder EXCEPT !.path = Append(@, Node.name)]
                /\ Mkdir(path)
                /\ Enter /\ Served
                /\ UNCHANGED <<prog, nodes, calls, phase, claims, copying, visited, scan,
                               disk, saved, warned>>

FolderAfter ==
    /\ After("folder")
    /\ folder' = [folder EXCEPT !.path = Front(@)]
    /\ Leave
    /\ UNCHANGED <<prog, nodes, calls, phase, claims, copying, visited, scan, disk, dirs,
                   saved, warned, served>>

\* Fault: the second File at a path wins.
Taken_Never(path) == FALSE

\* A File of this run has claimed the path.
Taken(path) == path \in claims

FileBefore ==
    /\ Before("file")
    /\ LET path == PathTo(Node.name)
       IN  IF BadName(Node.name) \/ Taken(path) THEN Fail
           ELSE /\ nodes' = [nodes EXCEPT ![Here.n].full = path]
                /\ claims' = claims \cup {path}
                /\ Enter /\ Served
                /\ UNCHANGED <<prog, calls, phase, folder, copying, visited, scan, disk,
                               dirs, saved, warned>>

FileAfter ==
    /\ After("file")
    /\ IF Excludes(Node.exclude, Node.path) /\ Exists(Node.full) THEN UNCHANGED <<disk, dirs, saved, warned>>
       ELSE ~SaveFails(Node.full) /\ Save(Node.full, CollectInPlace(Here.n), <<>>)
    /\ Leave /\ Served
    /\ UNCHANGED <<prog, nodes, calls, phase, folder, claims, copying, visited, scan>>

FileFails ==
    /\ After("file")
    /\ ~(Excludes(Node.exclude, Node.path) /\ Exists(Node.full))
    /\ SaveFails(Node.full)
    /\ Fail

FragmentAfter ==
    /\ After("fragment")
    /\ nodes' = [nodes EXCEPT ![Here.n].text = IndentIf(Node, CollectInPlace(Here.n))]
    /\ Leave
    /\ UNCHANGED <<prog, calls, phase, folder, claims, copying, visited, scan, disk, dirs,
                   saved, warned, served>>

-----------------------------------------------------------------------------
(* CopyFiles: a file is read on the way in, a directory is walked on the   *)
(* way out.                                                                *)

Source(node) == prog.vol[node.from]

\* The name a copy lands under: its own, or that of a single source file.
CopyName(node) == IF node.name = <<>> /\ ~Source(node).dir THEN <<node.from>> ELSE node.name

\* Does the exclude of a Copy name this path of the source?  A boolean is
\* no path and names nothing.
CopyExcluded(node, rel) == node.exclude # Everything /\ rel \in node.exclude

CopyBefore ==
    /\ Before("copy")
    /\ IF BadName(CopyName(Node)) THEN Fail
       ELSE /\ nodes' = [nodes EXCEPT ![Here.n] =
                 IF Source(Node).dir THEN [@ EXCEPT !.after = "walk"]
                 ELSE IF CopyExcluded(Node, <<Node.from>>) THEN [@ EXCEPT !.after = "excluded"]
                 ELSE [@ EXCEPT !.after = "file", !.full = PathTo(CopyName(Node)),
                                !.text = Copied(Source(Node), Node.item)]]
            /\ Enter
            /\ UNCHANGED <<prog, calls, phase, folder, claims, copying, visited, scan, disk,
                           dirs, saved, warned, served>>

\* A single file, or the end of one that is excluded.
CopyAfter ==
    /\ After("copy")
    /\ \/ /\ Node.after = "excluded"
          /\ UNCHANGED <<disk, dirs, saved, warned, served>>
       \/ /\ Node.after = "file" /\ ~SaveFails(Node.full)
          /\ Save(Node.full, Node.text, <<>>) /\ Served
    /\ Leave
    /\ UNCHANGED <<prog, nodes, calls, phase, folder, claims, copying, visited, scan>>

CopyFails ==
    /\ After("copy")
    /\ Node.after = "file" /\ SaveFails(Node.full)
    /\ Fail

\* Is the directory on the way to itself?  Two names of one directory
\* compare by what they stand for.
Seen(real) == real \in visited

Walk(real, to, rel) == [real |-> real, to |-> to, rel |-> rel, left |-> prog.vol[real].names]

\* Enter a directory below another, unless that would be a cycle.
EnterDir(real, to, rel, rest) ==
    \/ /\ Len(rest) > MaxCopyDepth
       /\ Fail
    \/ /\ Len(rest) <= MaxCopyDepth /\ Seen(real)
       /\ warned' = Append(warned, rel)
       /\ copying' = rest
       /\ Served
       /\ UNCHANGED <<prog, nodes, calls, phase, hooks, folder, claims, visited, scan, disk,
                      dirs, saved>>
    \/ /\ Len(rest) <= MaxCopyDepth /\ ~Seen(real)
       /\ visited' = visited \cup {real}
       /\ copying' = Append(rest, Walk(real, to, rel))
       /\ UNCHANGED <<prog, nodes, calls, phase, hooks, folder, claims, scan, disk, dirs,
                      saved, warned, served>>

CopyWalk ==
    /\ After("copy")
    /\ Node.after = "walk"
    /\ visited' = {Node.from}
    /\ copying' = <<Walk(Node.from, folder.parent \o FlattenSeq(folder.path) \o Node.name, <<>>)>>
    /\ UNCHANGED <<prog, nodes, calls, phase, hooks, folder, claims, scan, disk, dirs, saved,
                   warned, served>>

Copying == phase = "build" /\ copying # <<>>
In == Last(copying)
Step == Append(Front(copying), [In EXCEPT !.left = Tail(@)])

\* The next entry of the directory, in sorted order.
Entry == Head(In.left)
EntryRel == Append(In.rel, Entry)
EntryTo == Append(In.to, Entry)
EntryReal == prog.vol[In.real].at[Entry]
CopyIgnored == Entry \in Ignored \/ CopyExcluded(Node, EntryRel)

CopyIgnore ==
    /\ Copying /\ In.left # <<>> /\ CopyIgnored
    /\ copying' = Step
    /\ UNCHANGED <<prog, nodes, calls, phase, hooks, folder, claims, visited, scan, disk, dirs,
                   saved, warned, served>>

\* An entry that is a directory, or a link to one.
CopyDir ==
    /\ Copying /\ In.left # <<>> /\ ~CopyIgnored
    /\ EntryReal \in DOMAIN prog.vol /\ prog.vol[EntryReal].dir
    /\ EnterDir(EntryReal, EntryTo, EntryRel, Step)

\* A file; a link that leads nowhere cannot be read.
CopyFile ==
    /\ Copying /\ In.left # <<>> /\ ~CopyIgnored
    /\ IF EntryReal \notin DOMAIN prog.vol THEN Fail
       ELSE /\ ~prog.vol[EntryReal].dir
            /\ IF SaveFails(Canon(EntryTo)) THEN Fail
               ELSE /\ Save(Canon(EntryTo), Copied(prog.vol[EntryReal], Node.item), <<>>)
                    /\ copying' = Step
                    /\ Served
                    /\ UNCHANGED <<prog, nodes, calls, phase, hooks, folder, claims, visited,
                                   scan>>

\* Fault: a directory stays in visited when the walk leaves it.
Unwound_Never(real) == visited

Unwound(real) == visited \ {real}

\* The directory is done; the way to it gets shorter.
CopyLeave ==
    /\ Copying /\ In.left = <<>>
    /\ copying' = Front(copying)
    /\ visited' = Unwound(In.real)
    /\ IF Len(copying) = 1 THEN Leave ELSE UNCHANGED hooks
    /\ UNCHANGED <<prog, nodes, calls, phase, folder, claims, scan, disk, dirs, saved, warned, served>>

-----------------------------------------------------------------------------
(* Inject rewrites what lies between its markers in an existing file.      *)

InjectBefore ==
    /\ Before("inject")
    /\ IF BadName(Node.name) THEN Fail
       ELSE /\ nodes' = [nodes EXCEPT ![Here.n].full = PathTo(Node.name)]
            /\ Enter
            /\ UNCHANGED <<prog, calls, phase, folder, claims, copying, visited, scan, disk,
                           dirs, saved, warned, served>>

\* Any truthy exclude leaves the target alone, whatever it names.
InjectAfter ==
    /\ After("inject")
    /\ IF Node.exclude # {}
       THEN /\ Leave /\ Served
            /\ UNCHANGED <<phase, scan>>
       ELSE IF Node.full \in DOMAIN disk
       THEN /\ scan' = [NoScan EXCEPT !.on = TRUE]
            /\ UNCHANGED <<phase, hooks, served>>
       ELSE /\ phase' = "failed"
            /\ UNCHANGED <<scan, hooks, served>>
    /\ UNCHANGED <<prog, nodes, calls, folder, claims, copying, visited, disk, dirs, saved, warned>>

Scanning == phase = "build" /\ scan.on
Target == disk[Node.full]
StartAt == IndexFrom(Target, Node.markers[1], scan.pos)
EndAt == IF StartAt = 0 THEN 0 ELSE IndexFrom(Target, Node.markers[2], StartAt + 1)

\* Fault: the pair is found and neither written nor passed.
PairDone_Stuck(body) == [scan EXCEPT !.hit = TRUE]

\* One pair: up to the start marker as it was, then the injected text.  The
\* scan goes on at the end marker, which it has not consumed.
PairDone(body) ==
    [scan EXCEPT !.out = @ \o SubSeq(Target, scan.pos, StartAt) \o body,
                 !.pos = EndAt, !.hit = TRUE]

InjectPair ==
    /\ Scanning /\ EndAt # 0
    /\ scan' = PairDone(CollectInPlace(Here.n))
    /\ UNCHANGED <<prog, nodes, calls, phase, hooks, folder, claims, copying, visited, disk,
                   dirs, saved, warned, served>>

\* No further pair: the rest as it was.  A target without a pair is saved
\* as it is, with a warning.
InjectSave ==
    /\ Scanning /\ EndAt = 0
    /\ Save(Node.full, scan.out \o SubSeq(Target, scan.pos, Len(Target)),
            IF scan.hit THEN <<>> ELSE <<Node.full>>)
    /\ scan' = NoScan
    /\ Leave /\ Served
    /\ UNCHANGED <<prog, nodes, calls, phase, folder, claims, copying, visited>>

-----------------------------------------------------------------------------

\* The root is visited; the meta log is written and the run is over.
BuildEnd ==
    /\ phase = "build" /\ hooks = <<>>
    /\ phase' = "done"
    /\ UNCHANGED <<prog, nodes, calls, buildVars>>

Init ==
    /\ prog \in Programs
    /\ DefineInit
    /\ hooks = <<>> /\ folder = [parent |-> Out, path |-> <<>>]
    /\ claims = {} /\ copying = <<>> /\ visited = {} /\ scan = NoScan
    /\ disk = prog.disk
    /\ dirs = {<<>>} \cup UNION {Parents(path) : path \in DOMAIN prog.disk}
    /\ saved = {} /\ warned = <<>> /\ served = 0

BuildStep ==
    \/ StartBuild \/ Descend \/ NoHook \/ ProjectBefore \/ ProjectAfter
    \/ FolderBefore \/ FolderAfter \/ FileBefore \/ FileAfter \/ FileFails
    \/ FragmentAfter \/ CopyBefore \/ CopyAfter \/ CopyFails \/ CopyWalk
    \/ CopyIgnore \/ CopyDir \/ CopyFile \/ CopyLeave
    \/ InjectBefore \/ InjectAfter \/ InjectPair \/ InjectSave \/ BuildEnd

Next == (DefineStep /\ UNCHANGED buildVars) \/ BuildStep

Spec == Init /\ [][Next]_vars /\ WF_vars(Next)
=============================================================================
