--------------------------- MODULE Generate_proofs --------------------------
(***************************************************************************)
(* Theorems about a whole Generate, for every program, volume and bound.   *)
(***************************************************************************)
EXTENDS Generate, SequenceTheorems, FiniteSetTheorems, TLAPS

(* The way to the directory that a copy is in. *)

\* A directory being copied, as Walk makes it.
IsWalk(w) == w = [real |-> w.real, to |-> w.to, rel |-> w.rel, left |-> w.left]

WayInv ==
    /\ \E S : copying \in Seq(S)
    /\ \A k \in DOMAIN copying : IsWalk(copying[k])
    /\ VisitedIsTheWay

LEMMA TakenIsWalk ==
    ASSUME NEW w, IsWalk(w), NEW rest
    PROVE  IsWalk([w EXCEPT !.left = rest]) /\ [w EXCEPT !.left = rest].real = w.real
<1>1. PICK a, b, c, d : w = [real |-> a, to |-> b, rel |-> c, left |-> d]
  BY Zenon DEF IsWalk
<1>2. [w EXCEPT !.left = rest] = [real |-> a, to |-> b, rel |-> c, left |-> rest]
  BY <1>1
<1>3. w.real = a
  BY <1>1
<1> DEFINE taken == [w EXCEPT !.left = rest]
<1> HIDE DEF taken
<1> SUFFICES IsWalk(taken) /\ taken.real = w.real
  BY DEF taken
<1> QED
  BY <1>2, <1>3 DEF IsWalk, taken

\* The next entry is taken, and the way stays.
LEMMA StepKeepsTheWay ==
    ASSUME NEW S, copying \in Seq(S), copying # <<>>,
           \A k \in DOMAIN copying : IsWalk(copying[k])
    PROVE  /\ \E T : Step \in Seq(T)
           /\ DOMAIN Step = DOMAIN copying
           /\ \A k \in DOMAIN copying : IsWalk(Step[k]) /\ Step[k].real = copying[k].real
<1> DEFINE n == Len(copying)
           stepped == [In EXCEPT !.left = Tail(@)]
           front == Front(copying)
<1>1. n \in Nat \ {0} /\ In = copying[n] /\ DOMAIN copying = 1..n
  BY DEF In, Last
<1>2. IsWalk(stepped) /\ stepped.real = In.real
  <2>1. IsWalk(In)
    BY <1>1
  <2> QED
    BY <2>1, TakenIsWalk, Zenon
<1>3. /\ front \in Seq(S) /\ Len(front) = n - 1
      /\ \A k \in 1..(n - 1) : front[k] = copying[k]
  BY <1>1 DEF Front
<1>4. Step = Append(front, stepped)
  BY Zenon DEF Step
<1> HIDE DEF stepped, front, n
<1>5. /\ Step \in Seq(S \cup {stepped}) /\ DOMAIN Step = 1..n
      /\ \A k \in 1..n : Step[k] = IF k = n THEN stepped ELSE front[k]
  BY <1>1, <1>3, <1>4
<1>6. \A k \in 1..n : Step[k] = IF k = n THEN stepped ELSE copying[k]
  BY <1>1, <1>3, <1>5
<1> QED
  BY <1>1, <1>2, <1>5, <1>6

\* A step of the copy that stays on its way.
LEMMA WayStays ==
    ASSUME WayInv, copying # <<>>, copying' = Step, visited' = visited
    PROVE  WayInv'
<1>1. PICK S : copying \in Seq(S)
  BY DEF WayInv
<1>2. /\ \E T : Step \in Seq(T)
      /\ DOMAIN Step = DOMAIN copying
      /\ \A k \in DOMAIN copying : IsWalk(Step[k]) /\ Step[k].real = copying[k].real
  BY <1>1, StepKeepsTheWay DEF WayInv
<1> HIDE DEF Step
<1> QED
  BY <1>2 DEF WayInv, VisitedIsTheWay

\* A directory below, which is not on the way already.
LEMMA WayGrows ==
    ASSUME WayInv, copying # <<>>, NEW real, NEW to, NEW rel, ~Seen(real),
           copying' = Append(Step, Walk(real, to, rel)), visited' = visited \cup {real}
    PROVE  WayInv'
<1> DEFINE w == Walk(real, to, rel)
<1>1. PICK S : copying \in Seq(S)
  BY DEF WayInv
<1>2. /\ \E T : Step \in Seq(T)
      /\ DOMAIN Step = DOMAIN copying
      /\ \A k \in DOMAIN copying : IsWalk(Step[k]) /\ Step[k].real = copying[k].real
  BY <1>1, StepKeepsTheWay DEF WayInv
<1>3. PICK T : Step \in Seq(T)
  BY <1>2
<1>4. IsWalk(w) /\ w.real = real
  BY DEF Walk, IsWalk
<1>5. /\ \A k \in DOMAIN copying : copying[k].real # real
      /\ visited = {copying[k].real : k \in DOMAIN copying}
      /\ \A j, k \in DOMAIN copying : copying[j].real = copying[k].real => j = k
      /\ DOMAIN copying = 1..Len(copying) /\ Len(copying) \in Nat
  BY <1>1 DEF WayInv, VisitedIsTheWay, Seen
<1> HIDE DEF Step, w
<1>6. /\ copying' \in Seq(T \cup {w}) /\ Len(Step) = Len(copying)
      /\ DOMAIN copying' = 1..(Len(copying) + 1)
      /\ \A k \in 1..(Len(copying) + 1) :
            copying'[k] = IF k = Len(copying) + 1 THEN w ELSE Step[k]
  BY <1>2, <1>3, <1>5 DEF w
<1>7. \A k \in DOMAIN copying' : IsWalk(copying'[k])
  BY <1>2, <1>4, <1>5, <1>6
<1>8. \A k \in DOMAIN copying' :
         copying'[k].real = IF k = Len(copying) + 1 THEN real ELSE copying[k].real
  BY <1>2, <1>4, <1>5, <1>6
<1>9. \A j, k \in DOMAIN copying' : copying'[j].real = copying'[k].real => j = k
  BY <1>5, <1>6, <1>8
<1>10. visited' = {copying'[k].real : k \in DOMAIN copying'}
  BY <1>5, <1>6, <1>8
<1> QED
  BY <1>6, <1>7, <1>9, <1>10 DEF WayInv, VisitedIsTheWay

\* The directory is done.
LEMMA WayShrinks ==
    ASSUME WayInv, copying # <<>>, copying' = Front(copying), visited' = Unwound(In.real)
    PROVE  WayInv'
<1> DEFINE n == Len(copying)
<1>1. PICK S : copying \in Seq(S)
  BY DEF WayInv
<1>2. n \in Nat \ {0} /\ In = copying[n] /\ DOMAIN copying = 1..n
  BY <1>1 DEF In, Last
<1>3. /\ copying' \in Seq(S) /\ DOMAIN copying' = 1..(n - 1)
      /\ \A k \in 1..(n - 1) : copying'[k] = copying[k]
  BY <1>1, <1>2 DEF Front
<1>4. /\ visited = {copying[k].real : k \in 1..n}
      /\ \A j, k \in 1..n : copying[j].real = copying[k].real => j = k
      /\ \A k \in 1..n : IsWalk(copying[k])
  BY <1>2 DEF WayInv, VisitedIsTheWay
<1>5. visited' = {copying[k].real : k \in 1..(n - 1)}
  BY <1>2, <1>4 DEF Unwound
<1> QED
  BY <1>2, <1>3, <1>4, <1>5 DEF WayInv, VisitedIsTheWay

LEMMA StepWayInv == WayInv /\ [Next]_vars => WayInv'
<1> SUFFICES ASSUME WayInv, [Next]_vars PROVE WayInv'
  OBVIOUS
<1>1. CASE UNCHANGED <<copying, visited>>
  BY <1>1 DEF WayInv, VisitedIsTheWay
<1>2. CASE CopyWalk
  <2> DEFINE w == Walk(Node.from, folder.parent \o FlattenSeq(folder.path) \o Node.name, <<>>)
  <2>1. copying' = <<w>> /\ visited' = {Node.from}
    BY <1>2 DEF CopyWalk
  <2>2. IsWalk(w) /\ w.real = Node.from
    BY DEF Walk, IsWalk
  <2> HIDE DEF w
  <2>3. copying' \in Seq({w}) /\ DOMAIN copying' = {1} /\ copying'[1] = w
    BY <2>1
  <2> QED
    BY <2>1, <2>2, <2>3 DEF WayInv, VisitedIsTheWay
<1>3. CASE CopyIgnore
  BY <1>3, WayStays DEF CopyIgnore, Copying
<1>4. CASE CopyFile
  <2>1. UNCHANGED <<copying, visited>> \/ (copying' = Step /\ UNCHANGED visited)
    BY <1>4, Zenon DEF CopyFile, Fail, buildVars
  <2> QED
    BY <1>1, <1>4, <2>1, WayStays DEF CopyFile, Copying
<1>5. CASE CopyDir
  <2>1. copying # <<>> /\ EnterDir(EntryReal, EntryTo, EntryRel, Step)
    BY <1>5 DEF CopyDir, Copying
  <2>2. \/ UNCHANGED <<copying, visited>>
        \/ copying' = Step /\ UNCHANGED visited
        \/ /\ ~Seen(EntryReal) /\ visited' = visited \cup {EntryReal}
           /\ copying' = Append(Step, Walk(EntryReal, EntryTo, EntryRel))
    BY <2>1, Zenon DEF EnterDir, Fail, buildVars
  <2> QED
    BY <1>1, <2>1, <2>2, WayStays, WayGrows
<1>6. CASE CopyLeave
  BY <1>6, WayShrinks, Zenon DEF CopyLeave, Copying
<1>7. CASE ~(CopyWalk \/ CopyIgnore \/ CopyFile \/ CopyDir \/ CopyLeave)
  <2>1. UNCHANGED <<copying, visited>>
    BY <1>7 DEF Next, BuildStep, buildVars, vars, StartBuild, Descend, NoHook, ProjectBefore,
       ProjectAfter, FolderBefore, FolderAfter, FileBefore, FileAfter, FileFails,
       FragmentAfter, CopyBefore, CopyAfter, CopyFails, InjectBefore, InjectAfter,
       InjectPair, InjectSave, BuildEnd, Fail
  <2> QED
    BY <1>1, <2>1
<1> QED
  BY <1>2, <1>3, <1>4, <1>5, <1>6, <1>7

\* A copy always knows the way it came, each directory on it once, so that it
\* stops at a link back to it and at no other (walkCopyDepth).
THEOREM TheWayIsKnown == GSpec => []VisitedIsTheWay
<1>1. GInit => WayInv
  BY DEF GInit, Init, WayInv, VisitedIsTheWay
<1>2. WayInv /\ [GNext]_allVars => WayInv'
  BY StepWayInv DEF GNext, allVars
<1>3. WayInv => VisitedIsTheWay
  BY DEF WayInv
<1> QED
  BY <1>1, <1>2, <1>3, PTL DEF GSpec

-----------------------------------------------------------------------------
(* No two Files get one path. *)

\* What a node must have for the argument, and what a step that makes no
\* claim leaves of it.
IsNode(n) == {"kind", "full"} \subseteq DOMAIN n

SameFile(m, n) ==
    /\ IsNode(m) /\ m.kind = n.kind
    /\ m.full = n.full \/ m.kind # "file"

SameFiles(s) ==
    /\ \E S : s \in Seq(S)
    /\ DOMAIN s = DOMAIN nodes
    /\ \A i \in DOMAIN nodes : SameFile(s[i], nodes[i])

ClaimInv ==
    /\ \E S : nodes \in Seq(S)
    /\ \A i \in DOMAIN nodes : IsNode(nodes[i])
    /\ \A i \in DOMAIN nodes : IsFile(i) => nodes[i].full \in claims
    /\ OneFilePerPath

LEMMA NewNodeIs ==
    ASSUME NEW kind, NEW c, NEW path, NEW bind
    PROVE  /\ IsNode(NewNode(kind, c, path, bind))
           /\ NewNode(kind, c, path, bind).full = <<>>
BY DEF NewNode, IsNode

\* The fields that the steps set besides those of a claim.
LEMMA FieldSet ==
    ASSUME NEW n, IsNode(n), NEW v
    PROVE  /\ SameFile([n EXCEPT !.kids = v], n)
           /\ SameFile([n EXCEPT !.filter = v], n)
           /\ SameFile([n EXCEPT !.only = v], n)
           /\ SameFile([n EXCEPT !.dflt = v], n)
           /\ SameFile([n EXCEPT !.slots = v], n)
           /\ SameFile([n EXCEPT !.other = v], n)
           /\ SameFile([n EXCEPT !.text = v], n)
           /\ SameFile([n EXCEPT !.prev = v], n)
           /\ SameFile([n EXCEPT !.after = v], n)
BY DEF IsNode, SameFile

LEMMA FullSet ==
    ASSUME NEW n, IsNode(n), NEW v
    PROVE  LET m == [n EXCEPT !.full = v] IN IsNode(m) /\ m.kind = n.kind /\ m.full = v
BY DEF IsNode

LEMMA SameFileTwice ==
    ASSUME NEW l, NEW m, NEW n, SameFile(l, m), SameFile(m, n)
    PROVE  SameFile(l, n)
BY DEF SameFile

LEMMA ThemselvesAreSame == ClaimInv => SameFiles(nodes)
BY DEF ClaimInv, SameFiles, SameFile

LEMMA SetKeepsFiles ==
    ASSUME NEW s, SameFiles(s), NEW i, NEW m, i \in DOMAIN s => SameFile(m, s[i])
    PROVE  SameFiles([s EXCEPT ![i] = m])
<1>1. PICK S : s \in Seq(S)
  BY DEF SameFiles
<1>2. [s EXCEPT ![i] = m] \in Seq(S \cup {m}) /\ DOMAIN [s EXCEPT ![i] = m] = DOMAIN s
  <2>1. CASE i \in 1..Len(s)
    BY <1>1, <2>1, ExceptSeq, s \in Seq(S \cup {m}), m \in S \cup {m}
  <2>2. CASE i \notin DOMAIN s
    <3>1. s = [x \in DOMAIN s |-> s[x]]
      BY <1>1
    <3>2. [s EXCEPT ![i] = m] = s
      BY <2>2, <3>1, Zenon
    <3> QED
      BY <1>1, <3>2, s \in Seq(S \cup {m})
  <2> QED
    BY <1>1, <2>1, <2>2
<1>3. ASSUME NEW j \in DOMAIN s PROVE SameFile([s EXCEPT ![i] = m][j], nodes[j])
  <2>1. CASE j = i
    <3>1. [s EXCEPT ![i] = m][j] = m
      BY <1>1, <2>1
    <3> QED
      BY <2>1, <3>1, SameFileTwice DEF SameFiles
  <2>2. CASE j # i
    <3>1. [s EXCEPT ![i] = m][j] = s[j]
      BY <1>1, <2>2
    <3> QED
      BY <2>2, <3>1 DEF SameFiles
  <2> QED
    BY <2>1, <2>2
<1> DEFINE t == [s EXCEPT ![i] = m]
<1> HIDE DEF t
<1> SUFFICES SameFiles(t)
  BY DEF t
<1> QED
  BY <1>2, <1>3 DEF SameFiles, t

LEMMA SameFilesClaim ==
    ASSUME ClaimInv, SameFiles(nodes'), claims \subseteq claims'
    PROVE  ClaimInv'
BY DEF ClaimInv, SameFiles, SameFile, OneFilePerPath, IsFile

LEMMA AttachClaims ==
    ASSUME ClaimInv, NEW s, SameFiles(s), NEW n, IsNode(n), n.full = <<>> \/ n.kind # "file",
           nodes' = Append(s, n), claims' = claims
    PROVE  ClaimInv'
<1>1. PICK S : s \in Seq(S)
  BY DEF SameFiles
<1>2. /\ nodes' \in Seq(S \cup {n}) /\ DOMAIN nodes' = DOMAIN s \cup {Len(s) + 1}
      /\ \A i \in DOMAIN nodes' : nodes'[i] = IF i = Len(s) + 1 THEN n ELSE s[i]
  BY <1>1
<1>3. ASSUME NEW i \in DOMAIN nodes', IsFile(i)'
      PROVE  i \in DOMAIN nodes /\ IsFile(i) /\ nodes'[i].full = nodes[i].full
  BY <1>2, <1>3 DEF SameFiles, SameFile, IsFile
<1>4. \A i \in DOMAIN nodes' : IsNode(nodes'[i])
  BY <1>2 DEF SameFiles, SameFile
<1>5. \A i \in DOMAIN nodes' : IsFile(i)' => nodes'[i].full \in claims'
  BY <1>3 DEF ClaimInv
<1>6. OneFilePerPath'
  BY <1>3 DEF ClaimInv, OneFilePerPath
<1> QED
  BY <1>2, <1>4, <1>5, <1>6 DEF ClaimInv

\* Any field of a node but those of a claim may be set.
LEMMA ChangedClaims ==
    ASSUME ClaimInv, NEW i, NEW m, i \in DOMAIN nodes => SameFile(m, nodes[i]),
           nodes' = [nodes EXCEPT ![i] = m], claims \subseteq claims'
    PROVE  ClaimInv'
BY ThemselvesAreSame, SetKeepsFiles, SameFilesClaim

\* A new child of the top of the stack.
LEMMA AttachedClaims ==
    ASSUME ClaimInv, NEW n, IsNode(n), n.full = <<>>, nodes' = Attached(n), claims' = claims
    PROVE  ClaimInv'
<1> DEFINE i == Top.at
           m == [nodes[i] EXCEPT !.kids = Append(@, Len(nodes) + 1)]
           s == [nodes EXCEPT ![i] = m]
<1>1. i \in DOMAIN nodes => SameFile(m, nodes[i])
  BY FieldSet DEF ClaimInv
<1>2. SameFiles(s)
  <2> HIDE DEF m
  <2> QED
    BY <1>1, ThemselvesAreSame, SetKeepsFiles
<1>3. nodes' = Append(s, n)
  BY Zenon DEF Attached
<1> HIDE DEF s
<1> QED
  BY <1>2, <1>3, AttachClaims

LEMMA SkipClaims ==
    ASSUME ClaimInv, NEW kind, NEW name, Skip(kind, name), claims' = claims
    PROVE  ClaimInv'
<1> DEFINE i == Top.at
           m == Noted(nodes[i], kind, name)
<1>1. i \in DOMAIN nodes => SameFile(m, nodes[i])
  <2>1. nodes[i] = m \/ m = [nodes[i] EXCEPT !.slots = @ \cup {name}] \/ m = [nodes[i] EXCEPT !.other = TRUE]
    BY Zenon DEF Noted
  <2> HIDE DEF m
  <2>2. i \in DOMAIN nodes => IsNode(nodes[i]) /\ SameFile(nodes[i], nodes[i])
    BY DEF ClaimInv, SameFile
  <2> QED
    BY <2>1, <2>2, FieldSet
<1>2. nodes' = [nodes EXCEPT ![i] = m]
  BY Zenon DEF Skip
<1> HIDE DEF m
<1> QED
  BY <1>1, <1>2, ChangedClaims

LEMMA DefineClaims == ClaimInv /\ DefineStep /\ claims' = claims => ClaimInv'
<1> SUFFICES ASSUME ClaimInv, DefineStep, claims' = claims PROVE ClaimInv'
  OBVIOUS
<1>1. CASE nodes' = nodes
  BY <1>1 DEF ClaimInv, OneFilePerPath, IsFile
<1>2. ASSUME NEW kind, NEW c, NEW path, NEW bind, NEW text, NEW filter,
             LET n == NewNode(kind, c, path, bind)
             IN  \/ nodes' = Attached(n)
                 \/ nodes' = Attached([n EXCEPT !.text = text])
                 \/ nodes' = Attached([n EXCEPT !.filter = filter])
      PROVE  ClaimInv'
  <2> DEFINE n == NewNode(kind, c, path, bind)
             withText == [n EXCEPT !.text = text]
             withFilter == [n EXCEPT !.filter = filter]
  <2>1. /\ IsNode(n) /\ n.full = <<>>
        /\ IsNode(withText) /\ withText.full = <<>>
        /\ IsNode(withFilter) /\ withFilter.full = <<>>
    BY DEF NewNode, IsNode
  <2>2. nodes' = Attached(n) \/ nodes' = Attached(withText) \/ nodes' = Attached(withFilter)
    BY <1>2
  <2> HIDE DEF n, withText, withFilter
  <2> QED
    BY <2>1, <2>2, AttachedClaims
<1>3. CASE ReadTree \/ RenderEnd
  BY <1>1, <1>3 DEF ReadTree, RenderEnd, Refuse
<1>4. CASE Nest
  <2>1. \/ nodes' = nodes
        \/ \E kind, name : Skip(kind, name)
        \/ \E kind, c, path, bind : nodes' = Attached(NewNode(kind, c, path, bind))
    BY <1>4, Zenon DEF Nest, Refuse
  <2> QED
    BY <1>1, <1>2, <2>1, SkipClaims
<1>5. CASE Content
  <2>1. \/ \E kind, name : Skip(kind, name)
        \/ \E kind, c, path, bind, text :
              nodes' = Attached([NewNode(kind, c, path, bind) EXCEPT !.text = text])
    BY <1>5, Zenon DEF Content
  <2> QED
    BY <1>2, <2>1, SkipClaims
<1>6. CASE CopyFiles
  <2>1. \/ nodes' = nodes
        \/ \E kind, name : Skip(kind, name)
        \/ \E kind, c, path, bind : nodes' = Attached(NewNode(kind, c, path, bind))
    BY <1>6, Zenon DEF CopyFiles, Refuse
  <2> QED
    BY <1>1, <1>2, <2>1, SkipClaims
<1>7. CASE ListItems
  <2>1. \/ \E kind, name : Skip(kind, name)
        \/ \E kind, c, path, bind : nodes' = Attached(NewNode(kind, c, path, bind))
    BY <1>7, Zenon DEF ListItems
  <2> QED
    BY <1>2, <2>1, SkipClaims
<1>8. CASE NextItem
  <2>1. \/ nodes' = nodes
        \/ \E kind, c, path, bind, text :
              nodes' = Attached([NewNode(kind, c, path, bind) EXCEPT !.text = text])
    BY <1>8, Zenon DEF NextItem
  <2> QED
    BY <1>1, <1>2, <2>1
<1>9. CASE Fragment
  <2>1. \/ nodes' = nodes
        \/ \E kind, name : Skip(kind, name)
        \/ \E kind, c, path, bind, filter :
              nodes' = Attached([NewNode(kind, c, path, bind) EXCEPT !.filter = filter])
    BY <1>9, Zenon DEF Fragment, Refuse
  <2> QED
    BY <1>1, <1>2, <2>1, SkipClaims
<1>10. CASE RenderToken
  <2>1. ASSUME NEW filter, NEW only, Replay(filter, only) PROVE ClaimInv'
    <3> DEFINE i == Top.at
               l == [nodes[i] EXCEPT !.filter = filter]
               m == [l EXCEPT !.only = only]
               dflt == m.dflt \/ filter = "unnamed"
               n == [m EXCEPT !.dflt = dflt]
    <3>1. ASSUME i \in DOMAIN nodes PROVE SameFile(n, nodes[i])
      <4>1. IsNode(nodes[i])
        BY <3>1 DEF ClaimInv
      <4>2. SameFile(l, nodes[i])
        BY <4>1, FieldSet
      <4> HIDE DEF l
      <4>3. SameFile(m, l)
        BY <4>2, FieldSet DEF SameFile
      <4> HIDE DEF m, dflt
      <4>4. SameFile(n, m)
        BY <4>3, FieldSet DEF SameFile
      <4> QED
        BY <4>2, <4>3, <4>4, SameFileTwice
    <3>2. nodes' = [nodes EXCEPT ![i].filter = filter, ![i].only = only,
                                 ![i].dflt = @ \/ filter = "unnamed"]
      BY <2>1, Zenon DEF Replay
    <3>3. nodes' = [nodes EXCEPT ![i] = n]
      BY <3>2
    <3> HIDE DEF n
    <3> QED
      BY <3>1, <3>3, ChangedClaims
  <2>2. \/ nodes' = nodes
        \/ \E filter, only : Replay(filter, only)
        \/ \E kind, c, path, bind, text :
              nodes' = Attached([NewNode(kind, c, path, bind) EXCEPT !.text = text])
    BY <1>10, Zenon DEF RenderToken
  <2> QED
    BY <1>1, <1>2, <2>1, <2>2
<1>11. CASE Return
  <2> DEFINE i == Top.at
             m == Unfiltered(nodes[i])
  <2>1. i \in DOMAIN nodes => SameFile(m, nodes[i])
    BY FieldSet DEF ClaimInv, Unfiltered
  <2>2. nodes' = nodes \/ nodes' = [nodes EXCEPT ![i] = m]
    BY <1>11, Zenon DEF Return
  <2> HIDE DEF m
  <2> QED
    BY <1>1, <2>1, <2>2, ChangedClaims
<1> QED
  BY <1>3, <1>4, <1>5, <1>6, <1>7, <1>8, <1>9, <1>10, <1>11 DEF DefineStep

LEMMA StepClaimInv == ClaimInv /\ [Next]_vars => ClaimInv'
<1> SUFFICES ASSUME ClaimInv, [Next]_vars PROVE ClaimInv'
  OBVIOUS
<1>1. CASE UNCHANGED <<nodes, claims>>
  BY <1>1 DEF ClaimInv, OneFilePerPath, IsFile
<1>2. CASE DefineStep /\ UNCHANGED buildVars
  BY <1>2, DefineClaims DEF buildVars
<1> DEFINE i == Here.n
<1>3. i \in DOMAIN nodes => IsNode(nodes[i])
  BY DEF ClaimInv
<1>4. CASE ProjectBefore
  <2> DEFINE m == [nodes[i] EXCEPT !.prev = folder]
  <2>1. i \in DOMAIN nodes => SameFile(m, nodes[i])
    BY <1>3, FieldSet
  <2>2. nodes' = [nodes EXCEPT ![i].prev = folder] /\ claims' = claims
    BY <1>4, Zenon DEF ProjectBefore
  <2>3. nodes' = [nodes EXCEPT ![i] = m]
    BY <2>2
  <2> HIDE DEF m
  <2> QED
    BY <2>1, <2>2, <2>3, ChangedClaims
<1>5. CASE FragmentAfter
  <2> DEFINE text == IndentIf(Node, CollectInPlace(Here.n))
             m == [nodes[i] EXCEPT !.text = text]
  <2> HIDE DEF text
  <2>1. i \in DOMAIN nodes => SameFile(m, nodes[i])
    BY <1>3, FieldSet
  <2>2. nodes' = [nodes EXCEPT ![i].text = text] /\ claims' = claims
    BY <1>5, Zenon DEF FragmentAfter, text
  <2>3. nodes' = [nodes EXCEPT ![i] = m]
    BY <2>2
  <2> HIDE DEF m
  <2> QED
    BY <2>1, <2>2, <2>3, ChangedClaims
<1>6. CASE InjectBefore
  <2> DEFINE path == PathTo(Node.name)
             m == [nodes[i] EXCEPT !.full = path]
  <2> HIDE DEF path
  <2>1. nodes[i].kind = "inject"
    BY <1>6 DEF InjectBefore, Before, Node
  <2>2. i \in DOMAIN nodes => SameFile(m, nodes[i])
    BY <1>3, <2>1, FullSet DEF SameFile
  <2>3. claims' = claims /\ (nodes' = nodes \/ nodes' = [nodes EXCEPT ![i].full = path])
    BY <1>6, Zenon DEF InjectBefore, Fail, buildVars, path
  <2>4. nodes' = nodes \/ nodes' = [nodes EXCEPT ![i] = m]
    BY <2>3
  <2> HIDE DEF m
  <2> QED
    BY <1>1, <2>2, <2>3, <2>4, ChangedClaims
<1>7. CASE CopyBefore
  <2> DEFINE a == [nodes[i] EXCEPT !.after = "walk"]
             b == [nodes[i] EXCEPT !.after = "excluded"]
             c == [[[nodes[i] EXCEPT !.after = "file"] EXCEPT !.full = PathTo(CopyName(Node))]
                      EXCEPT !.text = Copied(Source(Node), Node.item)]
  <2>1. nodes[i].kind = "copy"
    BY <1>7 DEF CopyBefore, Before, Node
  <2>2. claims' = claims
        /\ \E m \in {a, b, c} : nodes' = nodes \/ nodes' = [nodes EXCEPT ![i] = m]
    BY <1>7 DEF CopyBefore, Fail, buildVars
  <2>3. ASSUME i \in DOMAIN nodes PROVE SameFile(a, nodes[i]) /\ SameFile(b, nodes[i])
    BY <1>3, <2>3, FieldSet
  <2>4. ASSUME i \in DOMAIN nodes PROVE SameFile(c, nodes[i])
    <3> DEFINE d == [nodes[i] EXCEPT !.after = "file"]
               path == PathTo(CopyName(Node))
               e == [d EXCEPT !.full = path]
               text == Copied(Source(Node), Node.item)
               f == [e EXCEPT !.text = text]
    <3> HIDE DEF path, text
    <3>1. SameFile(d, nodes[i])
      BY <1>3, <2>4, FieldSet
    <3> HIDE DEF d
    <3>2. SameFile(e, d)
      BY <2>1, <3>1, FullSet DEF SameFile
    <3> HIDE DEF e
    <3>3. SameFile(f, e)
      BY <3>2, FieldSet DEF SameFile
    <3> QED
      BY <3>1, <3>2, <3>3, SameFileTwice DEF d, e, path, text
  <2> HIDE DEF a, b, c
  <2> QED
    BY <1>1, <2>2, <2>3, <2>4, ChangedClaims
<1>8. CASE FileBefore
  <2> DEFINE path == PathTo(Node.name)
             m == [nodes[i] EXCEPT !.full = path]
  <2> HIDE DEF path
  <2>1. \/ UNCHANGED <<nodes, claims>>
        \/ /\ path \notin claims /\ claims' = claims \cup {path}
           /\ nodes' = [nodes EXCEPT ![i].full = path]
    BY <1>8, Zenon DEF FileBefore, Fail, buildVars, path, Taken
  <2>2. CASE /\ path \notin claims /\ claims' = claims \cup {path}
             /\ nodes' = [nodes EXCEPT ![i].full = path]
    <3>1. nodes' = [nodes EXCEPT ![i] = m]
      BY <2>2
    <3>2. PICK S : nodes \in Seq(S)
      BY DEF ClaimInv
    <3>3. CASE i \notin DOMAIN nodes
      BY <2>2, <3>1, <3>3, ChangedClaims
    <3>4. CASE i \in DOMAIN nodes
      <4>1. IsNode(m) /\ m.full = path
        BY <1>3, <3>4, FullSet
      <4> HIDE DEF m
      <4>2. nodes' \in Seq(S \cup {m}) /\ DOMAIN nodes' = DOMAIN nodes
        <5>1. nodes \in Seq(S \cup {m})
          BY <3>2
        <5> QED
          BY <3>1, <3>4, <5>1, ExceptSeq
      <4>3. \A j \in DOMAIN nodes : nodes'[j] = IF j = i THEN m ELSE nodes[j]
        BY <3>1, <3>2
      <4> QED
        BY <2>2, <4>1, <4>2, <4>3 DEF ClaimInv, OneFilePerPath, IsFile
    <3> QED
      BY <3>3, <3>4
  <2> QED
    BY <1>1, <2>1, <2>2
<1>9. CASE BuildStep /\ ~(ProjectBefore \/ FragmentAfter \/ InjectBefore \/ CopyBefore
                         \/ FileBefore)
  <2>1. UNCHANGED <<nodes, claims>>
    BY <1>9 DEF BuildStep, buildVars, StartBuild, Descend, NoHook, ProjectAfter,
       FolderBefore, FolderAfter, FileAfter, FileFails, CopyAfter, CopyFails, CopyWalk,
       CopyIgnore, CopyDir, EnterDir, CopyFile, CopyLeave, InjectAfter, InjectPair,
       InjectSave, BuildEnd, Fail
  <2> QED
    BY <1>1, <2>1
<1>10. CASE UNCHANGED vars
  BY <1>1, <1>10 DEF vars, buildVars
<1> QED
  BY <1>2, <1>4, <1>5, <1>6, <1>7, <1>8, <1>9, <1>10 DEF Next

\* Two Files of a run never get one output path, whatever the tree: the second
\* would win and the output of the first be missing without a word (claimFile).
THEOREM EveryFileItsPath == GSpec => []OneFilePerPath
<1>1. GInit => ClaimInv
  <2> SUFFICES ASSUME GInit PROVE ClaimInv
    OBVIOUS
  <2>1. nodes = <<RootNode>>
    BY DEF GInit, Init, DefineInit
  <2>2. IsNode(RootNode) /\ RootNode.full = <<>>
    BY NewNodeIs DEF RootNode
  <2> HIDE DEF RootNode
  <2>3. nodes \in Seq({RootNode}) /\ DOMAIN nodes = {1} /\ nodes[1] = RootNode
    BY <2>1
  <2> QED
    BY <2>2, <2>3 DEF ClaimInv, OneFilePerPath, IsFile
<1>2. ClaimInv /\ [GNext]_allVars => ClaimInv'
  BY StepClaimInv DEF GNext, allVars
<1>3. ClaimInv => OneFilePerPath
  BY DEF ClaimInv
<1> QED
  BY <1>1, <1>2, <1>3, PTL DEF GSpec

-----------------------------------------------------------------------------
(* The passes of a Fragment. *)

\* What a frame and a node must have for the argument.
IsFrame(f) == {"at", "why"} \subseteq DOMAIN f

IsSeq(s) == \E S : s \in Seq(S)

IsTreeNode(n) == {"kids", "filter"} \subseteq DOMAIN n /\ IsSeq(n.kids)

IsPass(f) == f.why \in {"scan", "replay"}

\* Of a stack s over nodes n: a pass runs right above the template of its
\* Fragment, no two templates are of one Fragment, a node filters exactly
\* while a pass over it runs, and a scan is the last frame, at the last node.
PassInv(s, n) ==
    /\ IsSeq(s) /\ IsSeq(n)
    /\ \A k \in 1..Len(s) : IsFrame(s[k]) /\ s[k].at \in 1..Len(n)
    /\ \A i \in 1..Len(n) : IsTreeNode(n[i])
    /\ \A k \in 1..Len(s) : IsPass(s[k]) =>
          k > 1 /\ s[k - 1].why = "template" /\ s[k - 1].at = s[k].at
    /\ \A j, k \in 1..Len(s) :
          s[j].why = "template" /\ s[k].why = "template" /\ s[j].at = s[k].at => j = k
    /\ \A i \in 1..Len(n) :
          n[i].filter # Nothing <=> \E k \in 1..Len(s) : IsPass(s[k]) /\ s[k].at = i
    /\ \A k \in 1..Len(s) : s[k].why = "scan" =>
          k = Len(s) /\ s[k].at = Len(n) /\ n[Len(n)].filter = "scan"

Unscanned(s) == \A k \in 1..Len(s) : s[k].why # "scan"

LEMMA SameStack ==
    ASSUME NEW s, NEW n, PassInv(s, n), NEW t, IsSeq(t), Len(t) = Len(s),
           \A k \in 1..Len(s) : IsFrame(t[k]) /\ t[k].at = s[k].at /\ t[k].why = s[k].why
    PROVE  PassInv(t, n)
<1>1. Len(s) \in Nat /\ Len(n) \in Nat
  BY DEF PassInv, IsSeq
<1>2. \A k \in 1..Len(s) : (IsPass(t[k]) <=> IsPass(s[k])) /\ t[k].at = s[k].at
  BY DEF IsPass
<1>3. \A k \in 1..Len(t) : IsPass(t[k]) =>
          k > 1 /\ t[k - 1].why = "template" /\ t[k - 1].at = t[k].at
  <2> SUFFICES ASSUME NEW k \in 1..Len(t), IsPass(t[k])
               PROVE  k > 1 /\ t[k - 1].why = "template" /\ t[k - 1].at = t[k].at
    OBVIOUS
  <2>1. k \in 1..Len(s) /\ k > 1 /\ s[k - 1].why = "template" /\ s[k - 1].at = s[k].at
    BY <1>2 DEF PassInv
  <2>2. k - 1 \in 1..Len(s)
    BY <1>1, <2>1
  <2> QED
    BY <2>1, <2>2
<1>4. \A i : (\E k \in 1..Len(t) : IsPass(t[k]) /\ t[k].at = i)
              <=> \E k \in 1..Len(s) : IsPass(s[k]) /\ s[k].at = i
  BY <1>2
<1>5. \A j, k \in 1..Len(t) :
          t[j].why = "template" /\ t[k].why = "template" /\ t[j].at = t[k].at => j = k
  BY DEF PassInv
<1>6. \A k \in 1..Len(t) : t[k].why = "scan" =>
          k = Len(t) /\ t[k].at = Len(n) /\ n[Len(n)].filter = "scan"
  BY DEF PassInv
<1>7. \A k \in 1..Len(t) : IsFrame(t[k]) /\ t[k].at \in 1..Len(n)
  BY DEF PassInv
<1> QED
  BY <1>3, <1>4, <1>5, <1>6, <1>7 DEF PassInv

LEMMA SameNodes ==
    ASSUME NEW s, NEW n, PassInv(s, n), NEW m, IsSeq(m), Len(m) = Len(n),
           \A i \in 1..Len(n) : IsTreeNode(m[i]) /\ m[i].filter = n[i].filter
    PROVE  PassInv(s, m)
<1>1. Len(s) \in Nat /\ Len(n) \in Nat
  BY DEF PassInv, IsSeq
<1>2. \A k \in 1..Len(s) : s[k].why = "scan" => n[Len(n)].filter = m[Len(n)].filter
  BY <1>1 DEF PassInv
<1> QED
  BY <1>1, <1>2 DEF PassInv, IsPass

LEMMA TopNoScan ==
    ASSUME NEW s, NEW n, PassInv(s, n), Len(s) > 0 => s[Len(s)].why # "scan"
    PROVE  Unscanned(s)
<1>1. Len(s) \in Nat
  BY DEF PassInv, IsSeq
<1> QED
  BY <1>1 DEF PassInv, Unscanned

LEMMA NodeGrows ==
    ASSUME NEW s, NEW n, PassInv(s, n), Unscanned(s), NEW x, IsTreeNode(x), x.filter = Nothing
    PROVE  PassInv(s, Append(n, x))
<1>1. PICK S : n \in Seq(S)
  BY DEF PassInv, IsSeq
<1> DEFINE m == Append(n, x)
<1>2. /\ m \in Seq(S \cup {x}) /\ Len(m) = Len(n) + 1 /\ Len(n) \in Nat /\ Len(s) \in Nat
      /\ \A i \in 1..Len(n) : m[i] = n[i]
      /\ m[Len(n) + 1] = x
  BY <1>1 DEF PassInv, IsSeq
<1> HIDE DEF m
<1> SUFFICES PassInv(s, m)
  BY DEF m
<1>3. IsSeq(m)
  BY <1>2 DEF IsSeq
<1>4. \A i \in 1..Len(m) :
          m[i].filter # Nothing <=> \E k \in 1..Len(s) : IsPass(s[k]) /\ s[k].at = i
  <2> SUFFICES ASSUME NEW i \in 1..Len(m)
               PROVE  m[i].filter # Nothing <=> \E k \in 1..Len(s) : IsPass(s[k]) /\ s[k].at = i
    OBVIOUS
  <2>1. CASE i = Len(n) + 1
    BY <1>2, <2>1 DEF PassInv
  <2>2. CASE i \in 1..Len(n)
    BY <1>2, <2>2 DEF PassInv
  <2> QED
    BY <1>2, <2>1, <2>2
<1> QED
  BY <1>2, <1>3, <1>4 DEF PassInv, Unscanned

LEMMA BodyPushed ==
    ASSUME NEW s, NEW n, PassInv(s, n), Unscanned(s),
           NEW f, IsFrame(f), f.why \in {"body", "items"}, f.at \in 1..Len(n)
    PROVE  PassInv(Append(s, f), n)
<1>1. PICK S : s \in Seq(S)
  BY DEF PassInv, IsSeq
<1> DEFINE t == Append(s, f)
<1>2. /\ t \in Seq(S \cup {f}) /\ Len(t) = Len(s) + 1 /\ Len(n) \in Nat /\ Len(s) \in Nat
      /\ \A i \in 1..Len(s) : t[i] = s[i]
      /\ t[Len(s) + 1] = f
  BY <1>1 DEF PassInv, IsSeq
<1> HIDE DEF t
<1> SUFFICES PassInv(t, n)
  BY DEF t
<1>3. IsSeq(t)
  BY <1>2 DEF IsSeq
<1>4. \A k \in 1..Len(t) : (k \in 1..Len(s) /\ t[k] = s[k]) \/ (k = Len(s) + 1 /\ t[k] = f)
  BY <1>2
<1>5. \A k \in 1..Len(t) : IsPass(t[k]) => k \in 1..Len(s) /\ t[k] = s[k] /\ t[k-1] = s[k - 1]
  BY <1>2, <1>4 DEF IsPass, PassInv
<1>6. \A i : (\E k \in 1..Len(t) : IsPass(t[k]) /\ t[k].at = i)
              <=> \E k \in 1..Len(s) : IsPass(s[k]) /\ s[k].at = i
  BY <1>2, <1>5
<1>7. \A j, k \in 1..Len(t) :
          t[j].why = "template" /\ t[k].why = "template" /\ t[j].at = t[k].at => j = k
  BY <1>4 DEF PassInv
<1>8. \A k \in 1..Len(t) : t[k].why # "scan"
  BY <1>4 DEF Unscanned
<1>9. \A k \in 1..Len(t) : IsFrame(t[k]) /\ t[k].at \in 1..Len(n)
  BY <1>4 DEF PassInv
<1>10. \A k \in 1..Len(t) : IsPass(t[k]) =>
          k > 1 /\ t[k - 1].why = "template" /\ t[k - 1].at = t[k].at
  BY <1>5 DEF PassInv
<1> QED
  BY <1>3, <1>6, <1>7, <1>8, <1>9, <1>10 DEF PassInv

\* Any frame but a pass ends.
LEMMA BodyPopped ==
    ASSUME NEW s, NEW n, PassInv(s, n), Len(s) > 0, ~IsPass(s[Len(s)]),
           NEW t, IsSeq(t), Len(t) = Len(s) - 1, \A k \in 1..(Len(s) - 1) : t[k] = s[k]
    PROVE  PassInv(t, n)
<1>1. Len(s) \in Nat /\ Len(n) \in Nat
  BY DEF PassInv, IsSeq
<1>2. \A i : (\E k \in 1..Len(t) : IsPass(t[k]) /\ t[k].at = i)
              <=> \E k \in 1..Len(s) : IsPass(s[k]) /\ s[k].at = i
  BY <1>1
<1>3. \A k \in 1..Len(t) : t[k].why # "scan"
  BY <1>1 DEF PassInv
<1>4. \A k \in 1..Len(t) : IsPass(t[k]) =>
          k > 1 /\ t[k - 1].why = "template" /\ t[k - 1].at = t[k].at
  BY <1>1 DEF PassInv
<1>5. \A j, k \in 1..Len(t) :
          t[j].why = "template" /\ t[k].why = "template" /\ t[j].at = t[k].at => j = k
  BY <1>1 DEF PassInv
<1>6. \A k \in 1..Len(t) : IsFrame(t[k]) /\ t[k].at \in 1..Len(n)
  BY <1>1 DEF PassInv
<1> QED
  BY <1>2, <1>3, <1>4, <1>5, <1>6 DEF PassInv

\* A pass ends, and its node filters no more.
LEMMA PassPopped ==
    ASSUME NEW s, NEW n, PassInv(s, n), Len(s) > 0, IsPass(s[Len(s)]),
           NEW t, IsSeq(t), Len(t) = Len(s) - 1, \A k \in 1..(Len(s) - 1) : t[k] = s[k],
           NEW m, IsSeq(m), Len(m) = Len(n),
           \A i \in 1..Len(n) : /\ IsTreeNode(m[i])
                                /\ m[i].filter = IF i = s[Len(s)].at THEN Nothing ELSE n[i].filter
    PROVE  PassInv(t, m)
<1> DEFINE top == Len(s)
<1>1. top \in Nat \ {0} /\ Len(n) \in Nat /\ Len(t) = top - 1 /\ top \in 1..top
  BY DEF PassInv, IsSeq
<1>0. \A k \in 1..Len(t) : k \in 1..top /\ t[k] = s[k]
  BY <1>1
<1>2. ASSUME NEW k \in 1..Len(t), IsPass(t[k]) PROVE t[k].at # s[top].at
  <2>1. k \in 1..top /\ k # top /\ t[k] = s[k] /\ k - 1 \in Int
    BY <1>1
  <2>2. k > 1 /\ s[k - 1].why = "template" /\ s[k - 1].at = s[k].at
    BY <1>2, <2>1 DEF PassInv
  <2>3. top > 1 /\ s[top - 1].why = "template" /\ s[top - 1].at = s[top].at
    BY <1>1 DEF PassInv
  <2>4. k - 1 \in 1..top /\ top - 1 \in 1..top /\ k - 1 # top - 1
    BY <1>1, <2>1, <2>2, <2>3
  <2>5. s[k - 1].at # s[top - 1].at
    BY <2>2, <2>3, <2>4 DEF PassInv
  <2> QED
    BY <2>1, <2>2, <2>3, <2>5
<1>3. ASSUME NEW i \in 1..Len(n), i # s[top].at
      PROVE  (\E k \in 1..Len(t) : IsPass(t[k]) /\ t[k].at = i)
              <=> \E k \in 1..top : IsPass(s[k]) /\ s[k].at = i
  <2>1. \A k \in 1..Len(t) : k \in 1..top /\ t[k] = s[k]
    BY <1>1
  <2>2. \A k \in 1..top : s[k].at = i => k \in 1..Len(t)
    BY <1>1, <1>3
  <2> QED
    BY <2>1, <2>2
<1>4. \A i \in 1..Len(n) :
          m[i].filter # Nothing <=> \E k \in 1..Len(t) : IsPass(t[k]) /\ t[k].at = i
  BY <1>2, <1>3 DEF PassInv
<1>5. \A k \in 1..Len(t) : t[k].why # "scan"
  BY <1>1 DEF PassInv
<1>6. \A k \in 1..Len(t) : IsPass(t[k]) =>
          k > 1 /\ t[k - 1].why = "template" /\ t[k - 1].at = t[k].at
  BY <1>1 DEF PassInv
<1>7. \A j, k \in 1..Len(t) :
          t[j].why = "template" /\ t[k].why = "template" /\ t[j].at = t[k].at => j = k
  <2> SUFFICES ASSUME NEW j \in 1..Len(t), NEW k \in 1..Len(t), t[j].why = "template",
                      t[k].why = "template", t[j].at = t[k].at
               PROVE  j = k
    OBVIOUS
  <2>1. j \in 1..top /\ k \in 1..top /\ t[j] = s[j] /\ t[k] = s[k]
    BY <1>0
  <2> QED
    BY <2>1 DEF PassInv
<1>8. \A k \in 1..Len(t) : IsFrame(t[k]) /\ t[k].at \in 1..Len(m)
  BY <1>1 DEF PassInv
<1> QED
  BY <1>4, <1>5, <1>6, <1>7, <1>8 DEF PassInv

\* A marker of the template replays the body of its Fragment.
LEMMA PassPushed ==
    ASSUME NEW s, NEW n, PassInv(s, n), Len(s) > 0, s[Len(s)].why = "template",
           NEW f, IsFrame(f), f.why = "replay", f.at = s[Len(s)].at,
           NEW m, IsSeq(m), Len(m) = Len(n),
           \A i \in 1..Len(n) : /\ IsTreeNode(m[i])
                                /\ m[i].filter = n[i].filter \/ i = f.at,
           m[f.at].filter # Nothing
    PROVE  PassInv(Append(s, f), m)
<1>1. PICK S : s \in Seq(S)
  BY DEF PassInv, IsSeq
<1> DEFINE t == Append(s, f)
<1>2. /\ t \in Seq(S \cup {f}) /\ Len(t) = Len(s) + 1 /\ Len(n) \in Nat /\ Len(s) \in Nat
      /\ \A i \in 1..Len(s) : t[i] = s[i]
      /\ t[Len(s) + 1] = f
  BY <1>1 DEF PassInv, IsSeq
<1> HIDE DEF t
<1> SUFFICES PassInv(t, m)
  BY DEF t
<1>3. IsSeq(t)
  BY <1>2 DEF IsSeq
<1>4. \A k \in 1..Len(t) : (k \in 1..Len(s) /\ t[k] = s[k]) \/ (k = Len(s) + 1 /\ t[k] = f)
  BY <1>2
<1>5. \A i \in 1..Len(n) : (\E k \in 1..Len(t) : IsPass(t[k]) /\ t[k].at = i)
              <=> (i = f.at \/ \E k \in 1..Len(s) : IsPass(s[k]) /\ s[k].at = i)
  <2>1. IsPass(f)
    BY DEF IsPass
  <2> QED
    BY <1>2, <1>4, <2>1
<1>6. \A i \in 1..Len(m) :
          m[i].filter # Nothing <=> \E k \in 1..Len(t) : IsPass(t[k]) /\ t[k].at = i
  BY <1>5 DEF PassInv
<1>7. \A j, k \in 1..Len(t) :
          t[j].why = "template" /\ t[k].why = "template" /\ t[j].at = t[k].at => j = k
  BY <1>4 DEF PassInv
<1>8. \A k \in 1..Len(t) : t[k].why # "scan"
  BY <1>2, <1>4 DEF PassInv
<1>9. \A k \in 1..Len(t) : IsFrame(t[k]) /\ t[k].at \in 1..Len(m)
  BY <1>2, <1>4 DEF PassInv
<1>10. \A k \in 1..Len(t) : IsPass(t[k]) =>
          k > 1 /\ t[k - 1].why = "template" /\ t[k - 1].at = t[k].at
  <2> SUFFICES ASSUME NEW k \in 1..Len(t), IsPass(t[k])
               PROVE  k > 1 /\ t[k - 1].why = "template" /\ t[k - 1].at = t[k].at
    OBVIOUS
  <2>1. CASE k = Len(s) + 1
    BY <1>2, <2>1
  <2>2. CASE k \in 1..Len(s)
    BY <1>2, <2>2 DEF PassInv
  <2> QED
    BY <1>4, <2>1, <2>2
<1> QED
  BY <1>3, <1>6, <1>7, <1>8, <1>9, <1>10 DEF PassInv

\* A Fragment: its node filters, its template waits below the scan.
LEMMA FragmentPushed ==
    ASSUME NEW s, NEW n, PassInv(s, n), Unscanned(s),
           NEW x, IsTreeNode(x), x.filter = "scan",
           NEW f, IsFrame(f), f.why = "template", f.at = Len(n) + 1,
           NEW g, IsFrame(g), g.why = "scan", g.at = Len(n) + 1
    PROVE  PassInv(s \o <<f, g>>, Append(n, x))
<1>1. PICK S : s \in Seq(S)
  BY DEF PassInv, IsSeq
<1>2. PICK N : n \in Seq(N)
  BY DEF PassInv, IsSeq
<1> DEFINE t == s \o <<f, g>>
           m == Append(n, x)
<1>3. /\ t \in Seq(S \cup {f, g}) /\ Len(t) = Len(s) + 2 /\ Len(s) \in Nat
      /\ \A i \in 1..Len(s) : t[i] = s[i]
      /\ t[Len(s) + 1] = f /\ t[Len(s) + 2] = g
  BY <1>1
<1>4. /\ m \in Seq(N \cup {x}) /\ Len(m) = Len(n) + 1 /\ Len(n) \in Nat
      /\ \A i \in 1..Len(n) : m[i] = n[i]
      /\ m[Len(n) + 1] = x
  BY <1>2
<1> HIDE DEF t, m
<1> SUFFICES PassInv(t, m)
  BY DEF t, m
<1>5. IsSeq(t) /\ IsSeq(m)
  BY <1>3, <1>4 DEF IsSeq
<1>6. \A k \in 1..Len(t) : \/ k \in 1..Len(s) /\ t[k] = s[k]
                           \/ k = Len(s) + 1 /\ t[k] = f
                           \/ k = Len(s) + 2 /\ t[k] = g
  BY <1>3
<1>7. \A i \in 1..Len(m) : (\E k \in 1..Len(t) : IsPass(t[k]) /\ t[k].at = i)
              <=> (i = Len(n) + 1 \/ \E k \in 1..Len(s) : IsPass(s[k]) /\ s[k].at = i)
  <2>1. IsPass(g) /\ ~IsPass(f)
    BY DEF IsPass
  <2> QED
    BY <1>3, <1>6, <2>1
<1>8. \A i \in 1..Len(m) :
          m[i].filter # Nothing <=> \E k \in 1..Len(t) : IsPass(t[k]) /\ t[k].at = i
  <2>1. "scan" # Nothing
    BY DEF Nothing
  <2>2. \A i \in 1..Len(m) : (i \in 1..Len(n) /\ m[i] = n[i]) \/ (i = Len(n) + 1 /\ m[i] = x)
    BY <1>4
  <2>3. \A k \in 1..Len(s) : s[k].at # Len(n) + 1
    BY <1>4 DEF PassInv
  <2> QED
    BY <1>4, <1>7, <2>1, <2>2, <2>3 DEF PassInv
<1>9. \A j, k \in 1..Len(t) :
          t[j].why = "template" /\ t[k].why = "template" /\ t[j].at = t[k].at => j = k
  <2>1. \A k \in 1..Len(s) : s[k].at # Len(n) + 1
    BY <1>4 DEF PassInv
  <2>2. \A k \in 1..Len(t) : t[k].why = "template" =>
           (k \in 1..Len(s) /\ t[k] = s[k]) \/ (k = Len(s) + 1 /\ t[k].at = Len(n) + 1)
    BY <1>6
  <2> QED
    BY <2>1, <2>2 DEF PassInv
<1>10. \A k \in 1..Len(t) : t[k].why = "scan" =>
          k = Len(t) /\ t[k].at = Len(m) /\ m[Len(m)].filter = "scan"
  BY <1>3, <1>4, <1>6 DEF Unscanned
<1>11. \A k \in 1..Len(t) : IsFrame(t[k]) /\ t[k].at \in 1..Len(m)
  BY <1>4, <1>6 DEF PassInv
<1>12. \A k \in 1..Len(t) : IsPass(t[k]) =>
          k > 1 /\ t[k - 1].why = "template" /\ t[k - 1].at = t[k].at
  <2> SUFFICES ASSUME NEW k \in 1..Len(t), IsPass(t[k])
               PROVE  k > 1 /\ t[k - 1].why = "template" /\ t[k - 1].at = t[k].at
    OBVIOUS
  <2>1. CASE k = Len(s) + 2
    BY <1>3, <2>1
  <2>2. CASE k \in 1..Len(s)
    BY <1>3, <2>2 DEF PassInv
  <2>3. CASE k = Len(s) + 1
    BY <1>3, <2>3 DEF IsPass
  <2> QED
    BY <1>6, <2>1, <2>2, <2>3
<1>13. \A i \in 1..Len(m) : IsTreeNode(m[i])
  BY <1>4 DEF PassInv
<1> QED
  BY <1>5, <1>8, <1>9, <1>10, <1>11, <1>12, <1>13 DEF PassInv

LEMMA FrontProperties ==
    ASSUME NEW S, NEW s \in Seq(S), s # <<>>
    PROVE  /\ Front(s) \in Seq(S) /\ Len(Front(s)) = Len(s) - 1
           /\ \A k \in 1..(Len(s) - 1) : Front(s)[k] = s[k]
<1> DEFINE n == Len(s)
<1>1. n \in Nat \ {0} /\ DOMAIN s = 1..n
  OBVIOUS
<1>2. /\ Front(s) \in Seq(S) /\ Len(Front(s)) = n - 1
      /\ \A k \in 1..(n - 1) : Front(s)[k] = s[k]
  BY <1>1 DEF Front
<1> QED
  BY <1>2

LEMMA FrameField ==
    ASSUME NEW f, IsFrame(f), NEW v
    PROVE  LET g == [f EXCEPT !.todo = v] IN IsFrame(g) /\ g.at = f.at /\ g.why = f.why
BY DEF IsFrame

\* The frames as they are when the first item of the top is taken.
LEMMA AdvancedIs ==
    ASSUME PassInv(calls, nodes), calls # <<>>
    PROVE  /\ PassInv(Advanced, nodes)
           /\ Len(Advanced) = Len(calls) /\ Len(calls) \in Nat \ {0}
           /\ Top = calls[Len(calls)] /\ Top.at \in 1..Len(nodes)
           /\ \A k \in 1..Len(calls) :
                 Advanced[k].why = calls[k].why /\ Advanced[k].at = calls[k].at
<1>1. PICK S : calls \in Seq(S)
  BY DEF PassInv, IsSeq
<1> DEFINE n == Len(calls)
           front == Front(calls)
           rest == Rest
<1>2. n \in Nat \ {0} /\ Top = calls[n]
  BY <1>1 DEF Top, Last
<1>3. IsFrame(Top) /\ Top.at \in 1..Len(nodes)
  BY <1>2 DEF PassInv
<1>4. IsFrame(rest) /\ rest.at = Top.at /\ rest.why = Top.why
  <2> DEFINE v == Tail(Top.todo)
             g == [Top EXCEPT !.todo = v]
  <2>1. rest = g
    BY DEF Rest
  <2>2. IsFrame(g) /\ g.at = Top.at /\ g.why = Top.why
    <3> HIDE DEF v
    <3> QED
      BY <1>3, FrameField
  <2> HIDE DEF rest, g
  <2> QED
    BY <2>1, <2>2
<1>5. front \in Seq(S) /\ Len(front) = n - 1 /\ \A k \in 1..(n - 1) : front[k] = calls[k]
  BY <1>1, <1>2, FrontProperties
<1>6. Advanced = Append(front, rest)
  BY Zenon DEF Advanced
<1> HIDE DEF front, rest
<1>7. /\ Advanced \in Seq(S \cup {rest}) /\ Len(Advanced) = n
      /\ \A k \in 1..n : Advanced[k] = IF k = n THEN rest ELSE calls[k]
  BY <1>2, <1>5, <1>6
<1>8. \A k \in 1..n : /\ IsFrame(Advanced[k])
                      /\ Advanced[k].why = calls[k].why /\ Advanced[k].at = calls[k].at
  BY <1>2, <1>4, <1>7 DEF PassInv
<1> HIDE DEF Advanced
<1>9. IsSeq(Advanced)
  BY <1>7 DEF IsSeq
<1> QED
  BY <1>2, <1>3, <1>7, <1>8, <1>9, SameStack

LEMMA AdvancedUnscanned ==
    ASSUME PassInv(calls, nodes), calls # <<>>, Top.why # "scan"
    PROVE  Unscanned(calls) /\ Unscanned(Advanced)
<1>1. Unscanned(calls)
  BY AdvancedIs, TopNoScan
<1> QED
  BY <1>1, AdvancedIs DEF Unscanned

\* A scan attaches nothing.
LEMMA AcceptedUnscanned ==
    ASSUME PassInv(calls, nodes), calls # <<>>, NEW kind, NEW name, ~Rejected(kind, name)
    PROVE  Top.why # "scan"
<1> SUFFICES ASSUME Top.why = "scan" PROVE FALSE
  OBVIOUS
<1>1. Parent.filter = "scan"
  BY AdvancedIs DEF PassInv, Parent
<1>2. ~Accepts("scan", Parent.only, kind, name)
  BY DEF Accepts, Nothing
<1> QED
  BY <1>1, <1>2 DEF Rejected

\* A node set at one place, with its children and its filter.
LEMMA NodeSet ==
    ASSUME NEW s, PassInv(s, nodes), NEW i \in 1..Len(nodes), NEW m, IsTreeNode(m)
    PROVE  LET t == [nodes EXCEPT ![i] = m]
           IN  /\ IsSeq(t) /\ Len(t) = Len(nodes)
               /\ \A j \in 1..Len(nodes) : t[j] = IF j = i THEN m ELSE nodes[j]
<1>1. PICK S : nodes \in Seq(S)
  BY DEF PassInv, IsSeq
<1> DEFINE t == [nodes EXCEPT ![i] = m]
<1>2. nodes \in Seq(S \cup {m}) /\ Len(nodes) \in Nat
  BY <1>1
<1>3. t \in Seq(S \cup {m}) /\ Len(t) = Len(nodes)
  BY <1>2, ExceptSeq
<1>4. \A j \in 1..Len(nodes) : t[j] = IF j = i THEN m ELSE nodes[j]
  BY <1>1
<1> QED
  BY <1>3, <1>4 DEF IsSeq

LEMMA SetKeepsPasses ==
    ASSUME NEW s, PassInv(s, nodes), NEW i \in 1..Len(nodes), NEW m, IsTreeNode(m),
           m.filter = nodes[i].filter
    PROVE  PassInv(s, [nodes EXCEPT ![i] = m])
<1> DEFINE t == [nodes EXCEPT ![i] = m]
<1>1. /\ IsSeq(t) /\ Len(t) = Len(nodes)
      /\ \A j \in 1..Len(nodes) : t[j] = IF j = i THEN m ELSE nodes[j]
  BY NodeSet
<1> HIDE DEF t
<1>2. \A j \in 1..Len(nodes) : IsTreeNode(t[j]) /\ t[j].filter = nodes[j].filter
  BY <1>1 DEF PassInv
<1>3. PassInv(s, t)
  BY <1>1, <1>2, SameNodes
<1> QED
  BY <1>3 DEF t

\* The fields of a node besides its children and its filter.
LEMMA TreeFields ==
    ASSUME NEW n, IsTreeNode(n), NEW v
    PROVE  \A m \in {[n EXCEPT !.slots = v], [n EXCEPT !.other = v], [n EXCEPT !.only = v],
                     [n EXCEPT !.dflt = v], [n EXCEPT !.text = v], [n EXCEPT !.prev = v],
                     [n EXCEPT !.full = v], [n EXCEPT !.after = v]} :
              IsTreeNode(m) /\ m.kids = n.kids /\ m.filter = n.filter
BY DEF IsTreeNode

LEMMA FilterSet ==
    ASSUME NEW n, IsTreeNode(n), NEW v
    PROVE  LET m == [n EXCEPT !.filter = v] IN IsTreeNode(m) /\ m.kids = n.kids /\ m.filter = v
BY DEF IsTreeNode

LEMMA KidAdded ==
    ASSUME NEW n, IsTreeNode(n), NEW v
    PROVE  LET m == [n EXCEPT !.kids = Append(@, v)]
           IN  IsTreeNode(m) /\ m.kids = Append(n.kids, v) /\ m.filter = n.filter
<1>1. PICK S : n.kids \in Seq(S)
  BY DEF IsTreeNode, IsSeq
<1>2. IsSeq(Append(n.kids, v))
  BY <1>1, Append(n.kids, v) \in Seq(S \cup {v}) DEF IsSeq
<1> QED
  BY <1>2 DEF IsTreeNode

LEMMA NewTreeNode ==
    ASSUME NEW kind, NEW c, NEW path, NEW bind
    PROVE  LET n == NewNode(kind, c, path, bind)
           IN  IsTreeNode(n) /\ n.kids = <<>> /\ n.filter = Nothing
<1>1. IsSeq(<<>>)
  BY <<>> \in Seq({}) DEF IsSeq
<1> QED
  BY <1>1 DEF NewNode, IsTreeNode

LEMMA BodyIsFrame ==
    ASSUME NEW at, NEW kids, NEW why, NEW bind
    PROVE  LET f == Body(at, kids, why, bind) IN IsFrame(f) /\ f.at = at /\ f.why = why
BY DEF Body, IsFrame

\* The parent, with its new child.
ParentGrown == [nodes EXCEPT ![Top.at].kids = Append(@, Len(nodes) + 1)]

LEMMA ParentGrows ==
    ASSUME NEW s, PassInv(s, nodes), Top.at \in 1..Len(nodes)
    PROVE  /\ PassInv(s, ParentGrown) /\ Len(ParentGrown) = Len(nodes)
           /\ \A n : Attached(n) = Append(ParentGrown, n)
<1> DEFINE m == [nodes[Top.at] EXCEPT !.kids = Append(@, Len(nodes) + 1)]
<1>1. IsTreeNode(m) /\ m.filter = nodes[Top.at].filter
  <2>1. IsTreeNode(nodes[Top.at])
    BY DEF PassInv
  <2> QED
    BY <2>1, KidAdded
<1>2. ParentGrown = [nodes EXCEPT ![Top.at] = m]
  BY DEF ParentGrown
<1>3. \A n : Attached(n) = Append(ParentGrown, n)
  BY Zenon DEF Attached, ParentGrown
<1> HIDE DEF m
<1> QED
  BY <1>1, <1>2, <1>3, SetKeepsPasses, NodeSet

LEMMA AttachKeepsPasses ==
    ASSUME NEW s, PassInv(s, nodes), Unscanned(s), Top.at \in 1..Len(nodes),
           NEW n, IsTreeNode(n), n.filter = Nothing
    PROVE  /\ PassInv(s, Attached(n))
           /\ Len(Attached(n)) = Len(nodes) + 1
<1>1. /\ PassInv(s, ParentGrown) /\ Len(ParentGrown) = Len(nodes)
      /\ Attached(n) = Append(ParentGrown, n)
  BY ParentGrows
<1>2. Len(Append(ParentGrown, n)) = Len(nodes) + 1
  BY <1>1 DEF PassInv, IsSeq
<1> QED
  BY <1>1, <1>2, NodeGrows

LEMMA SkipKeepsPasses ==
    ASSUME PassInv(calls, nodes), calls # <<>>, NEW kind, NEW name, Skip(kind, name)
    PROVE  PassInv(calls', nodes')
<1> DEFINE i == Top.at
           m == Noted(nodes[i], kind, name)
<1>1. i \in 1..Len(nodes) /\ IsTreeNode(nodes[i]) /\ PassInv(Advanced, nodes)
  BY AdvancedIs DEF PassInv
<1>2. IsTreeNode(m) /\ m.filter = nodes[i].filter
  <2>1. \/ m = nodes[i]
        \/ m = [nodes[i] EXCEPT !.slots = @ \cup {name}]
        \/ m = [nodes[i] EXCEPT !.other = TRUE]
    BY Zenon DEF Noted
  <2> DEFINE v == nodes[i].slots \cup {name}
             a == [nodes[i] EXCEPT !.slots = v]
             b == [nodes[i] EXCEPT !.other = TRUE]
  <2>2. IsTreeNode(a) /\ a.filter = nodes[i].filter
    <3> HIDE DEF v
    <3> QED
      BY <1>1, TreeFields
  <2>3. IsTreeNode(b) /\ b.filter = nodes[i].filter
    BY <1>1, TreeFields
  <2>4. m = nodes[i] \/ m = a \/ m = b
    BY <2>1
  <2> HIDE DEF m, a, b
  <2> QED
    BY <1>1, <2>2, <2>3, <2>4
<1>3. nodes' = [nodes EXCEPT ![i] = m] /\ calls' = Advanced
  BY Zenon DEF Skip
<1> HIDE DEF m
<1> QED
  BY <1>1, <1>2, <1>3, SetKeepsPasses

\* A node is attached and no call begun, or one below it.
LEMMA AttachStep ==
    ASSUME PassInv(calls, nodes), calls # <<>>, Top.why # "scan",
           NEW n, IsTreeNode(n), n.filter = Nothing, nodes' = Attached(n),
           \/ calls' = Advanced
           \/ \E f : /\ IsFrame(f) /\ f.why \in {"body", "items"} /\ f.at = Len(nodes) + 1
                     /\ calls' = Append(Advanced, f)
    PROVE  PassInv(calls', nodes')
<1>1. /\ PassInv(Advanced, nodes) /\ Unscanned(Advanced) /\ Top.at \in 1..Len(nodes)
  BY AdvancedIs, AdvancedUnscanned
<1>2. PassInv(Advanced, nodes') /\ Len(nodes') = Len(nodes) + 1 /\ Len(nodes) \in Nat
  <2>1. Len(nodes) \in Nat
    BY DEF PassInv, IsSeq
  <2>2. PassInv(Advanced, Attached(n)) /\ Len(Attached(n)) = Len(nodes) + 1
    BY <1>1, AttachKeepsPasses
  <2> QED
    BY <2>1, <2>2
<1>3. CASE calls' = Advanced
  BY <1>2, <1>3
<1>4. ASSUME NEW f, IsFrame(f), f.why \in {"body", "items"}, f.at = Len(nodes) + 1,
             calls' = Append(Advanced, f)
      PROVE  PassInv(calls', nodes')
  <2>1. f.at \in 1..Len(nodes')
    BY <1>2, <1>4
  <2> QED
    BY <1>1, <1>2, <1>4, <2>1, BodyPushed
<1> QED
  BY <1>3, <1>4

\* A call of more children below the node of the top frame.
LEMMA CallStep ==
    ASSUME PassInv(calls, nodes), calls # <<>>, Top.why # "scan", nodes' = nodes,
           NEW kids, NEW bind, calls' = Append(Advanced, Body(Top.at, kids, "body", bind))
    PROVE  PassInv(calls', nodes')
<1> DEFINE f == Body(Top.at, kids, "body", bind)
<1>1. /\ PassInv(Advanced, nodes) /\ Unscanned(Advanced) /\ Top.at \in 1..Len(nodes)
  BY AdvancedIs, AdvancedUnscanned
<1>2. IsFrame(f) /\ f.why = "body" /\ f.at = Top.at
  BY BodyIsFrame
<1> HIDE DEF f
<1> QED
  BY <1>1, <1>2, BodyPushed DEF f

\* The top frame ends.
LEMMA FrontIs ==
    ASSUME PassInv(calls, nodes), calls # <<>>
    PROVE  LET t == Front(calls)
           IN  /\ IsSeq(t) /\ Len(t) = Len(calls) - 1 /\ Len(calls) \in Nat \ {0}
               /\ \A k \in 1..(Len(calls) - 1) : t[k] = calls[k]
<1>1. PICK S : calls \in Seq(S)
  BY DEF PassInv, IsSeq
<1>2. Len(calls) \in Nat \ {0}
  BY <1>1
<1>3. Front(calls) \in Seq(S) /\ Len(Front(calls)) = Len(calls) - 1
      /\ \A k \in 1..(Len(calls) - 1) : Front(calls)[k] = calls[k]
  BY <1>1, <1>2, FrontProperties
<1> QED
  BY <1>2, <1>3 DEF IsSeq

LEMMA NestKeepsPasses ==
    ASSUME PassInv(calls, nodes), Nest, phase' = "define"
    PROVE  PassInv(calls', nodes')
<1> DEFINE c == Current
           kind == KindOf[c.cmp]
           w == WithMarkers(c)
           n == NewNode(kind, w, ChildPath(c), Top.bind)
           f == Body(Len(nodes) + 1, c.kids, "body", NoBinding)
<1>1. calls # <<>> /\ phase = "define"
  BY DEF Nest, Calling
<1>2. \/ phase' = "refused"
      \/ Skip(kind, c.name)
      \/ ~Rejected(kind, c.name) /\ nodes' = Attached(n) /\ calls' = Append(Advanced, f)
  BY Zenon DEF Nest, Refuse
<1>3. IsTreeNode(n) /\ n.filter = Nothing
  BY NewTreeNode
<1>4. IsFrame(f) /\ f.why = "body" /\ f.at = Len(nodes) + 1
  BY BodyIsFrame
<1> HIDE DEF n, f, c, kind
<1>5. CASE Skip(kind, c.name)
  BY <1>1, <1>5, SkipKeepsPasses
<1>6. CASE ~Rejected(kind, c.name) /\ nodes' = Attached(n) /\ calls' = Append(Advanced, f)
  <2>1. Top.why # "scan"
    BY <1>1, <1>6, AcceptedUnscanned
  <2> QED
    BY <1>1, <1>3, <1>4, <1>6, <2>1, AttachStep
<1> QED
  BY <1>2, <1>5, <1>6

LEMMA ContentKeepsPasses ==
    ASSUME PassInv(calls, nodes), Content
    PROVE  PassInv(calls', nodes')
<1> DEFINE c == Current
           new == NewNode("content", c, ChildPath(c), Top.bind)
           text == Rendered(c, prog, Top.bind.item)
           n == [new EXCEPT !.text = text]
<1>1. calls # <<>>
  BY DEF Content, Calling
<1>2. \/ Skip("content", c.name)
      \/ ~Rejected("content", c.name) /\ nodes' = Attached(n) /\ calls' = Advanced
  BY Zenon DEF Content
<1>3. IsTreeNode(new) /\ new.filter = Nothing
  BY NewTreeNode
<1> HIDE DEF new, text
<1>4. IsTreeNode(n) /\ n.filter = Nothing
  BY <1>3, TreeFields
<1> HIDE DEF n, c
<1>5. CASE ~Rejected("content", c.name) /\ nodes' = Attached(n) /\ calls' = Advanced
  <2>1. Top.why # "scan"
    BY <1>1, <1>5, AcceptedUnscanned
  <2> QED
    BY <1>1, <1>4, <1>5, <2>1, AttachStep
<1> QED
  BY <1>1, <1>2, <1>5, SkipKeepsPasses

LEMMA CopyKeepsPasses ==
    ASSUME PassInv(calls, nodes), CopyFiles, phase' = "define"
    PROVE  PassInv(calls', nodes')
<1> DEFINE c == Current
           n == NewNode("copy", c, ChildPath(c), Top.bind)
<1>1. calls # <<>>
  BY DEF CopyFiles, Calling
<1>2. \/ phase' = "refused"
      \/ Skip("copy", c.name)
      \/ ~Rejected("copy", c.name) /\ nodes' = Attached(n) /\ calls' = Advanced
  BY Zenon DEF CopyFiles, Refuse
<1>3. IsTreeNode(n) /\ n.filter = Nothing
  BY NewTreeNode
<1> HIDE DEF n, c
<1>4. CASE ~Rejected("copy", c.name) /\ nodes' = Attached(n) /\ calls' = Advanced
  <2>1. Top.why # "scan"
    BY <1>1, <1>4, AcceptedUnscanned
  <2> QED
    BY <1>1, <1>3, <1>4, <2>1, AttachStep
<1> QED
  BY <1>1, <1>2, <1>4, SkipKeepsPasses

LEMMA ListKeepsPasses ==
    ASSUME PassInv(calls, nodes), ListItems
    PROVE  PassInv(calls', nodes')
<1> DEFINE c == Current
           n == NewNode("none", Plain, Parent.path, Top.bind)
           items == Body(Len(nodes) + 1, c.kids, "items", [NoBinding EXCEPT !.indent = c.indent])
           f == [items EXCEPT !.todo = c.items, !.line = c.line]
<1>1. calls # <<>>
  BY DEF ListItems, Calling
<1>2. \/ Skip("none", <<>>)
      \/ ~Rejected("none", <<>>) /\ nodes' = Attached(n) /\ calls' = Append(Advanced, f)
  BY Zenon DEF ListItems
<1>3. IsTreeNode(n) /\ n.filter = Nothing
  BY NewTreeNode
<1>4. IsFrame(f) /\ f.why = "items" /\ f.at = Len(nodes) + 1
  <2>1. IsFrame(items) /\ items.why = "items" /\ items.at = Len(nodes) + 1
    BY BodyIsFrame
  <2> HIDE DEF items
  <2> QED
    BY <2>1 DEF IsFrame
<1> HIDE DEF n, f
<1>5. CASE ~Rejected("none", <<>>) /\ nodes' = Attached(n) /\ calls' = Append(Advanced, f)
  <2>1. Top.why # "scan"
    BY <1>1, <1>5, AcceptedUnscanned
  <2> QED
    BY <1>1, <1>3, <1>4, <1>5, <2>1, AttachStep
<1> QED
  BY <1>1, <1>2, <1>5, SkipKeepsPasses

LEMMA ItemKeepsPasses ==
    ASSUME PassInv(calls, nodes), NextItem
    PROVE  PassInv(calls', nodes')
<1> DEFINE new == NewNode("content", Plain, Parent.path, NoBinding)
           n == [new EXCEPT !.text = <<Newline>>]
           bind == [Top.bind EXCEPT !.item = Head(Top.todo)]
<1>1. calls # <<>> /\ Top.why = "items"
  BY DEF NextItem
<1>2. \/ calls' = Append(Advanced, Body(Top.at, Top.kids, "body", bind)) /\ nodes' = nodes
      \/ calls' = Front(calls) /\ (nodes' = nodes \/ nodes' = Attached(n))
  BY Zenon DEF NextItem
<1> HIDE DEF bind
<1>3. IsTreeNode(new) /\ new.filter = Nothing
  BY NewTreeNode
<1> HIDE DEF new
<1>4. IsTreeNode(n) /\ n.filter = Nothing
  BY <1>3, TreeFields
<1> HIDE DEF n
<1>5. CASE calls' = Append(Advanced, Body(Top.at, Top.kids, "body", bind)) /\ nodes' = nodes
  BY <1>1, <1>5, CallStep
<1>6. CASE calls' = Front(calls) /\ (nodes' = nodes \/ nodes' = Attached(n))
  <2>1. PassInv(Front(calls), nodes)
    <3>1. ~IsPass(calls[Len(calls)])
      BY <1>1, AdvancedIs DEF IsPass
    <3> QED
      BY <1>1, <3>1, FrontIs, BodyPopped
  <2>2. Unscanned(Front(calls)) /\ Top.at \in 1..Len(nodes)
    <3>1. Unscanned(calls) /\ Top.at \in 1..Len(nodes)
      BY <1>1, AdvancedIs, AdvancedUnscanned
    <3> QED
      BY <1>1, <3>1, FrontIs DEF Unscanned
  <2>3. PassInv(Front(calls), Attached(n))
    BY <1>4, <2>1, <2>2, AttachKeepsPasses
  <2> QED
    BY <1>6, <2>1, <2>3
<1> QED
  BY <1>2, <1>5, <1>6

LEMMA FragmentKeepsPasses ==
    ASSUME PassInv(calls, nodes), Fragment, phase' = "define"
    PROVE  PassInv(calls', nodes')
<1> DEFINE c == Current
           id == Len(nodes) + 1
           new == NewNode("fragment", [c EXCEPT !.name = <<>>], Parent.path, Top.bind)
           n == [new EXCEPT !.filter = "scan"]
           body == Body(id, c.kids, "template", Top.bind)
           f == [body EXCEPT !.todo = prog.vol[c.from].text, !.hand = c.hand]
           g == Body(id, c.kids, "scan", NoBinding)
<1>1. calls # <<>>
  BY DEF Fragment, Calling
<1>2. \/ phase' = "refused"
      \/ Skip("fragment", <<>>)
      \/ ~Rejected("fragment", <<>>) /\ nodes' = Attached(n) /\ calls' = Advanced \o <<f, g>>
  BY Zenon DEF Fragment, Refuse
<1>3. IsTreeNode(n) /\ n.filter = "scan"
  <2>1. IsTreeNode(new)
    BY NewTreeNode
  <2> HIDE DEF new
  <2> QED
    BY <2>1, FilterSet
<1>4. IsFrame(f) /\ f.why = "template" /\ f.at = Len(nodes) + 1
  <2>1. IsFrame(body) /\ body.why = "template" /\ body.at = Len(nodes) + 1
    BY BodyIsFrame
  <2> HIDE DEF body
  <2> QED
    BY <2>1 DEF IsFrame
<1>5. IsFrame(g) /\ g.why = "scan" /\ g.at = Len(nodes) + 1
  BY BodyIsFrame
<1> HIDE DEF n, f, g
<1>6. CASE ~Rejected("fragment", <<>>) /\ nodes' = Attached(n) /\ calls' = Advanced \o <<f, g>>
  <2>1. Top.why # "scan"
    BY <1>1, <1>6, AcceptedUnscanned
  <2>2. PassInv(Advanced, nodes) /\ Unscanned(Advanced) /\ Top.at \in 1..Len(nodes)
    BY <1>1, <2>1, AdvancedIs, AdvancedUnscanned
  <2>3. /\ PassInv(Advanced, ParentGrown) /\ Len(ParentGrown) = Len(nodes)
        /\ nodes' = Append(ParentGrown, n)
    BY <1>6, <2>2, ParentGrows
  <2> QED
    BY <1>3, <1>4, <1>5, <1>6, <2>2, <2>3, FragmentPushed
<1> QED
  BY <1>1, <1>2, <1>6, SkipKeepsPasses

LEMMA TokenKeepsPasses ==
    ASSUME PassInv(calls, nodes), RenderToken
    PROVE  PassInv(calls', nodes')
<1> DEFINE i == Top.at
           new == NewNode("content", Plain, Parent.path, NoBinding)
           text == Segment(Head(Top.todo), Top.bind.item)
           n == [new EXCEPT !.text = text]
<1>1. calls # <<>> /\ Top.why = "template"
  BY DEF RenderToken, Rendering
<1>2. \/ Replay("unnamed", <<>>)
      \/ Replay("named", SlotNames[Head(Top.todo)])
      \/ calls' = Append(Advanced, Body(i, Top.hand, "body", NoBinding)) /\ nodes' = nodes
      \/ nodes' = Attached(n) /\ calls' = Advanced
  BY Zenon DEF RenderToken
<1>3. IsTreeNode(new) /\ new.filter = Nothing
  BY NewTreeNode
<1> HIDE DEF new, text
<1>4. IsTreeNode(n) /\ n.filter = Nothing
  BY <1>3, TreeFields
<1> HIDE DEF n
<1>5. CASE nodes' = Attached(n) /\ calls' = Advanced
  BY <1>1, <1>4, <1>5, AttachStep
<1>6. CASE calls' = Append(Advanced, Body(i, Top.hand, "body", NoBinding)) /\ nodes' = nodes
  BY <1>1, <1>6, CallStep
<1>7. ASSUME NEW filter \in {"unnamed", "named"}, NEW only, Replay(filter, only)
      PROVE  PassInv(calls', nodes')
  <2> DEFINE l == [nodes[i] EXCEPT !.filter = filter]
             m == [l EXCEPT !.only = only]
             dflt == m.dflt \/ filter = "unnamed"
             o == [m EXCEPT !.dflt = dflt]
             f == Body(i, Top.kids, "replay", NoBinding)
  <2>1. /\ PassInv(Advanced, nodes) /\ i \in 1..Len(nodes) /\ IsTreeNode(nodes[i])
        /\ Len(Advanced) > 0 /\ Advanced[Len(Advanced)].why = "template"
        /\ Advanced[Len(Advanced)].at = i
    <3>1. /\ PassInv(Advanced, nodes) /\ i \in 1..Len(nodes) /\ Top = calls[Len(calls)]
          /\ Len(Advanced) = Len(calls) /\ Len(calls) \in Nat \ {0} /\ Len(calls) \in 1..Len(calls)
      BY <1>1, AdvancedIs
    <3>2. Advanced[Len(calls)].why = Top.why /\ Advanced[Len(calls)].at = i
      BY <1>1, <3>1, AdvancedIs
    <3>3. IsTreeNode(nodes[i])
      BY <3>1 DEF PassInv
    <3> QED
      BY <1>1, <3>1, <3>2, <3>3
  <2>2. IsTreeNode(o) /\ o.filter = filter
    <3>1. IsTreeNode(l) /\ l.filter = filter
      BY <2>1, FilterSet
    <3> HIDE DEF l
    <3>2. IsTreeNode(m) /\ m.filter = filter
      BY <3>1, TreeFields
    <3> HIDE DEF m, dflt
    <3> QED
      BY <3>2, TreeFields
  <2>3. nodes' = [nodes EXCEPT ![i].filter = filter, ![i].only = only,
                               ![i].dflt = @ \/ filter = "unnamed"]
        /\ calls' = Append(Advanced, f)
    BY <1>7, Zenon DEF Replay
  <2>4. nodes' = [nodes EXCEPT ![i] = o]
    BY <2>3
  <2>5. IsFrame(f) /\ f.why = "replay" /\ f.at = i
    BY BodyIsFrame
  <2> HIDE DEF o, f
  <2>6. /\ IsSeq(nodes') /\ Len(nodes') = Len(nodes)
        /\ \A j \in 1..Len(nodes) : nodes'[j] = IF j = i THEN o ELSE nodes[j]
    <3> DEFINE t == [nodes EXCEPT ![i] = o]
    <3>1. /\ IsSeq(t) /\ Len(t) = Len(nodes)
          /\ \A j \in 1..Len(nodes) : t[j] = IF j = i THEN o ELSE nodes[j]
      BY <2>1, <2>2, NodeSet
    <3>2. nodes' = t
      BY <2>4
    <3> HIDE DEF t
    <3> QED
      BY <3>1, <3>2
  <2>7. \A j \in 1..Len(nodes) :
           IsTreeNode(nodes'[j]) /\ nodes'[j].filter = IF j = f.at THEN filter ELSE nodes[j].filter
    BY <2>2, <2>5, <2>6 DEF PassInv
  <2>8. filter # Nothing
    BY DEF Nothing
  <2>9. calls' = Append(Advanced, f)
    BY <2>3
  <2> DEFINE t == nodes'
  <2>10. PassInv(Append(Advanced, f), t)
    <3>1. /\ IsSeq(t) /\ Len(t) = Len(nodes) /\ t[f.at].filter # Nothing
          /\ \A j \in 1..Len(nodes) :
                IsTreeNode(t[j]) /\ (t[j].filter = nodes[j].filter \/ j = f.at)
      BY <2>1, <2>5, <2>6, <2>7, <2>8
    <3> HIDE DEF t
    <3> QED
      BY <2>1, <2>5, <3>1, PassPushed
  <2> QED
    BY <2>9, <2>10
<1> QED
  BY <1>2, <1>5, <1>6, <1>7

LEMMA EndKeepsPasses ==
    ASSUME PassInv(calls, nodes), RenderEnd, phase' = "define"
    PROVE  PassInv(calls', nodes')
<1>1. calls # <<>> /\ Top.why = "template"
  BY DEF RenderEnd, Rendering
<1>2. phase' = "refused" \/ (calls' = Front(calls) /\ nodes' = nodes)
  BY DEF RenderEnd, Refuse
<1>3. ~IsPass(calls[Len(calls)])
  BY <1>1, AdvancedIs DEF IsPass
<1>4. PassInv(Front(calls), nodes)
  BY <1>1, <1>3, FrontIs, BodyPopped
<1> QED
  BY <1>2, <1>4

LEMMA ReturnKeepsPasses ==
    ASSUME PassInv(calls, nodes), Return
    PROVE  PassInv(calls', nodes')
<1> DEFINE i == Top.at
           m == Unfiltered(nodes[i])
<1>1. /\ calls # <<>> /\ Top.why \in {"body", "scan", "replay"} /\ calls' = Front(calls)
      /\ nodes' = IF Top.why = "body" THEN nodes ELSE [nodes EXCEPT ![i] = m]
  BY Zenon DEF Return
<1>2. Top = calls[Len(calls)] /\ i \in 1..Len(nodes) /\ IsTreeNode(nodes[i])
  BY <1>1, AdvancedIs DEF PassInv
<1>3. CASE Top.why = "body"
  <2>1. ~IsPass(calls[Len(calls)])
    BY <1>2, <1>3 DEF IsPass
  <2>2. PassInv(Front(calls), nodes)
    BY <1>1, <2>1, FrontIs, BodyPopped
  <2> QED
    BY <1>1, <1>3, <2>2
<1>4. CASE Top.why # "body"
  <2>1. IsPass(calls[Len(calls)])
    BY <1>1, <1>2, <1>4 DEF IsPass
  <2>2. IsTreeNode(m) /\ m.filter = Nothing
    BY <1>2, FilterSet DEF Unfiltered
  <2> HIDE DEF m
  <2>3. /\ IsSeq(nodes') /\ Len(nodes') = Len(nodes)
        /\ \A j \in 1..Len(nodes) : nodes'[j] = IF j = i THEN m ELSE nodes[j]
    <3> DEFINE t == [nodes EXCEPT ![i] = m]
    <3>1. /\ IsSeq(t) /\ Len(t) = Len(nodes)
          /\ \A j \in 1..Len(nodes) : t[j] = IF j = i THEN m ELSE nodes[j]
      BY <1>2, <2>2, NodeSet
    <3>2. nodes' = t
      BY <1>1, <1>4
    <3> HIDE DEF t
    <3> QED
      BY <3>1, <3>2
  <2>4. \A j \in 1..Len(nodes) :
           /\ IsTreeNode(nodes'[j])
           /\ nodes'[j].filter = IF j = calls[Len(calls)].at THEN Nothing ELSE nodes[j].filter
    BY <1>2, <2>2, <2>3 DEF PassInv
  <2>5. /\ IsSeq(calls') /\ Len(calls') = Len(calls) - 1 /\ Len(calls) > 0
        /\ \A k \in 1..(Len(calls) - 1) : calls'[k] = calls[k]
    BY <1>1, FrontIs
  <2> QED
    BY <2>1, <2>3, <2>4, <2>5, PassPopped
<1> QED
  BY <1>3, <1>4

LEMMA StackBegins ==
    ASSUME nodes = <<RootNode>>, NEW kids, NEW bind
    PROVE  PassInv(<<Body(1, kids, "body", bind)>>, nodes)
<1> DEFINE f == Body(1, kids, "body", bind)
<1>1. IsFrame(f) /\ f.why = "body" /\ f.at = 1
  BY BodyIsFrame
<1>2. IsTreeNode(RootNode) /\ RootNode.filter = Nothing
  BY NewTreeNode DEF RootNode
<1> HIDE DEF f, RootNode
<1>3. IsSeq(<<f>>) /\ Len(<<f>>) = 1 /\ <<f>>[1] = f
  BY <<f>> \in Seq({f}) DEF IsSeq
<1>4. IsSeq(nodes) /\ Len(nodes) = 1 /\ nodes[1] = RootNode
  BY nodes \in Seq({RootNode}) DEF IsSeq
<1> DEFINE s == <<f>>
<1> HIDE DEF s
<1>5. PassInv(s, nodes)
  BY <1>1, <1>2, <1>3, <1>4 DEF PassInv, IsPass, s
<1> QED
  BY <1>5 DEF s, f

\* The invariant, phase by phase.
DefineInv ==
    /\ phase = "read" => nodes = <<RootNode>>
    /\ phase = "define" => PassInv(calls, nodes)

LEMMA StepDefineInv == DefineInv /\ [Next]_vars => DefineInv'
<1> SUFFICES ASSUME DefineInv, [Next]_vars PROVE DefineInv'
  OBVIOUS
<1>1. CASE UNCHANGED <<nodes, calls, phase>>
  BY <1>1 DEF DefineInv
<1>2. CASE UNCHANGED vars
  BY <1>1, <1>2 DEF vars
<1>3. CASE BuildStep
  <2>1. phase' \notin {"read", "define"} \/ UNCHANGED <<nodes, calls, phase>>
    BY <1>3 DEF BuildStep, buildVars, StartBuild, Descend, NoHook, ProjectBefore,
       ProjectAfter, FolderBefore, FolderAfter, FileBefore, FileAfter, FileFails,
       FragmentAfter, CopyBefore, CopyAfter, CopyFails, CopyWalk, CopyIgnore, CopyDir,
       EnterDir, CopyFile, CopyLeave, InjectBefore, InjectAfter, InjectPair, InjectSave,
       BuildEnd, Fail, Before, After, Visiting, Copying, Scanning
  <2> QED
    BY <1>1, <2>1 DEF DefineInv
<1>4. CASE ReadTree
  <2>1. phase = "read" /\ nodes' = nodes
        /\ \/ phase' = "refused"
           \/ calls' = <<Body(1, prog.tops, "body", NoBinding)>>
    BY <1>4 DEF ReadTree
  <2>2. nodes' = <<RootNode>>
    BY <2>1 DEF DefineInv
  <2>3. phase' # "read"
    BY <1>4 DEF ReadTree
  <2>4. PassInv(<<Body(1, prog.tops, "body", NoBinding)>>, nodes)
    BY <2>1, StackBegins DEF DefineInv
  <2> QED
    BY <2>1, <2>3, <2>4 DEF DefineInv
<1>5. CASE DefineStep /\ ~ReadTree
  <2>1. phase = "define" /\ phase' # "read"
    BY <1>5 DEF DefineStep, Calling, Rendering, Refuse, Skip, Replay, Nest, Content, CopyFiles,
       ListItems, NextItem, Fragment, RenderToken, RenderEnd, Return
  <2>2. PassInv(calls, nodes)
    BY <2>1 DEF DefineInv
  <2>3. phase' = "define" => PassInv(calls', nodes')
    BY <1>5, <2>2, NestKeepsPasses, ContentKeepsPasses, CopyKeepsPasses, ListKeepsPasses,
       ItemKeepsPasses, FragmentKeepsPasses, TokenKeepsPasses, EndKeepsPasses,
       ReturnKeepsPasses DEF DefineStep
  <2> QED
    BY <2>1, <2>3 DEF DefineInv
<1> QED
  BY <1>2, <1>3, <1>4, <1>5 DEF Next

\* A node filters its children exactly while one pass of its Fragment over the
\* body runs, and a scan attaches nothing (renderFragment).
THEOREM NoFilterIsLeft == GSpec => []PassesLeaveNoTrace
<1>1. GInit => DefineInv
  BY DEF GInit, Init, DefineInit, DefineInv
<1>2. DefineInv /\ [GNext]_allVars => DefineInv'
  BY StepDefineInv DEF GNext, allVars
<1>3. DefineInv => PassesLeaveNoTrace
  <2> SUFFICES ASSUME DefineInv, phase = "define" PROVE PassesLeaveNoTrace
    BY DEF PassesLeaveNoTrace
  <2>1. PassInv(calls, nodes)
    BY DEF DefineInv
  <2>2. DOMAIN calls = 1..Len(calls) /\ DOMAIN nodes = 1..Len(nodes) /\ Len(calls) \in Nat
    BY <2>1 DEF PassInv, IsSeq
  <2>3. \A i : Passes(i) = {k \in 1..Len(calls) : IsPass(calls[k]) /\ calls[k].at = i}
    BY <2>2 DEF Passes, IsPass
  <2>4. ASSUME NEW i \in DOMAIN nodes PROVE Cardinality(Passes(i)) <= 1
    <3>1. \A j, k \in Passes(i) : j = k
      <4> SUFFICES ASSUME NEW j \in Passes(i), NEW k \in Passes(i) PROVE j = k
        OBVIOUS
      <4>1. /\ j \in 1..Len(calls) /\ j > 1 /\ calls[j - 1].why = "template" /\ calls[j - 1].at = i
            /\ k \in 1..Len(calls) /\ k > 1 /\ calls[k - 1].why = "template" /\ calls[k - 1].at = i
        BY <2>1, <2>3 DEF PassInv
      <4>2. j - 1 \in 1..Len(calls) /\ k - 1 \in 1..Len(calls)
        BY <2>2, <4>1
      <4>3. \A a, b \in 1..Len(calls) :
               calls[a].why = "template" /\ calls[b].why = "template" /\ calls[a].at = calls[b].at
                  => a = b
        BY <2>1 DEF PassInv
      <4>4. j - 1 = k - 1
        BY <4>1, <4>2, <4>3
      <4> QED
        BY <4>1, <4>4
    <3>2. CASE Passes(i) = {}
      BY <3>2, FS_EmptySet
    <3>3. ASSUME NEW k \in Passes(i) PROVE Cardinality(Passes(i)) = 1
      <4>1. Passes(i) = {k}
        BY <3>1
      <4> QED
        BY <4>1, FS_Singleton
    <3> QED
      BY <3>2, <3>3
  <2>5. \A i \in DOMAIN nodes : nodes[i].filter # Nothing <=> Passes(i) # {}
    BY <2>1, <2>2, <2>3 DEF PassInv
  <2>6. \A k \in DOMAIN calls :
           calls[k].why = "scan" => calls[k].at = Len(nodes) /\ k = Len(calls)
    BY <2>1, <2>2 DEF PassInv
  <2> QED
    BY <2>4, <2>5, <2>6 DEF PassesLeaveNoTrace
<1> QED
  BY <1>1, <1>2, <1>3, PTL DEF GSpec

-----------------------------------------------------------------------------
(* Types: the tree, the folder, the phases. *)

SameKids(m, n) == IsTreeNode(m) /\ m.kids = n.kids

TreeInv ==
    /\ IsSeq(nodes)
    /\ \A i \in DOMAIN nodes :
          /\ IsTreeNode(nodes[i])
          /\ \A k \in DOMAIN nodes[i].kids : nodes[i].kids[k] \in i+1..Len(nodes)

LEMMA SameKidsTwice ==
    ASSUME NEW l, NEW m, NEW n, SameKids(l, m), SameKids(m, n)
    PROVE  SameKids(l, n)
BY DEF SameKids

LEMMA KidsStay ==
    ASSUME NEW n, IsTreeNode(n), NEW v
    PROVE  \A m \in {[n EXCEPT !.slots = v], [n EXCEPT !.other = v], [n EXCEPT !.only = v],
                     [n EXCEPT !.dflt = v], [n EXCEPT !.text = v], [n EXCEPT !.prev = v],
                     [n EXCEPT !.full = v], [n EXCEPT !.after = v], [n EXCEPT !.filter = v]} :
              SameKids(m, n)
BY DEF IsTreeNode, SameKids

LEMMA TreeStays ==
    ASSUME TreeInv, NEW i, NEW m, i \in DOMAIN nodes => SameKids(m, nodes[i]),
           nodes' = [nodes EXCEPT ![i] = m]
    PROVE  TreeInv'
<1>1. PICK S : nodes \in Seq(S)
  BY DEF TreeInv, IsSeq
<1>2. CASE i \notin DOMAIN nodes
  <2>1. nodes = [x \in DOMAIN nodes |-> nodes[x]]
    BY <1>1
  <2>2. nodes' = nodes
    BY <1>2, <2>1, Zenon
  <2> QED
    BY <2>2 DEF TreeInv
<1>3. CASE i \in DOMAIN nodes
  <2>1. nodes \in Seq(S \cup {m}) /\ m \in S \cup {m} /\ i \in 1..Len(nodes)
    BY <1>1, <1>3
  <2>2. nodes' \in Seq(S \cup {m}) /\ Len(nodes') = Len(nodes) /\ DOMAIN nodes' = DOMAIN nodes
    BY <1>1, <2>1, ExceptSeq
  <2>3. \A j \in DOMAIN nodes : nodes'[j] = IF j = i THEN m ELSE nodes[j]
    BY <1>1
  <2>4. \A j \in DOMAIN nodes : IsTreeNode(nodes'[j]) /\ nodes'[j].kids = nodes[j].kids
    BY <1>3, <2>3 DEF TreeInv, SameKids
  <2>5. IsSeq(nodes')
    BY <2>2 DEF IsSeq
  <2> QED
    BY <2>2, <2>4, <2>5 DEF TreeInv
<1> QED
  BY <1>2, <1>3

LEMMA TreeGrows ==
    ASSUME TreeInv, NEW n, IsTreeNode(n), n.kids = <<>>, nodes' = Attached(n)
    PROVE  TreeInv'
<1> DEFINE i == Top.at
           new == Len(nodes) + 1
           m == [nodes[i] EXCEPT !.kids = Append(@, new)]
           s == [nodes EXCEPT ![i] = m]
<1>1. PICK S : nodes \in Seq(S)
  BY DEF TreeInv, IsSeq
<1>2. nodes' = Append(s, n)
  BY DEF Attached
<1>3. ASSUME i \in DOMAIN nodes PROVE IsTreeNode(m) /\ m.kids = Append(nodes[i].kids, new)
  <2>1. IsTreeNode(nodes[i])
    BY <1>3 DEF TreeInv
  <2> QED
    BY <2>1, KidAdded
<1> HIDE DEF m
<1>4. /\ \E T : s \in Seq(T)
      /\ DOMAIN s = DOMAIN nodes /\ Len(s) = Len(nodes)
      /\ \A j \in DOMAIN nodes : s[j] = IF j = i THEN m ELSE nodes[j]
  <2>1. CASE i \notin DOMAIN nodes
    <3>1. nodes = [x \in DOMAIN nodes |-> nodes[x]]
      BY <1>1
    <3>2. s = nodes
      BY <2>1, <3>1, Zenon
    <3> QED
      BY <1>1, <2>1, <3>2
  <2>2. CASE i \in DOMAIN nodes
    <3>1. nodes \in Seq(S \cup {m}) /\ m \in S \cup {m} /\ i \in 1..Len(nodes)
      BY <1>1, <2>2
    <3>2. s \in Seq(S \cup {m}) /\ Len(s) = Len(nodes) /\ DOMAIN s = DOMAIN nodes
      BY <1>1, <3>1, ExceptSeq
    <3>3. \A j \in DOMAIN nodes : s[j] = IF j = i THEN m ELSE nodes[j]
      BY <1>1
    <3> QED
      BY <3>2, <3>3
  <2> QED
    BY <2>1, <2>2
<1> HIDE DEF s
<1>5. PICK T : s \in Seq(T)
  BY <1>4
<1>6. /\ nodes' \in Seq(T \cup {n}) /\ Len(nodes') = new /\ DOMAIN nodes' = 1..new
      /\ Len(nodes) \in Nat /\ DOMAIN nodes = 1..Len(nodes)
      /\ \A j \in 1..new : nodes'[j] = IF j = new THEN n ELSE s[j]
  BY <1>1, <1>2, <1>4, <1>5
<1>7. ASSUME NEW j \in DOMAIN nodes'
      PROVE  /\ IsTreeNode(nodes'[j])
             /\ \A k \in DOMAIN nodes'[j].kids : nodes'[j].kids[k] \in j+1..new
  <2>1. CASE j = new
    BY <1>6, <2>1
  <2>2. CASE j # new /\ j = i
    <3>1. j \in DOMAIN nodes /\ nodes'[j] = m
      BY <1>4, <1>6, <2>2
    <3>2. IsTreeNode(m) /\ m.kids = Append(nodes[j].kids, new)
      BY <1>3, <2>2, <3>1
    <3>3. PICK K : nodes[j].kids \in Seq(K)
      BY <3>1 DEF TreeInv, IsTreeNode, IsSeq
    <3>4. \A k \in DOMAIN nodes[j].kids : nodes[j].kids[k] \in j+1..Len(nodes)
      BY <3>1 DEF TreeInv
    <3>5. \A k \in DOMAIN m.kids :
             m.kids[k] = new \/ (k \in DOMAIN nodes[j].kids /\ m.kids[k] = nodes[j].kids[k])
      BY <3>2, <3>3
    <3>6. new \in j+1..new /\ \A x \in j+1..Len(nodes) : x \in j+1..new
      BY <1>6, <3>1
    <3> QED
      BY <3>1, <3>2, <3>4, <3>5, <3>6
  <2>3. CASE j # new /\ j # i
    <3>1. j \in DOMAIN nodes /\ nodes'[j] = nodes[j]
      BY <1>4, <1>6, <2>3
    <3>2. \A x \in j+1..Len(nodes) : x \in j+1..new
      BY <1>6, <3>1
    <3> QED
      BY <3>1, <3>2 DEF TreeInv
  <2> QED
    BY <2>1, <2>2, <2>3
<1> QED
  BY <1>6, <1>7 DEF TreeInv, IsSeq

LEMMA SkipKeepsTree ==
    ASSUME TreeInv, NEW kind, NEW name, Skip(kind, name)
    PROVE  TreeInv'
<1> DEFINE i == Top.at
           m == Noted(nodes[i], kind, name)
<1>1. ASSUME i \in DOMAIN nodes PROVE SameKids(m, nodes[i])
  <2> DEFINE v == nodes[i].slots \cup {name}
             a == [nodes[i] EXCEPT !.slots = v]
             b == [nodes[i] EXCEPT !.other = TRUE]
  <2>1. m = nodes[i] \/ m = a \/ m = b
    BY Zenon DEF Noted
  <2>2. IsTreeNode(nodes[i])
    BY <1>1 DEF TreeInv
  <2>3. SameKids(a, nodes[i])
    <3> HIDE DEF v
    <3> QED
      BY <2>2, KidsStay
  <2>4. SameKids(b, nodes[i])
    BY <2>2, KidsStay
  <2> HIDE DEF m, a, b
  <2> QED
    BY <2>1, <2>2, <2>3, <2>4 DEF SameKids
<1>2. nodes' = [nodes EXCEPT ![i] = m]
  BY Zenon DEF Skip
<1> HIDE DEF m
<1> QED
  BY <1>1, <1>2, TreeStays

LEMMA DefineKeepsTree == TreeInv /\ DefineStep => TreeInv'
<1> SUFFICES ASSUME TreeInv, DefineStep PROVE TreeInv'
  OBVIOUS
<1>1. CASE nodes' = nodes
  BY <1>1 DEF TreeInv
<1>2. ASSUME NEW kind, NEW c, NEW path, NEW bind, NEW text, NEW filter,
             LET n == NewNode(kind, c, path, bind)
             IN  \/ nodes' = Attached(n)
                 \/ nodes' = Attached([n EXCEPT !.text = text])
                 \/ nodes' = Attached([n EXCEPT !.filter = filter])
      PROVE  TreeInv'
  <2> DEFINE n == NewNode(kind, c, path, bind)
             withText == [n EXCEPT !.text = text]
             withFilter == [n EXCEPT !.filter = filter]
  <2>1. IsTreeNode(n) /\ n.kids = <<>>
    BY NewTreeNode
  <2>2. nodes' = Attached(n) \/ nodes' = Attached(withText) \/ nodes' = Attached(withFilter)
    BY <1>2
  <2> HIDE DEF n
  <2>3. SameKids(withText, n) /\ SameKids(withFilter, n)
    BY <2>1, KidsStay
  <2> HIDE DEF withText, withFilter
  <2> QED
    BY <2>1, <2>2, <2>3, TreeGrows DEF SameKids
<1>3. CASE ReadTree \/ RenderEnd
  BY <1>1, <1>3 DEF ReadTree, RenderEnd, Refuse
<1>4. CASE Nest
  <2>1. \/ nodes' = nodes
        \/ \E kind, name : Skip(kind, name)
        \/ \E kind, c, path, bind : nodes' = Attached(NewNode(kind, c, path, bind))
    BY <1>4, Zenon DEF Nest, Refuse
  <2> QED
    BY <1>1, <1>2, <2>1, SkipKeepsTree
<1>5. CASE Content
  <2>1. \/ \E kind, name : Skip(kind, name)
        \/ \E kind, c, path, bind, text :
              nodes' = Attached([NewNode(kind, c, path, bind) EXCEPT !.text = text])
    BY <1>5, Zenon DEF Content
  <2> QED
    BY <1>2, <2>1, SkipKeepsTree
<1>6. CASE CopyFiles
  <2>1. \/ nodes' = nodes
        \/ \E kind, name : Skip(kind, name)
        \/ \E kind, c, path, bind : nodes' = Attached(NewNode(kind, c, path, bind))
    BY <1>6, Zenon DEF CopyFiles, Refuse
  <2> QED
    BY <1>1, <1>2, <2>1, SkipKeepsTree
<1>7. CASE ListItems
  <2>1. \/ \E kind, name : Skip(kind, name)
        \/ \E kind, c, path, bind : nodes' = Attached(NewNode(kind, c, path, bind))
    BY <1>7, Zenon DEF ListItems
  <2> QED
    BY <1>2, <2>1, SkipKeepsTree
<1>8. CASE NextItem
  <2>1. \/ nodes' = nodes
        \/ \E kind, c, path, bind, text :
              nodes' = Attached([NewNode(kind, c, path, bind) EXCEPT !.text = text])
    BY <1>8, Zenon DEF NextItem
  <2> QED
    BY <1>1, <1>2, <2>1
<1>9. CASE Fragment
  <2>1. \/ nodes' = nodes
        \/ \E kind, name : Skip(kind, name)
        \/ \E kind, c, path, bind, filter :
              nodes' = Attached([NewNode(kind, c, path, bind) EXCEPT !.filter = filter])
    BY <1>9, Zenon DEF Fragment, Refuse
  <2> QED
    BY <1>1, <1>2, <2>1, SkipKeepsTree
<1>10. CASE RenderToken
  <2>1. ASSUME NEW filter, NEW only, Replay(filter, only) PROVE TreeInv'
    <3> DEFINE i == Top.at
               l == [nodes[i] EXCEPT !.filter = filter]
               m == [l EXCEPT !.only = only]
               dflt == m.dflt \/ filter = "unnamed"
               n == [m EXCEPT !.dflt = dflt]
    <3>1. ASSUME i \in DOMAIN nodes PROVE SameKids(n, nodes[i])
      <4>1. IsTreeNode(nodes[i])
        BY <3>1 DEF TreeInv
      <4>2. SameKids(l, nodes[i])
        BY <4>1, KidsStay
      <4> HIDE DEF l
      <4>3. SameKids(m, l)
        BY <4>2, KidsStay DEF SameKids
      <4> HIDE DEF m, dflt
      <4>4. SameKids(n, m)
        BY <4>3, KidsStay DEF SameKids
      <4> HIDE DEF n
      <4> QED
        BY <4>2, <4>3, <4>4, SameKidsTwice
    <3>2. nodes' = [nodes EXCEPT ![i].filter = filter, ![i].only = only,
                                 ![i].dflt = @ \/ filter = "unnamed"]
      BY <2>1, Zenon DEF Replay
    <3>3. nodes' = [nodes EXCEPT ![i] = n]
      BY <3>2
    <3> HIDE DEF n
    <3> QED
      BY <3>1, <3>3, TreeStays
  <2>2. \/ nodes' = nodes
        \/ \E filter, only : Replay(filter, only)
        \/ \E kind, c, path, bind, text :
              nodes' = Attached([NewNode(kind, c, path, bind) EXCEPT !.text = text])
    BY <1>10, Zenon DEF RenderToken
  <2> QED
    BY <1>1, <1>2, <2>1, <2>2
<1>11. CASE Return
  <2> DEFINE i == Top.at
             m == Unfiltered(nodes[i])
  <2>1. ASSUME i \in DOMAIN nodes PROVE SameKids(m, nodes[i])
    BY <2>1, KidsStay DEF TreeInv, Unfiltered
  <2>2. nodes' = nodes \/ nodes' = [nodes EXCEPT ![i] = m]
    BY <1>11, Zenon DEF Return
  <2> HIDE DEF m
  <2> QED
    BY <1>1, <2>1, <2>2, TreeStays
<1> QED
  BY <1>3, <1>4, <1>5, <1>6, <1>7, <1>8, <1>9, <1>10, <1>11 DEF DefineStep

\* The hooks set no children.
LEMMA BuildKeepsTree == TreeInv /\ BuildStep => TreeInv'
<1> SUFFICES ASSUME TreeInv, BuildStep PROVE TreeInv'
  OBVIOUS
<1> DEFINE i == Here.n
<1>1. CASE nodes' = nodes
  BY <1>1 DEF TreeInv
<1>2. ASSUME NEW v, \/ nodes' = [nodes EXCEPT ![i].prev = v]
                    \/ nodes' = [nodes EXCEPT ![i].text = v]
                    \/ nodes' = [nodes EXCEPT ![i].full = v]
      PROVE  TreeInv'
  <2> DEFINE a == [nodes[i] EXCEPT !.prev = v]
             b == [nodes[i] EXCEPT !.text = v]
             c == [nodes[i] EXCEPT !.full = v]
  <2>1. ASSUME i \in DOMAIN nodes
        PROVE  SameKids(a, nodes[i]) /\ SameKids(b, nodes[i]) /\ SameKids(c, nodes[i])
    BY <2>1, KidsStay DEF TreeInv
  <2>2. \/ nodes' = [nodes EXCEPT ![i] = a]
        \/ nodes' = [nodes EXCEPT ![i] = b]
        \/ nodes' = [nodes EXCEPT ![i] = c]
    BY <1>2
  <2> HIDE DEF a, b, c
  <2> QED
    BY <2>1, <2>2, TreeStays
<1>3. CASE ProjectBefore
  BY <1>2, <1>3, Zenon DEF ProjectBefore
<1>4. CASE FragmentAfter
  BY <1>2, <1>4, Zenon DEF FragmentAfter
<1>5. CASE InjectBefore
  BY <1>1, <1>2, <1>5, Zenon DEF InjectBefore, Fail
<1>6. CASE FileBefore
  BY <1>1, <1>2, <1>6, Zenon DEF FileBefore, Fail
<1>7. CASE CopyBefore
  <2> DEFINE a == [nodes[i] EXCEPT !.after = "walk"]
             b == [nodes[i] EXCEPT !.after = "excluded"]
             d == [nodes[i] EXCEPT !.after = "file"]
             path == PathTo(CopyName(Node))
             e == [d EXCEPT !.full = path]
             text == Copied(Source(Node), Node.item)
             f == [e EXCEPT !.text = text]
  <2>1. \E m \in {a, b, f} : nodes' = nodes \/ nodes' = [nodes EXCEPT ![i] = m]
    BY <1>7 DEF CopyBefore, Fail
  <2>2. ASSUME i \in DOMAIN nodes PROVE SameKids(a, nodes[i]) /\ SameKids(b, nodes[i])
    BY <2>2, KidsStay DEF TreeInv
  <2>3. ASSUME i \in DOMAIN nodes PROVE SameKids(f, nodes[i])
    <3> HIDE DEF path, text
    <3>1. SameKids(d, nodes[i])
      BY <2>3, KidsStay DEF TreeInv
    <3> HIDE DEF d
    <3>2. SameKids(e, d)
      BY <3>1, KidsStay DEF SameKids
    <3> HIDE DEF e
    <3>3. SameKids(f, e)
      BY <3>2, KidsStay DEF SameKids
    <3> HIDE DEF f
    <3> QED
      BY <3>1, <3>2, <3>3, SameKidsTwice
  <2> HIDE DEF a, b, f
  <2> QED
    BY <1>1, <2>1, <2>2, <2>3, TreeStays
<1>8. CASE ~(ProjectBefore \/ FragmentAfter \/ InjectBefore \/ CopyBefore \/ FileBefore)
  <2>1. nodes' = nodes
    BY <1>8 DEF BuildStep, buildVars, StartBuild, Descend, NoHook, ProjectAfter,
       FolderBefore, FolderAfter, FileAfter, FileFails, CopyAfter, CopyFails, CopyWalk,
       CopyIgnore, CopyDir, EnterDir, CopyFile, CopyLeave, InjectAfter, InjectPair,
       InjectSave, BuildEnd, Fail
  <2> QED
    BY <1>1, <2>1
<1> QED
  BY <1>3, <1>4, <1>5, <1>6, <1>7, <1>8

\* A file is no directory, the directories above it are there, and the
\* target of an Inject in progress is a file.
DiskInv ==
    /\ DOMAIN disk \cap dirs = {}
    /\ \A path \in DOMAIN disk : Parents(path) \subseteq dirs

IsScan(s) == s = [on |-> s.on, pos |-> s.pos, out |-> s.out, hit |-> s.hit]

ScanInv ==
    /\ IsScan(scan)
    /\ scan.on => /\ phase \notin {"read", "define"} /\ copying = <<>>
                  /\ Node.full \in DOMAIN disk

LEMMA NoOwnParent ==
    ASSUME NEW path
    PROVE  path \notin Parents(path)
<1> SUFFICES ASSUME NEW n \in 0..(Len(path) - 1), path = SubSeq(path, 1, n) PROVE FALSE
  BY DEF Parents
<1> QED
  OBVIOUS

LEMMA SaveKeepsDisk ==
    ASSUME DiskInv, NEW path, NEW text, NEW warning, Save(path, text, warning),
           prog.dry \/ (path \notin dirs /\ Parents(path) \cap DOMAIN disk = {})
    PROVE  DiskInv' /\ DOMAIN disk \subseteq DOMAIN disk'
<1>1. CASE prog.dry
  <2>1. UNCHANGED <<disk, dirs>>
    BY <1>1 DEF Save
  <2> QED
    BY <2>1 DEF DiskInv
<1>2. CASE ~prog.dry
  <2>1. DOMAIN disk' = DOMAIN disk \cup {path} /\ dirs' = dirs \cup Parents(path)
    BY <1>2 DEF Save
  <2>2. path \notin Parents(path)
    BY NoOwnParent
  <2> QED
    BY <1>2, <2>1, <2>2 DEF DiskInv
<1> QED
  BY <1>1, <1>2

LEMMA MkdirKeepsDisk ==
    ASSUME DiskInv, NEW path, Mkdir(path), disk' = disk
    PROVE  DiskInv'
BY DEF DiskInv, Mkdir, MkdirFails

LEMMA StepDiskInv == DiskInv /\ ScanInv /\ [Next]_vars => DiskInv'
<1> SUFFICES ASSUME DiskInv, ScanInv, [Next]_vars PROVE DiskInv'
  OBVIOUS
<1>1. CASE UNCHANGED <<disk, dirs>>
  BY <1>1 DEF DiskInv
<1>2. CASE ProjectBefore
  <2>1. Mkdir(Canon(Out \o Node.folder)) /\ disk' = disk
    BY <1>2, Zenon DEF ProjectBefore
  <2> QED
    BY <2>1, MkdirKeepsDisk
<1>3. CASE FolderBefore
  <2>1. UNCHANGED <<disk, dirs>> \/ (Mkdir(PathTo(Node.name)) /\ disk' = disk)
    BY <1>3, Zenon DEF FolderBefore, Fail, buildVars
  <2> QED
    BY <1>1, <2>1, MkdirKeepsDisk
<1>4. CASE FileAfter
  <2> DEFINE text == CollectInPlace(Here.n)
  <2>1. \/ UNCHANGED <<disk, dirs>>
        \/ ~SaveFails(Node.full) /\ Save(Node.full, text, <<>>)
    BY <1>4, Zenon DEF FileAfter
  <2> HIDE DEF text
  <2> QED
    BY <1>1, <2>1, SaveKeepsDisk DEF SaveFails
<1>5. CASE CopyAfter
  <2>1. \/ UNCHANGED <<disk, dirs>>
        \/ ~SaveFails(Node.full) /\ Save(Node.full, Node.text, <<>>)
    BY <1>5, Zenon DEF CopyAfter
  <2> QED
    BY <1>1, <2>1, SaveKeepsDisk DEF SaveFails
<1>6. CASE CopyFile
  <2> DEFINE text == Copied(prog.vol[EntryReal], Node.item)
  <2>1. \/ UNCHANGED <<disk, dirs>>
        \/ ~SaveFails(Canon(EntryTo)) /\ Save(Canon(EntryTo), text, <<>>)
    BY <1>6, Zenon DEF CopyFile, Fail, buildVars
  <2> HIDE DEF text
  <2> QED
    BY <1>1, <2>1, SaveKeepsDisk DEF SaveFails
<1>7. CASE InjectSave
  <2> DEFINE text == scan.out \o SubSeq(Target, scan.pos, Len(Target))
             warning == IF scan.hit THEN <<>> ELSE <<Node.full>>
  <2>1. Save(Node.full, text, warning) /\ scan.on
    BY <1>7, Zenon DEF InjectSave, Scanning
  <2>2. Node.full \notin dirs /\ Parents(Node.full) \cap DOMAIN disk = {}
    BY <2>1 DEF ScanInv, DiskInv
  <2> HIDE DEF text, warning
  <2> QED
    BY <2>1, <2>2, SaveKeepsDisk
<1>8. CASE DefineStep /\ UNCHANGED buildVars
  BY <1>1, <1>8 DEF buildVars
<1>9. CASE UNCHANGED vars
  BY <1>1, <1>9 DEF vars, buildVars
<1>10. CASE BuildStep /\ ~(ProjectBefore \/ FolderBefore \/ FileAfter \/ CopyAfter \/ CopyFile
                           \/ InjectSave)
  <2>1. UNCHANGED <<disk, dirs>>
    BY <1>10 DEF BuildStep, buildVars, StartBuild, Descend, NoHook, ProjectAfter,
       FolderAfter, FileBefore, FileFails, FragmentAfter, CopyBefore, CopyFails, CopyWalk,
       CopyIgnore, CopyDir, EnterDir, CopyLeave, InjectBefore, InjectAfter, InjectPair,
       BuildEnd, Fail
  <2> QED
    BY <1>1, <2>1
<1> QED
  BY <1>2, <1>3, <1>4, <1>5, <1>6, <1>7, <1>8, <1>9, <1>10 DEF Next

LEMMA ScanSet ==
    ASSUME NEW s, IsScan(s), NEW v
    PROVE  LET t == [s EXCEPT !.on = v] IN IsScan(t) /\ t.on = v
<1> DEFINE r == [on |-> v, pos |-> s.pos, out |-> s.out, hit |-> s.hit]
<1>1. [s EXCEPT !.on = v] = r
  <2>1. PICK a, b, c, d : s = [on |-> a, pos |-> b, out |-> c, hit |-> d]
    BY Zenon DEF IsScan
  <2>2. [s EXCEPT !.on = v] = [on |-> v, pos |-> b, out |-> c, hit |-> d]
    BY <2>1
  <2> QED
    BY <2>1, <2>2
<1>2. IsScan(r) /\ r.on = v
  BY DEF IsScan
<1> HIDE DEF r
<1> QED
  BY <1>1, <1>2

LEMMA StepScanInv == ScanInv /\ [Next]_vars => ScanInv'
<1> SUFFICES ASSUME ScanInv, [Next]_vars PROVE ScanInv'
  OBVIOUS
<1>1. CASE scan' = scan /\ ~scan.on
  BY <1>1 DEF ScanInv
<1>2. CASE UNCHANGED vars
  BY <1>2 DEF ScanInv, vars, buildVars, Node, Here
<1>3. CASE DefineStep /\ UNCHANGED buildVars
  <2>1. phase \in {"read", "define"}
    BY <1>3 DEF DefineStep, ReadTree, Calling, Rendering, Nest, Content, CopyFiles,
       ListItems, NextItem, Fragment, RenderToken, RenderEnd, Return
  <2>2. ~scan.on
    BY <2>1 DEF ScanInv
  <2> QED
    BY <1>1, <1>3, <2>2 DEF buildVars
<1>4. CASE InjectAfter
  <2>1. Visiting
    BY <1>4, Zenon DEF InjectAfter, After
  <2>2. \/ scan' = scan
        \/ /\ scan' = [NoScan EXCEPT !.on = TRUE] /\ Node.full \in DOMAIN disk
           /\ UNCHANGED <<phase, hooks, nodes, disk, copying>>
    BY <1>4, Zenon DEF InjectAfter
  <2>3. IsScan([NoScan EXCEPT !.on = TRUE]) /\ [NoScan EXCEPT !.on = TRUE].on
    <3>1. IsScan(NoScan)
      BY DEF NoScan, IsScan
    <3> HIDE DEF NoScan
    <3> QED
      BY <3>1, ScanSet
  <2>4. CASE scan' = scan
    BY <1>1, <2>1, <2>4 DEF Visiting
  <2>5. CASE /\ scan' = [NoScan EXCEPT !.on = TRUE] /\ Node.full \in DOMAIN disk
             /\ UNCHANGED <<phase, hooks, nodes, disk, copying>>
    BY <2>1, <2>3, <2>5 DEF ScanInv, Visiting, Node, Here
  <2> QED
    BY <2>2, <2>4, <2>5
<1>5. CASE InjectPair
  <2> DEFINE out == scan.out \o SubSeq(Target, scan.pos, StartAt) \o CollectInPlace(Here.n)
  <2>1. /\ scan' = [scan EXCEPT !.out = out, !.pos = EndAt, !.hit = TRUE]
        /\ UNCHANGED <<phase, hooks, nodes, disk, copying>> /\ scan.on
    BY <1>5, Zenon DEF InjectPair, Scanning, PairDone
  <2> HIDE DEF out
  <2>2. IsScan(scan') /\ scan'.on = scan.on
    BY <2>1 DEF ScanInv, IsScan
  <2> QED
    BY <2>1, <2>2 DEF ScanInv, Node, Here
<1>6. CASE InjectSave
  <2>1. scan' = NoScan
    BY <1>6, Zenon DEF InjectSave
  <2>2. IsScan(NoScan) /\ ~NoScan.on
    BY DEF NoScan, IsScan
  <2> QED
    BY <2>1, <2>2 DEF ScanInv
<1>7. CASE BuildEnd
  BY <1>7 DEF BuildEnd, ScanInv, buildVars, Node, Here
<1>8. CASE BuildStep /\ ~(InjectAfter \/ InjectPair \/ InjectSave \/ BuildEnd)
  <2>1. scan' = scan
    BY <1>8 DEF BuildStep, buildVars, StartBuild, Descend, NoHook, ProjectBefore,
       ProjectAfter, FolderBefore, FolderAfter, FileBefore, FileAfter, FileFails,
       FragmentAfter, CopyBefore, CopyAfter, CopyFails, CopyWalk, CopyIgnore, CopyDir,
       EnterDir, CopyFile, CopyLeave, InjectBefore, Fail
  <2>2. phase = "define" \/ Visiting \/ Copying
    BY <1>8 DEF BuildStep, StartBuild, Descend, NoHook, ProjectBefore,
       ProjectAfter, FolderBefore, FolderAfter, FileBefore, FileAfter, FileFails,
       FragmentAfter, CopyBefore, CopyAfter, CopyFails, CopyWalk, CopyIgnore, CopyDir,
       CopyFile, CopyLeave, InjectBefore, Before, After
  <2>3. ~scan.on
    BY <2>2 DEF ScanInv, Visiting, Copying
  <2> QED
    BY <1>1, <2>1, <2>3
<1> QED
  BY <1>2, <1>3, <1>4, <1>5, <1>6, <1>7, <1>8 DEF Next

PhaseOK == phase \in {"read", "define", "build"} \cup Ended

LEMMA StepPhaseOK == PhaseOK /\ [Next]_vars => PhaseOK'
<1> SUFFICES ASSUME PhaseOK, [Next]_vars PROVE PhaseOK'
  OBVIOUS
<1>1. phase' = phase \/ phase' \in {"define", "build"} \cup Ended
  BY DEF Next, vars, DefineStep, ReadTree, Refuse, Skip, Replay, Nest, Content, CopyFiles,
     ListItems, NextItem, Fragment, RenderToken, RenderEnd, Return, BuildStep, buildVars,
     StartBuild, Descend, NoHook, ProjectBefore, ProjectAfter, FolderBefore, FolderAfter,
     FileBefore, FileAfter, FileFails, FragmentAfter, CopyBefore, CopyAfter, CopyFails,
     CopyWalk, CopyIgnore, CopyDir, EnterDir, CopyFile, CopyLeave, InjectBefore, InjectAfter,
     InjectPair, InjectSave, BuildEnd, Fail, Ended
<1> QED
  BY <1>1 DEF PhaseOK

\* The children of a node come after it, the folder stays one of a file
\* system, and the phases are those the code has.
THEOREM TypeCorrect == GSpec => []TypeOK
<1> DEFINE IInv == TreeInv /\ DiskInv /\ ScanInv /\ PhaseOK
<1>1. GInit => IInv
  <2> SUFFICES ASSUME GInit PROVE IInv
    OBVIOUS
  <2>1. TreeInv
    <3>1. nodes = <<RootNode>>
      BY DEF GInit, Init, DefineInit
    <3>2. IsTreeNode(RootNode) /\ RootNode.kids = <<>>
      BY NewTreeNode DEF RootNode
    <3> HIDE DEF RootNode
    <3>3. nodes \in Seq({RootNode}) /\ DOMAIN nodes = {1} /\ nodes[1] = RootNode
      BY <3>1
    <3> QED
      BY <3>2, <3>3 DEF TreeInv, IsSeq
  <2>2. DiskInv
    <3>1. /\ prog \in Programs /\ disk = prog.disk
          /\ dirs = {<<>>} \cup UNION {Parents(path) : path \in DOMAIN prog.disk}
      BY DEF GInit, Init
    <3>2. \A path \in DOMAIN disk : path # <<>> /\ Parents(path) \cap DOMAIN disk = {}
      BY <3>1, ProgramsAssumption
    <3> QED
      BY <3>1, <3>2 DEF DiskInv
  <2>3. ScanInv
    BY DEF GInit, Init, ScanInv, IsScan, NoScan
  <2>4. PhaseOK
    BY DEF GInit, Init, DefineInit, PhaseOK
  <2> QED
    BY <2>1, <2>2, <2>3, <2>4
<1>2. IInv /\ [GNext]_allVars => IInv'
  <2> SUFFICES ASSUME IInv, [Next]_vars PROVE IInv'
    BY DEF GNext, allVars
  <2>1. TreeInv'
    <3>1. CASE UNCHANGED vars
      BY <3>1 DEF vars, TreeInv
    <3> QED
      BY <3>1, DefineKeepsTree, BuildKeepsTree DEF Next
  <2> QED
    BY <2>1, StepDiskInv, StepScanInv, StepPhaseOK
<1>3. IInv => TypeOK
  BY DEF TypeOK, TreeInv, DiskInv, PhaseOK
<1> QED
  BY <1>1, <1>2, <1>3, PTL DEF GSpec

-----------------------------------------------------------------------------
(* What a run that builds nothing leaves. *)

Untouched == disk = prog.disk

\* A tree that is refused, and a dry run to its very end, leave every file of
\* the output folder as it was (BuildWith, fileHandler.saveAs).
THEOREM RefusedOrDryWritesNothing ==
    GSpec => [](prog.dry \/ phase \in {"read", "define", "refused"} => Untouched)
<1> DEFINE Quiet == prog.dry \/ phase \in {"read", "define", "refused"} => Untouched
<1>1. GInit => Quiet
  BY DEF GInit, Init, Untouched
<1>2. Quiet /\ [GNext]_allVars => Quiet'
  <2> SUFFICES ASSUME Quiet, [Next]_vars PROVE Quiet'
    BY DEF GNext, allVars
  <2>1. CASE DefineStep /\ UNCHANGED buildVars
    <3>1. prog' = prog /\ phase \in {"read", "define"}
      BY <2>1 DEF DefineStep, ReadTree, Calling, Rendering, Nest, Content, CopyFiles,
         ListItems, NextItem, Fragment, RenderToken, RenderEnd, Return
    <3>2. disk' = disk
      BY <2>1 DEF buildVars
    <3> QED
      BY <3>1, <3>2 DEF Untouched
  <2>2. CASE BuildStep
    <3>1. prog' = prog
      BY <2>2 DEF BuildStep, buildVars, StartBuild, Descend, NoHook, ProjectBefore,
         ProjectAfter, FolderBefore, FolderAfter, FileBefore, FileAfter, FileFails,
         FragmentAfter, CopyBefore, CopyAfter, CopyFails, CopyWalk, CopyIgnore, CopyDir,
         EnterDir, CopyFile, CopyLeave, InjectBefore, InjectAfter, InjectPair, InjectSave,
         BuildEnd, Fail
    <3>2. prog.dry => disk' = disk
      BY <2>2 DEF BuildStep, buildVars, StartBuild, Descend, NoHook, ProjectBefore,
         ProjectAfter, FolderBefore, FolderAfter, FileBefore, FileAfter, FileFails,
         FragmentAfter, CopyBefore, CopyAfter, CopyFails, CopyWalk, CopyIgnore, CopyDir,
         EnterDir, CopyFile, CopyLeave, InjectBefore, InjectAfter, InjectPair, InjectSave,
         BuildEnd, Fail, Save
    <3>3. phase' \in {"build", "done", "failed"}
      BY <2>2 DEF BuildStep, buildVars, StartBuild, Descend, NoHook, ProjectBefore,
         ProjectAfter, FolderBefore, FolderAfter, FileBefore, FileAfter, FileFails,
         FragmentAfter, CopyBefore, CopyAfter, CopyFails, CopyWalk, CopyIgnore, CopyDir,
         EnterDir, CopyFile, CopyLeave, InjectBefore, InjectAfter, InjectPair, InjectSave,
         BuildEnd, Fail, Visiting, Before, After, Copying, Scanning
    <3> QED
      BY <3>1, <3>2, <3>3 DEF Untouched
  <2>3. CASE UNCHANGED vars
    BY <2>3 DEF vars, buildVars, Untouched
  <2> QED
    BY <2>1, <2>2, <2>3 DEF Next
<1> QED
  BY <1>1, <1>2, PTL DEF GSpec
=============================================================================
