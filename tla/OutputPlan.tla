----------------------------- MODULE OutputPlan -----------------------------
(***************************************************************************)
(* What a component tree promises to write, stated over the tree alone.    *)
(*                                                                         *)
(* The meaning of a component is the output operations it stands for, in   *)
(* order and relative to the folder around it, and the text it gives to    *)
(* the file around it.  A run carries out the operations of its program    *)
(* one by one, and stops at the first that is refused.                     *)
(***************************************************************************)
EXTENDS Components

CONSTANTS
    Programs,  \* the programs a behaviour may run
    Ignored    \* entry names that a copy ignores

VARIABLES
    prog,    \* the program
    plan,    \* its output operations, and whether it has any
    disk,    \* the files of the output folder
    dirs,    \* its directories
    served,  \* how many operations have been carried out
    status   \* running, refused, failed or done

vars == <<prog, plan, disk, dirs, served, status>>

Nil == [bad |-> FALSE, ops |-> <<>>, text |-> <<>>]

Operation(act, path) ==
    [act |-> act, path |-> path, cpath |-> <<>>, rooted |-> FALSE, text |-> <<>>,
     exclude |-> {}, markers |-> <<>>]

Refusal == Operation("refuse", <<>>)

\* One part after another.
InTurn(parts) ==
    [bad |-> \E k \in DOMAIN parts : parts[k].bad,
     ops |-> FlattenSeq([k \in DOMAIN parts |-> parts[k].ops]),
     text |-> FlattenSeq([k \in DOMAIN parts |-> parts[k].text])]

\* Operations seen from outside a component of this name.
Named(name, ops) == [k \in DOMAIN ops |-> [ops[k] EXCEPT !.cpath = name \o @]]

\* Operations seen from outside a folder.  What is below a Project does
\* not move.
Under(name, ops) ==
    [k \in DOMAIN ops |-> IF ops[k].rooted THEN ops[k] ELSE [ops[k] EXCEPT !.path = name \o @]]

Rooted(ops) == [k \in DOMAIN ops |-> [ops[k] EXCEPT !.rooted = TRUE]]

\* The files of a directory, in order, at their path below it.  A
\* directory on the way to itself is left out, and everything else is in,
\* by whatever names it is reached.
Tree(vol, item) ==
    LET Below[d \in DOMAIN vol, way \in SUBSET DOMAIN vol] ==
          IF Cardinality(way) > MaxCopyDepth THEN <<Refusal>>
          ELSE IF d \in way THEN <<Operation("warn", <<>>)>>
          ELSE FlattenSeq([k \in DOMAIN vol[d].names |->
                 LET name == vol[d].names[k]
                     e == vol[d].at[name]
                 IN  Under(<<name>>,
                       IF name \in Ignored THEN <<>>
                       ELSE IF e \notin DOMAIN vol THEN <<Refusal>>
                       ELSE IF vol[e].dir THEN Below[e, way \cup {d}]
                       ELSE <<[Operation("save", <<>>) EXCEPT !.text = Copied(vol[e], item)]>>)])
    IN  Below

\* Is the path, or a directory above it, excluded?
Left(path, exclude) ==
    exclude # Everything /\ \E p \in exclude : p = path \/ p \in Parents(path)

CopyMeaning(c, vol, item) ==
    LET file == Copied(vol[c.from], item)
        name == IF c.name = <<>> THEN <<c.from>> ELSE c.name
    IN  CASE c.from \notin DOMAIN vol -> [Nil EXCEPT !.bad = TRUE]
          [] c.from \in DOMAIN vol /\ vol[c.from].dir ->
               [Nil EXCEPT !.ops =
                  IF BadName(c.name) THEN <<Refusal>>
                  ELSE Under(c.name, SelectSeq(Tree(vol, item)[c.from, {}],
                                               LAMBDA op : ~Left(op.path, c.exclude)))]
          [] c.from \in DOMAIN vol /\ ~vol[c.from].dir ->
               IF BadName(name) THEN [Nil EXCEPT !.ops = <<Refusal>>]
               ELSE IF Left(<<c.from>>, c.exclude) THEN Nil
               ELSE [Nil EXCEPT !.ops = <<[Operation("save", name) EXCEPT !.text = file]>>,
                                !.text = file]

\* The meaning of every component of a program, under what its parent
\* binds for it.
MeaningOf(p) ==
    LET comps == p.comps
        Items == UNION {ToSet(comps[i].items) : i \in DOMAIN comps} \cup {NoItem}
        Meaning[i \in DOMAIN comps, bind \in [item : Items, indent : BOOLEAN]] ==
          LET c == Bound(comps[i], bind)
              All(kids, b) == InTurn([k \in DOMAIN kids |-> Meaning[kids[k], b]])
              body == All(c.kids, NoBinding)
              end == [Nil EXCEPT !.text = <<Newline>>]
              slot(k) == comps[k].cmp = "Slot"
              slots == {comps[k].name : k \in {j \in ToSet(c.kids) : slot(j)}}
              others == SelectSeq(c.kids, LAMBDA k : ~slot(k))
              Part(token) ==
                IF token = SlotMark THEN All(others, NoBinding)
                ELSE IF token \in DOMAIN SlotNames /\ SlotNames[token] \in slots
                THEN All(SelectSeq(c.kids, LAMBDA k : slot(k) /\ comps[k].name = SlotNames[token]),
                         NoBinding)
                ELSE IF token = HandMark /\ c.hand # <<>> THEN All(c.hand, NoBinding)
                ELSE [Nil EXCEPT !.text = Template(<<token>>, bind.item)]
          IN  CASE c.cmp \in {"Content", "Line"} ->
                     [Nil EXCEPT !.text = Rendered(c, p, bind.item)]
                [] c.cmp \in {"Cmp", "Slot"} -> [body EXCEPT !.ops = Named(c.name, @)]
                [] c.cmp = "ListItems" ->
                     InTurn([k \in DOMAIN c.items |->
                               All(c.kids, [item |-> c.items[k], indent |-> c.indent])]
                            \o (IF c.line THEN <<end>> ELSE <<>>))
                [] c.cmp = "Folder" ->
                     [body EXCEPT !.ops =
                        IF BadName(c.name) THEN <<Refusal>>
                        ELSE Named(c.name, Under(c.name, <<Operation("mkdir", <<>>)>> \o @))]
                [] c.cmp = "Project" ->
                     [body EXCEPT !.ops =
                        Named(c.name, Rooted(Under(c.folder,
                                <<Operation("root", <<>>)>> \o @)))]
                [] c.cmp = "File" ->
                     [body EXCEPT !.text = <<>>, !.ops =
                        IF BadName(c.name) THEN <<Refusal>>
                        ELSE Named(c.name,
                               <<Operation("claim", c.name)>> \o @
                               \o <<[Operation("save", c.name) EXCEPT
                                       !.text = body.text, !.exclude = c.exclude]>>)]
                [] c.cmp = "Inject" ->
                     [body EXCEPT !.text = <<>>, !.bad = @ \/ Len(c.markers) = 1, !.ops =
                        IF BadName(c.name) THEN <<Refusal>>
                        ELSE Named(c.name, @ \o <<[Operation("inject", c.name) EXCEPT
                               !.text = body.text, !.exclude = c.exclude,
                               !.markers = IF c.markers = <<>> THEN DefaultMarkers
                                           ELSE c.markers]>>)]
                [] c.cmp = "Fragment" ->
                     IF c.from \notin DOMAIN p.vol \/ p.vol[c.from].dir
                     THEN [Nil EXCEPT !.bad = TRUE]
                     ELSE LET src == p.vol[c.from].text
                              all == InTurn([k \in DOMAIN src |-> Part(src[k])])
                          IN  [all EXCEPT !.text = IndentIf(c, @),
                                 !.bad = @ \/ (others # <<>> /\ SlotMark \notin ToSet(src))
                                           \/ \E k \in ToSet(c.kids) : Len(comps[k].markers) = 1]
                [] c.cmp = "CopyFiles" -> CopyMeaning(c, p.vol, bind.item)
    IN  InTurn([k \in DOMAIN p.tops |-> Meaning[p.tops[k], NoBinding]])

\* A tree that does not read, or whose components refuse, writes nothing.
PlanOf(p) ==
    LET m == MeaningOf(p)
        refused == m.bad \/ \E i \in DOMAIN p.comps : Malformed(p.comps[i])

        At(op) == SelectSeq(<<"out">> \o op.path, LAMBDA seg : seg # ".")
    IN  [refused |-> refused,
         ops |-> IF refused \/ ~p.build THEN <<>>
                 ELSE [k \in DOMAIN m.ops |-> [m.ops[k] EXCEPT !.path = At(m.ops[k])]]]

-----------------------------------------------------------------------------

\* What lies between each pair of markers, from one marker to the next,
\* becomes the body; everything else is kept.
Between(text, markers, body) ==
    LET From[n \in 1..(Len(text) + 1)] ==
          LET s == IndexFrom(text, markers[1], n)
              e == IF s = 0 THEN 0 ELSE IndexFrom(text, markers[2], s + 1)
          IN  IF e = 0 THEN SubSeq(text, n, Len(text))
              ELSE SubSeq(text, n, s) \o body \o <<markers[2]>> \o From[e + 1]
    IN  From[1]

Op == plan.ops[served + 1]

Exists(path) == path \in DOMAIN disk \cup dirs
Blocked(paths) == ~prog.dry /\ paths \cap DOMAIN disk # {}
Claimed == {plan.ops[k].path : k \in {j \in 1..served : plan.ops[j].act = "claim"}}

\* A File that its exclude names stays as it is.
LeftAlone == Op.act = "save" /\ Excludes(Op.exclude, Op.cpath) /\ Exists(Op.path)

Fails ==
    CASE Op.act = "refuse" -> TRUE
      [] Op.act = "mkdir"  -> Blocked(Parents(Op.path) \cup {Op.path})
      [] Op.act = "claim"  -> Op.path \in Claimed
      [] Op.act = "save"   -> ~LeftAlone /\ (Op.path \in dirs \/ Blocked(Parents(Op.path)))
      [] Op.act = "inject" -> Op.exclude = {} /\ Op.path \notin DOMAIN disk
      [] Op.act \in {"root", "warn"} -> FALSE

Put(text) ==
    /\ disk' = [p \in DOMAIN disk \cup {Op.path} |-> IF p = Op.path THEN text ELSE disk[p]]
    /\ dirs' = dirs \cup Parents(Op.path)

Folder ==
    /\ dirs' = IF Blocked(Parents(Op.path) \cup {Op.path}) THEN dirs
               ELSE dirs \cup Parents(Op.path) \cup {Op.path}
    /\ UNCHANGED disk

Serve ==
    /\ status = "running"
    /\ served < Len(plan.ops)
    /\ ~Fails
    /\ IF prog.dry \/ LeftAlone \/ (Op.act = "inject" /\ Op.exclude # {})
       THEN UNCHANGED <<disk, dirs>>
       ELSE CASE Op.act = "save" -> Put(Op.text)
              [] Op.act = "inject" -> Put(Between(disk[Op.path], Op.markers, Op.text))
              [] Op.act \in {"mkdir", "root"} -> Folder
              [] Op.act \in {"claim", "warn"} -> UNCHANGED <<disk, dirs>>
    /\ served' = served + 1
    /\ UNCHANGED <<prog, plan, status>>

Finish ==
    /\ status = "running"
    /\ \/ plan.refused /\ status' = "refused"
       \/ served = Len(plan.ops) /\ ~plan.refused /\ status' = "done"
       \/ served < Len(plan.ops) /\ Fails /\ status' = "failed"
    /\ UNCHANGED <<prog, plan, disk, dirs, served>>

Init ==
    /\ prog \in Programs
    /\ plan = PlanOf(prog)
    /\ disk = prog.disk
    /\ dirs = {<<>>} \cup UNION {Parents(path) : path \in DOMAIN prog.disk}
    /\ served = 0
    /\ status = "running"

Next == Serve \/ Finish

Spec == Init /\ [][Next]_vars /\ WF_vars(Next)
=============================================================================
