------------------------------- MODULE Define -------------------------------
(***************************************************************************)
(* The define phase of one Generate (go/builder.go, go/fragment.go, the    *)
(* read of a component tree in go/tree.go): the callbacks run, and every   *)
(* component that is not filtered attaches a node.                         *)
(*                                                                         *)
(* A Fragment runs its body once to learn the names of its Slots, with a   *)
(* filter that rejects every child, and again at each <[SLOT]> marker of   *)
(* its source, with a filter that accepts the children of that marker.     *)
(* The calls in progress are the frames of a stack.                        *)
(***************************************************************************)
EXTENDS Components

VARIABLES
    prog,   \* the program: components, options, sources, folder
    nodes,  \* the node tree; node 1 is the synthetic root
    calls,  \* the calls in progress, innermost last
    phase   \* define, build, and how the run ended

defineVars == <<nodes, calls>>

Ended == {"refused", "failed", "done"}

Comps == prog.comps

NewNode(kind, c, path, bind) ==
    [kind |-> kind, name |-> c.name, path |-> path, folder |-> c.folder,
     from |-> c.from, exclude |-> c.exclude, markers |-> c.markers,
     indent |-> c.indent, item |-> bind.item, kids |-> <<>>, text |-> <<>>,
     filter |-> Nothing, only |-> <<>>, slots |-> {}, other |-> FALSE,
     dflt |-> FALSE, full |-> <<>>, prev |-> <<>>, after |-> Nothing]

RootNode == NewNode("none", Plain, <<>>, NoBinding)

\* A body in progress: the components still to call, with node at as the
\* parent.  why is body, scan or replay; a list repeats its children for
\* each item, a template renders the source of a Fragment.
Body(at, kids, why, bind) ==
    [why |-> why, at |-> at, todo |-> kids, bind |-> bind, kids |-> kids, hand |-> <<>>,
     line |-> FALSE]

Top == Last(calls)
Parent == nodes[Top.at]

\* What a frame becomes when its first item of work is taken.
Rest == [Top EXCEPT !.todo = Tail(@)]
Advanced == Append(Front(calls), Rest)

Calling(cmp) ==
    /\ phase = "define"
    /\ calls # <<>>
    /\ Top.why \in {"body", "scan", "replay"}
    /\ Top.todo # <<>>
    /\ Comps[Head(Top.todo)].cmp \in cmp

\* The component to call, what its parent binds merged under its own props.
Current == Bound(Comps[Head(Top.todo)], Top.bind)

\* What the filter of the parent says of a child.
Accepts(filter, only, kind, name) ==
    CASE filter = Nothing   -> TRUE
      [] filter = "scan"    -> FALSE
      [] filter = "unnamed" -> kind # "slot"
      [] filter = "named"   -> kind = "slot" /\ name = only

Rejected(kind, name) == ~Accepts(Parent.filter, Parent.only, kind, name)

\* What a scan learns from a child it rejects.
Noted(parent, kind, name) ==
    IF parent.filter # "scan" THEN parent
    ELSE IF kind = "slot" THEN [parent EXCEPT !.slots = @ \cup {name}]
    ELSE [parent EXCEPT !.other = TRUE]

Skip(kind, name) ==
    /\ Rejected(kind, name)
    /\ nodes' = [nodes EXCEPT ![Top.at] = Noted(@, kind, name)]
    /\ calls' = Advanced
    /\ UNCHANGED phase

\* The component path of a child: its name, when it has one.
ChildPath(c) == Parent.path \o c.name

Attached(n) == Append([nodes EXCEPT ![Top.at].kids = Append(@, Len(nodes) + 1)], n)

\* st.err: the first error ends the define phase, and nothing is built.
Refuse ==
    /\ phase' = "refused"
    /\ UNCHANGED <<nodes, calls>>

KindOf == [Project |-> "project", Folder |-> "folder", File |-> "file", Slot |-> "slot",
           Cmp |-> "none", Inject |-> "inject"]

\* An Inject with exactly one empty marker, refused before any filter.
HalfMarkers(c) == c.cmp = "Inject" /\ Len(c.markers) = 1

WithMarkers(c) ==
    IF c.cmp = "Inject" /\ c.markers = <<>> THEN [c EXCEPT !.markers = DefaultMarkers] ELSE c

\* Project, Folder, File, Slot, Inject and a component of the caller.
Nest ==
    /\ Calling(DOMAIN KindOf)
    /\ LET c == Current
           kind == KindOf[c.cmp]
       IN  IF HalfMarkers(c) THEN Refuse
           ELSE \/ Skip(kind, c.name)
                \/ /\ ~Rejected(kind, c.name)
                   /\ nodes' = Attached(NewNode(kind, WithMarkers(c), ChildPath(c), Top.bind))
                   /\ calls' = Append(Advanced, Body(Len(nodes) + 1, c.kids, "body", NoBinding))
                   /\ UNCHANGED phase
    /\ UNCHANGED prog

\* Content and Line: rendered only when the child is accepted.
Content ==
    /\ Calling({"Content", "Line"})
    /\ LET c == Current
       IN  \/ Skip("content", c.name)
           \/ /\ ~Rejected("content", c.name)
              /\ nodes' = Attached([NewNode("content", c, ChildPath(c), Top.bind)
                                      EXCEPT !.text = Rendered(c, prog, Top.bind.item)])
              /\ calls' = Advanced
              /\ UNCHANGED phase
    /\ UNCHANGED prog

\* The source of a Fragment or a CopyFiles must exist in the define phase.
NoSource(c) == c.from \notin DOMAIN prog.vol

CopyFiles ==
    /\ Calling({"CopyFiles"})
    /\ LET c == Current
       IN  \/ Skip("copy", c.name)
           \/ /\ ~Rejected("copy", c.name)
              /\ IF NoSource(c) THEN Refuse
                 ELSE /\ nodes' = Attached(NewNode("copy", c, ChildPath(c), Top.bind))
                      /\ calls' = Advanced
                      /\ UNCHANGED phase
    /\ UNCHANGED prog

\* A list attaches a node of its own and calls its children per item.
ListItems ==
    /\ Calling({"ListItems"})
    /\ LET c == Current
       IN  \/ Skip("none", <<>>)
           \/ /\ ~Rejected("none", <<>>)
              /\ nodes' = Attached(NewNode("none", Plain, Parent.path, Top.bind))
              /\ calls' = Append(Advanced,
                            [Body(Len(nodes) + 1, c.kids, "items", [NoBinding EXCEPT !.indent = c.indent]) EXCEPT
                               !.todo = c.items, !.line = c.line])
              /\ UNCHANGED phase
    /\ UNCHANGED prog

NextItem ==
    /\ phase = "define" /\ calls # <<>> /\ Top.why = "items"
    /\ IF Top.todo # <<>>
       THEN /\ calls' = Append(Advanced, Body(Top.at, Top.kids, "body",
                                          [Top.bind EXCEPT !.item = Head(Top.todo)]))
            /\ UNCHANGED nodes
       ELSE /\ nodes' = IF Top.line
                        THEN Attached([NewNode("content", Plain, Parent.path, NoBinding)
                                         EXCEPT !.text = <<Newline>>])
                        ELSE nodes
            /\ calls' = Front(calls)
    /\ UNCHANGED <<prog, phase>>

\* A Fragment attaches its node, reads its source and scans its body.
Fragment ==
    /\ Calling({"Fragment"})
    /\ LET c == Current
           id == Len(nodes) + 1
       IN  \/ Skip("fragment", <<>>)
           \/ /\ ~Rejected("fragment", <<>>)
              /\ IF NoSource(c) \/ prog.vol[c.from].dir THEN Refuse
                 ELSE /\ nodes' = Attached([NewNode("fragment", [c EXCEPT !.name = <<>>],
                                                    Parent.path, Top.bind)
                                              EXCEPT !.filter = "scan"])
                      /\ calls' = Advanced
                           \o <<[Body(id, c.kids, "template", Top.bind) EXCEPT
                                   !.todo = prog.vol[c.from].text, !.hand = c.hand],
                                Body(id, c.kids, "scan", NoBinding)>>
                      /\ UNCHANGED phase
    /\ UNCHANGED prog

Rendering ==
    /\ phase = "define" /\ calls # <<>> /\ Top.why = "template"

\* Run the body again, accepting the children that belong to the marker.
Replay(filter, only) ==
    /\ nodes' = [nodes EXCEPT ![Top.at].filter = filter, ![Top.at].only = only,
                              ![Top.at].dflt = @ \/ filter = "unnamed"]
    /\ calls' = Append(Advanced, Body(Top.at, Top.kids, "replay", NoBinding))

\* Is the token a marker of a slot that the scan found?
IsSlot(token) == token \in DOMAIN SlotNames /\ SlotNames[token] \in Parent.slots

\* The text of one segment, which attaches raw.
Segment(token, item) == Template(<<token>>, item)

\* One token of the source: a marker replays the body, a handler emits its
\* components, and anything else is final text.
RenderToken ==
    /\ Rendering
    /\ Top.todo # <<>>
    /\ LET token == Head(Top.todo)
       IN  \/ /\ token = SlotMark
              /\ Replay("unnamed", <<>>)
           \/ /\ IsSlot(token)
              /\ Replay("named", SlotNames[token])
           \/ /\ token = HandMark /\ Top.hand # <<>>
              /\ calls' = Append(Advanced, Body(Top.at, Top.hand, "body", NoBinding))
              /\ UNCHANGED nodes
           \/ /\ token # SlotMark /\ ~IsSlot(token) /\ ~(token = HandMark /\ Top.hand # <<>>)
              /\ nodes' = Attached([NewNode("content", Plain, Parent.path, NoBinding)
                                      EXCEPT !.text = Segment(token, Top.bind.item)])
              /\ calls' = Advanced
    /\ UNCHANGED <<prog, phase>>

\* Children that are not Slots, and no unnamed marker to receive them.
Lost(n) == n.other /\ ~n.dflt

RenderEnd ==
    /\ Rendering
    /\ Top.todo = <<>>
    /\ IF Lost(Parent) THEN Refuse
       ELSE calls' = Front(calls) /\ UNCHANGED <<nodes, phase>>
    /\ UNCHANGED prog

\* Fault: the filter of a pass stays on the node.
Unfiltered_Never(n) == n

Unfiltered(n) == [n EXCEPT !.filter = Nothing]

\* The end of a body; a pass of a Fragment takes its filter away.
Return ==
    /\ phase = "define" /\ calls # <<>>
    /\ Top.why \in {"body", "scan", "replay"} /\ Top.todo = <<>>
    /\ calls' = Front(calls)
    /\ nodes' = IF Top.why = "body" THEN nodes
                ELSE [nodes EXCEPT ![Top.at] = Unfiltered(@)]
    /\ UNCHANGED <<prog, phase>>

\* Reading the tree refuses a malformed one before any component runs.
ReadTree ==
    /\ phase = "read"
    /\ \/ /\ \E i \in DOMAIN Comps : Malformed(Comps[i])
          /\ phase' = "refused"
          /\ UNCHANGED calls
       \/ /\ \A i \in DOMAIN Comps : ~Malformed(Comps[i])
          /\ phase' = "define"
          /\ calls' = <<Body(1, prog.tops, "body", NoBinding)>>
    /\ UNCHANGED <<prog, nodes>>

DefineInit ==
    /\ nodes = <<RootNode>>
    /\ calls = <<>>
    /\ phase = "read"

DefineStep ==
    \/ ReadTree \/ Nest \/ Content \/ CopyFiles \/ ListItems \/ NextItem
    \/ Fragment \/ RenderToken \/ RenderEnd \/ Return
=============================================================================
