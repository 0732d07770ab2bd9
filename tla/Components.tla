----------------------------- MODULE Components -----------------------------
(***************************************************************************)
(* A program: the component tree that a generator hands over as data       *)
(* (go/tree.go), the sources it reads and the output folder it starts      *)
(* from; and the pure helpers that the define and the build phase share.   *)
(*                                                                         *)
(* A text is a sequence of tokens.  Some tokens mean something to the      *)
(* engine: a newline, a $$ref$$ of the model, the {item} macro of          *)
(* ListItems, a <[SLOT]> marker, an Inject marker.  The names of a path    *)
(* are its segments, so a path is a sequence of segments.                  *)
(***************************************************************************)
EXTENDS Integers, Sequences, FiniteSets, SequencesExt

CONSTANTS
    Model,        \* what each $$ref$$ token stands for
    SlotNames,    \* the slot name in each <[SLOT:name]> token
    MaxCopyDepth  \* the bound on the depth of a copied directory

Newline  == "nl"       \* the end of a line
Pad      == "pad"      \* what Indent puts before a line
ItemMark == "{item}"   \* the macro ListItems binds for its children
SlotMark == "<[SLOT]>" \* the unnamed marker of a Fragment source
NoItem   == "no item"
Nothing  == "none"     \* no source, no filter

HandMark == "#Hand"    \* the key of a replace handler that emits components

\* One node of the tree, with every prop at its default.
Plain == [cmp |-> "Cmp", name |-> <<>>, kids |-> <<>>, text |-> <<>>,
          folder |-> <<>>, from |-> Nothing, exclude |-> {}, markers |-> <<>>,
          items |-> <<>>, line |-> TRUE, indent |-> FALSE, raw |-> "unset",
          hand |-> <<>>, fault |-> FALSE]

\* What a ListItems binds for its direct children.
NoBinding == [item |-> NoItem, indent |-> FALSE]

Bound(c, bind) == [c EXCEPT !.indent = @ \/ bind.indent]

\* An exclude of true; a set of component paths is the other form.
Everything == {<<"*">>}

DefaultMarkers == <<"#--START--#", "#--END--#">>

\* Substitution of the model and of the item: each token once, and what
\* a token became is final text.
Template(text, item) ==
    [k \in DOMAIN text |->
        IF text[k] = ItemMark /\ item # NoItem THEN item
        ELSE IF text[k] \in DOMAIN Model THEN Model[text[k]] ELSE text[k]]

\* Before the first line, and after every newline but a trailing one.  A
\* newline that opens the text takes its pad after it.
Indent(text) ==
    FlattenSeq([k \in DOMAIN text |->
        (IF k = 1 /\ (text[1] # Newline \/ Len(text) = 1) THEN <<Pad>> ELSE <<>>)
        \o <<text[k]>>
        \o (IF text[k] = Newline /\ k < Len(text) THEN <<Pad>> ELSE <<>>)])

IndentIf(c, text) == IF c.indent THEN Indent(text) ELSE text

\* A name with a ".." segment.
BadName(name) == ".." \in ToSet(name)

\* A node that reading the tree refuses: no object, no or an unknown
\* component, a prop a closed shape does not admit (fault), or a Project
\* that would leave the output folder.
Malformed(c) == c.fault \/ (c.cmp = "Project" /\ BadName(c.folder))

\* Raw of a Content or Line: its own prop, else the option of the tree.
IsRaw(c, prog) == IF c.raw = "unset" THEN prog.raw ELSE c.raw = "yes"

\* What a Content writes.  Line is a Content with a newline at the end.
Rendered(c, prog, item) ==
    LET src == IF c.cmp = "Line" THEN Append(c.text, Newline) ELSE c.text
    IN  IndentIf(c, IF IsRaw(c, prog) THEN src ELSE Template(src, item))

\* Every proper ancestor of a path.
Parents(path) == {SubSeq(path, 1, n) : n \in 0..(Len(path) - 1)}

\* Does the component path name this node in its exclude?
Excludes(exclude, cpath) == exclude = Everything \/ cpath \in exclude

\* What one copied file becomes: a binary passes through.
Copied(file, item) == IF file.bin THEN file.text ELSE Template(file.text, item)

\* The first position in text, at or after from, that holds token; zero
\* when there is none.
IndexFrom(text, token, from) ==
    LET at == {k \in from..Len(text) : text[k] = token}
    IN  IF at = {} THEN 0 ELSE CHOOSE k \in at : \A j \in at : k <= j
=============================================================================
