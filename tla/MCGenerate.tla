----------------------------- MODULE MCGenerate -----------------------------
(***************************************************************************)
(* Families of programs for TLC: nesting and paths, Fragments and their    *)
(* Slots, copies of linked directories, Inject, lists and refusals.        *)
(***************************************************************************)
EXTENDS Generate, TLC

\* $v stands for a value that itself looks like a reference.
MCModel == ("$v" :> "$w") @@ ("$w" :> "W")
MCSlotNames == ("<[SLOT:s]>" :> <<"s">>) @@ ("<[SLOT:t]>" :> <<"t">>) @@ ("<[SLOT:]>" :> <<>>)
MCMaxCopyDepth == 2
MCIgnored == {"x~"}

Is(cmp, name, kids) == [Plain EXCEPT !.cmp = cmp, !.name = name, !.kids = kids]
Says(text) == [Plain EXCEPT !.cmp = "Content", !.text = text]
Writes(name, kids) == Is("File", <<name>>, kids)
ProjectIn(at, kids) == [Is("Project", <<"pr">>, kids) EXCEPT !.folder = at]
From(source, kids) == [Plain EXCEPT !.cmp = "Fragment", !.from = source, !.kids = kids]
Copies(source, name) == [Plain EXCEPT !.cmp = "CopyFiles", !.from = source, !.name = name]
Edits(name, kids) == Is("Inject", <<name>>, kids)
Lists(items, kids) == [Plain EXCEPT !.cmp = "ListItems", !.items = items, !.kids = kids]

\* A directory of the sources, and a file.
ADir(names, at) == [dir |-> TRUE, names |-> names, at |-> at, text |-> <<>>, bin |-> FALSE]
AFile(text, bin) == [dir |-> FALSE, names |-> <<>>, at |-> <<>>, text |-> text, bin |-> bin]

NoFiles == [p \in {} |-> <<>>]
Program(comps, tops) ==
    [comps |-> comps, tops |-> tops, raw |-> FALSE, vol |-> "fr" :> AFile(<<"a", "$v">>, FALSE),
     disk |-> NoFiles, build |-> TRUE, dry |-> FALSE]

\* Nesting: a container or a file inside a container, before a sibling.
Nests ==
    LET Outer == {ProjectIn(<<"p">>, <<3, 4>>), Is("Folder", <<"d">>, <<3, 4>>),
                  Is("Cmp", <<>>, <<3, 4>>), Is("Slot", <<"s">>, <<3, 4>>),
                  Is("Folder", <<"d", "..">>, <<3>>)}
        Inner == {ProjectIn(<<"q">>, <<5>>), Is("Folder", <<"e">>, <<5>>), Writes("f", <<5>>),
                  Is("Folder", <<"f">>, <<5, 6>>), Is("Cmp", <<>>, <<5, 6>>)}
        Leaf  == {Writes("f", <<6>>), Edits("f", <<6>>), Is("Inject", <<"..">>, <<>>), Copies("fr", <<>>), Says(<<"b">>),
                  Is("File", <<".", "d", "f">>, <<6>>), Is("File", <<"..", "f">>, <<6>>)}
        Disks == {NoFiles, (<<"out", "d", "f">> :> <<"#--START--#", "u", "#--END--#">>),
                  (<<"out", "p">> :> <<"u">>)}
    IN  {[Program(<<o, Writes("f", <<6>>), i, Writes("g", <<6>>), l, Says(<<"b", "$v">>)>>, <<1, 2>>)
            EXCEPT !.disk = d] : o \in Outer, i \in Inner, l \in Leaf, d \in Disks}

\* Excludes, dry runs and runs that build nothing.
Options ==
    LET Excl == {{}, Everything, {<<"pr", "d", "f">>}, {<<"d", "f">>}}
    IN  {[Program(<<ProjectIn(<<"p">>, <<2, 5, 6>>), Is("Folder", <<"d">>, <<3>>),
                    [Writes("f", <<4>>) EXCEPT !.exclude = x], Says(<<"b">>),
                    [Edits("f", <<4>>) EXCEPT !.exclude = x],
                    [Copies("fr", <<"f">>) EXCEPT !.exclude = x]>>, <<1, 5>>)
            EXCEPT !.disk = d, !.build = b, !.dry = y] :
          x \in Excl, b \in BOOLEAN, y \in BOOLEAN,
          d \in {NoFiles, (<<"out", "p", "d", "f">> :> <<"u">>) @@ (<<"out", "f">> :> <<"u">>)
                          @@ (<<"out", "p", "f">> :> <<"u">>)}}

\* Fragments: which children, which markers in the source.
Fragments ==
    LET Sources == {<<"a", "<[SLOT:s]>", "$v", "<[SLOT]>", "<[SLOT:s]>">>,
                    <<"<[SLOT]>", "#Hand", "<[SLOT:t]>", "nl", "<[SLOT]>">>,
                    <<"<[SLOT:]>", "<[SLOT:s]>", "nl">>}
        Kids == {<<>>, <<3>>, <<3, 5>>, <<3, 4, 5>>, <<6, 3>>, <<7>>, <<3, 8>>, <<9, 3>>}
        Kid5 == {Says(<<"c", "nl">>), Copies("fr", <<>>), Copies("no", <<>>), From("fr", <<>>), From("no", <<>>),
                 Lists(<<"1", "2">>, <<10>>), Writes("h", <<10>>),
                 [Edits("g", <<10>>) EXCEPT !.markers = <<"<">>]}
    IN  {[Program(<<Writes("g", <<2>>),
                    [From("src", k) EXCEPT !.hand = <<10>>, !.indent = n],
                    Is("Slot", <<"s">>, <<10, 5>>), Is("Slot", <<"t">>, <<3>>), m,
                    Is("Cmp", <<>>, <<10>>), Is("Slot", <<>>, <<10>>),
                    Edits("g", <<10>>), From("fr", <<>>), Says(<<"{item}", "$v">>)>>, <<1>>)
            EXCEPT !.vol = @ @@ ("src" :> AFile(s, FALSE))] :
          s \in Sources, k \in Kids, m \in Kid5, n \in BOOLEAN}

\* Copies of a directory: links to a sibling, to an ancestor, to nothing.
Directories ==
    LET Names == {<<"e", "l", "x~">>, <<"e", "x">>, <<"l", "e">>}
        Link == {"D", "E", "F", "no", "top"}
        Excl == {{}, {<<"e">>}, {<<"e", "m">>}}
    IN  {[Program(<<Is("Folder", <<"d">>, <<2, 3>>),
                    [Copies("top", k[1]) EXCEPT !.exclude = x], Writes("g", <<>>)>>, <<1>>)
            EXCEPT !.disk = k[2], !.dry = (k[1] = <<"c">> /\ x = {<<"e">>}),
            !.vol = ("top" :> ADir(t, ("e" :> "E") @@ ("l" :> l) @@ ("x" :> "F") @@ ("x~" :> "F")))
               @@ ("E" :> ADir(<<"m", "n">>, ("m" :> m) @@ ("n" :> "F")))
               @@ ("D" :> ADir(<<"m">>, "m" :> "E"))
               @@ ("F" :> AFile(<<"$v">>, m = "D"))] :
          t \in Names, l \in Link, m \in Link, x \in Excl,
          k \in {<<<<>>, NoFiles>>, <<<<"c">>, NoFiles>>,
                 <<<<>>, (<<"out", "d", "e">> :> <<"u">>)>>}}
        \cup {Program(<<[Copies("fr", n) EXCEPT !.exclude = x], Writes("a", <<1>>)>>, <<2>>) :
               n \in {<<>>, <<"k">>, <<"a">>, <<"..">>, <<"a", "b">>},
               x \in {{}, Everything, {<<"fr">>}}}

\* Inject: targets with no, one or two pairs and strays.
Injects ==
    LET Targets == {<<"a">>, <<"<", "a", ">", "b">>, <<">", "<", "a", "<", "b", ">", ">", "c">>,
                    <<"<", ">", "a", "<", "b", ">">>, <<"a", "<", "b">>}
    IN  {[Program(<<Writes("g", <<3>>), [Edits("g", <<4, 5>>) EXCEPT !.markers = m], Says(t),
                    Says(<<"n">>), [Edits("f", <<>>) EXCEPT !.markers = <<"<", ">">>]>>, o)
            EXCEPT !.disk = d] :
          t \in Targets, m \in {<<>>, <<"<", ">">>, <<"<">>}, o \in {<<1, 2>>, <<2, 1>>, <<1, 2, 2>>},
          d \in {NoFiles, (<<"out", "g">> :> <<"<", "<", ">">>) @@ (<<"out", "f">> :> <<"<", ">">>)}}

\* The same in a dry run, where the file that a File writes is not there yet.
DryInjects ==
    {[p EXCEPT !.dry = TRUE, !.disk = <<"out", "f">> :> <<"<", ">">>] : p \in Injects}

\* Lists, raw texts and trees that do not read.
ListPrograms ==
    {[Program(<<Writes("g", <<2>>),
                [Lists(i, <<3, 4, 5>>) EXCEPT !.line = n, !.indent = d],
                [Says(<<"{item}", "$v">>) EXCEPT !.raw = w],
                Is("Folder", <<"d">>, <<3>>), [From("it", <<3>>) EXCEPT !.fault = f]>>, <<1>>)
        EXCEPT !.raw = r,
               !.vol = @ @@ ("it" :> AFile(<<"{item}", "nl", "<[SLOT]>">>, FALSE))] :
      i \in {<<>>, <<"1">>, <<"1", "2">>}, n \in BOOLEAN, d \in BOOLEAN, r \in BOOLEAN,
      w \in {"unset", "yes", "no"}, f \in BOOLEAN}
    \cup {Program(<<[Says(<<"a">>) EXCEPT !.cmp = "Line"], ProjectIn(<<"..">>, <<1>>)>>, t) :
            t \in {<<>>, <<1>>, <<2>>}}
    \cup {Program(<<[Says(<<"a">>) EXCEPT !.cmp = "Line"]>>, t) : t \in {<<>>, <<1>>}}

MCPrograms == Nests \cup Options \cup Fragments \cup Directories \cup Injects \cup DryInjects
              \cup ListPrograms
=============================================================================
