------------------------------- MODULE MCRuns -------------------------------
(***************************************************************************)
(* Two calls of one instance: pairs of Generate and Check over every kind  *)
(* of provider, over volumes in memory, with warnings, and with templates  *)
(* that fill the caches.                                                   *)
(***************************************************************************)
EXTENDS Runs

CONSTANTS r1, r2

F == <<"out", "f">>
G == <<"out", "d", "g">>
X == <<"else", "x">>
MCRoot == <<"out">>
MCMeta == <<"out", ".jostraca">>
MCInjected == ("marked" :> "injected") @@ ("injected" :> "injected")
MCUnsupported == {<<"(?=">>}

Disks(os, given) == ("os" :> os) @@ ("given" :> given)
Holds(path, text, mode) == WriteFile(NoVolume, path, File(text, mode))

Instance == [mem |-> FALSE, vol |-> <<>>, fs |-> "none", dry |-> FALSE, nodup |-> FALSE,
             build |-> TRUE]

Call(kind, ops) ==
    [kind |-> kind, mem |-> "unset", own |-> FALSE, vol |-> <<>>, fs |-> "none", dry |-> FALSE,
     nodup |-> FALSE, build |-> "unset", render |-> <<>>, sources |-> {}, ops |-> ops]

Writes2(path, text, mode) == [act |-> "file", path |-> path, text |-> text, mode |-> mode]
Silent(path, text) == Writes2(path, text, "silent")
Makes(path) == [act |-> "folder", path |-> path, text |-> "", mode |-> "silent"]
Edits(path) == [act |-> "inject", path |-> path, text |-> "", mode |-> "silent"]

Pair(a, b) == (r1 :> a) @@ (r2 :> b)

\* A Generate and a Check of the same components over one folder.
Checks ==
    LET Ops == {<<Silent(F, "a")>>, <<Writes2(F, "a", "0755")>>, <<Silent(X, "a"), Makes(<<"out", "e">>)>>,
                <<Silent(F, "a"), Writes2(G, "b", "0755")>>}
        Files == {NoVolume, Holds(F, "a", "0755"), Holds(F, "a", "0644"), Holds(F, "b", "0755"),
                  Holds(X, "a", "0600")}
        At == {[inst |-> [Instance EXCEPT !.fs = n[1], !.dry = n[3], !.build = n[4]], fs |-> n[2]] :
                 n \in {<<"none", "none", FALSE, TRUE>>, <<"none", "given", FALSE, FALSE>>,
                        <<"given", "none", FALSE, TRUE>>, <<"given", "os", TRUE, TRUE>>}}
    IN  {[inst |-> a.inst, disks |-> Disks(f, f),
          calls |-> Pair([Call("generate", o) EXCEPT !.fs = a.fs, !.nodup = TRUE, !.sources = s],
                         [Call("check", o) EXCEPT !.fs = a.fs, !.sources = s])] :
            a \in At, f \in Files, o \in Ops, s \in {{}, {X}, {F}}}

\* Calls in memory, some with files of their own.
Volumes ==
    LET Ops == {<<Silent(F, "a"), Edits(G)>>, <<Silent(F, "b"), Makes(<<"out", "e">>)>>, <<Edits(F)>>}
        Own == {<<"unset", FALSE, <<>>>>, <<"unset", TRUE, (F :> "u") @@ (<<"out", "z">> :> "empty")>>,
                <<"off", FALSE, <<>>>>, <<"on", TRUE, G :> "marked">>}
        With(o, w, k) == [Call(k, o) EXCEPT !.mem = w[1], !.own = w[2], !.vol = w[3]]
    IN  {[inst |-> [Instance EXCEPT !.mem = m, !.vol = G :> "u", !.nodup = m],
          disks |-> Disks(NoVolume, NoVolume),
          calls |-> Pair(With(o, w, "generate"), With(p, x, k))] :
            m \in BOOLEAN, o \in Ops, p \in Ops, w \in Own, x \in Own, k \in {"generate", "check"}}

\* Warnings of two calls, and the log cleared between them.
Warned ==
    LET Ops == {<<Silent(F, "a"), Silent(F, "a"), Silent(F, "b"), Edits(F)>>,
                <<Silent(F, "a"), Edits(F), Edits(X)>>}
    IN  {[inst |-> [Instance EXCEPT !.mem = TRUE, !.nodup = TRUE, !.dry = y],
          disks |-> Disks(NoVolume, NoVolume),
          calls |-> Pair(Call("generate", o), Call("generate", p))] :
            o \in Ops, p \in Ops, y \in BOOLEAN}

\* Templates and model paths of two calls.
Text(open, ref, keys) == [what |-> "text", open |-> open, ref |-> ref, keys |-> keys]
Ref(path) == [what |-> "ref", path |-> path]
D == <<"$", "$">>

Rendered(specs) ==
    {[inst |-> [Instance EXCEPT !.build = FALSE], disks |-> Disks(NoVolume, NoVolume),
      calls |-> Pair([Call("generate", <<>>) EXCEPT !.render = p],
                     [Call("generate", <<>>) EXCEPT !.render = q])] :
        p \in specs \X specs \X specs, q \in {<<s>> : s \in specs}}

Templates ==
    Rendered({Text(D, <<"[^$]">>, {}), Text(D, <<"w">>, {}), Text(D, <<"w">>, {<<"k">>, <<"l">>}),
              Text(<<"{">>, <<"w">>, {<<"k">>}), Text(D, <<"w">>, {<<"(?=">>})})
    \cup Rendered({Ref("a.b"), Ref("c"), Ref("d")})

MCScenarios == Checks \cup Volumes \cup Warned \cup Templates

\* A File and an Inject into it, checked.
Injects ==
    {[inst |-> Instance, disks |-> Disks(NoVolume, NoVolume),
      calls |-> Pair(Call("generate", <<Silent(F, "marked"), Edits(F)>>),
                     Call("check", <<Silent(F, "marked"), Edits(F)>>))]}

\* A template with no keys and one whose only key is empty.
EmptyKeys == Rendered({Text(D, <<"w">>, {}), Text(D, <<"w">>, {<<>>}), Text(D, <<"w">>, {<<"k">>})})
=============================================================================
