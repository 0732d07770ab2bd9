-------------------------------- MODULE Runs --------------------------------
(***************************************************************************)
(* The calls of one Jostraca instance (go/jostraca.go, go/check.go):       *)
(* several Generates and Checks at once, each with options of its own over *)
(* those of the instance, over the host's file system, a provider of the   *)
(* caller or volumes in memory.                                            *)
(*                                                                         *)
(* A Check is a Generate over a shadow: it reads memory below the checked  *)
(* folder and the base elsewhere, it writes memory only, and its output is *)
(* then compared with the folder.  A file is written beside its target,    *)
(* given a mode and renamed, and every such step can meet another call's.  *)
(***************************************************************************)
EXTENDS Shared, MemFS

CONSTANTS
    Runs,      \* the calls
    Scenarios, \* instance options, calls, and the files there are
    Injected,  \* what Inject makes of each text that has the markers
    Root,      \* the output folder
    Meta,      \* the bookkeeping folder below it
    Undeclared \* the mode of a File that states none

VARIABLES
    inst,    \* the options of the instance
    calls,   \* the options and the components of each call
    vols,    \* the volumes
    run      \* the progress of each call

vars == <<inst, calls, vols, run, sharedVars>>

\* The volumes that outlive a call: the host's, the caller's provider, and
\* the volume of an instance in memory.
Lasting == {"os", "given", "shared"}

ASSUME RunsAssumption == Runs \cap Lasting = {}

\* A component renders one thing after another, and puts out one file or
\* folder after another.
ASSUME ScenariosAssumption ==
    \A s \in Scenarios : \A r \in Runs :
        LET call == s.calls[r]
        IN  /\ call.render \in Seq(ToSet(call.render))
            /\ call.ops \in Seq(ToSet(call.ops))

\* No path of a scenario ends in the name of a call, which only its temp
\* file does, and a provider is one there is.
Named(path) == path \in Seq(ToSet(path)) /\ path # <<>> /\ Last(path) \notin Runs

ASSUME PathsAssumption ==
    /\ Root \in Seq(ToSet(Root)) /\ Meta \in Seq(ToSet(Meta))
    /\ Runs \cap {"log", "generated"} = {}
    /\ \A s \in Scenarios :
          /\ s.inst.fs \in {"none", "os", "given"}
          /\ \A path \in DOMAIN s.inst.vol : Named(path)
          /\ \A v \in {"os", "given"} :
                DOMAIN s.disks[v] = {"files", "dirs"} /\ \A path \in DOMAIN s.disks[v].files : Named(path)
          /\ \A r \in Runs :
                LET call == s.calls[r]
                IN  /\ call.fs \in {"none", "os", "given"}
                    /\ \A path \in DOMAIN call.vol : Named(path)
                    /\ \A k \in DOMAIN call.ops :
                          /\ DOMAIN call.ops[k] = {"act", "path", "text", "mode"}
                          /\ Named(call.ops[k].path)

Ended == {"done", "failed"}

\* The options in force: those of the call over those of the instance, flag
\* by flag.  A flag of Control that the instance sets stays set.
Merged(r) ==
    LET c == calls[r]
    IN  [mem   |-> IF c.mem = "unset" THEN inst.mem ELSE c.mem = "on",
         vol   |-> IF c.own THEN Over(c.vol, inst.vol) ELSE inst.vol,
         fs    |-> IF c.fs # "none" THEN c.fs ELSE inst.fs,
         dry   |-> inst.dry \/ c.dry,
         nodup |-> inst.nodup \/ c.nodup,
         build |-> IF c.build = "unset" THEN inst.build ELSE c.build = "on"]

IsCheck(r) == calls[r].kind = "check"

\* What a Check forces, whatever either level says.
Opts(r) ==
    IF IsCheck(r) THEN [Merged(r) EXCEPT !.dry = FALSE, !.nodup = TRUE, !.build = TRUE]
    ELSE Merged(r)

\* The file system that holds the tree a Check compares with.
Base(r) == IF Merged(r).fs = "none" THEN "os" ELSE Merged(r).fs

\* Fault: a Vol of the call does not make a volume of its own.
OwnVolume_Shared(r) == ~inst.mem

\* A call in memory shares the volume of the instance, unless it brings
\* files of its own.
OwnVolume(r) == calls[r].own \/ ~inst.mem

\* Where the writes of a call go.  A Check writes its shadow, also what is
\* meant for a place outside the folder.
Target(r) ==
    IF IsCheck(r) THEN r
    ELSE IF calls[r].fs # "none" THEN calls[r].fs
    ELSE IF Merged(r).mem THEN IF OwnVolume(r) THEN r ELSE "shared"
    ELSE Base(r)

Under(path) == path = Root \/ IsBelow(path, Root)

\* Where a call reads a path.
Source(r, path) == IF IsCheck(r) /\ ~Under(path) THEN Base(r) ELSE Target(r)

\* Fault: a Check writes outside the folder where it reads.
Sink_Source(r, path) == Source(r, path)

Sink(r, path) == Target(r)

There(r, path) == Has(vols[Source(r, path)], path)

FileAt(r, path) == HasFile(vols[Source(r, path)], path)

TextAt(r, path) == vols[Source(r, path)].files[path].text

\* Providers on a disk keep modes; the shadow reports that of any volume.
Keeps(name) == name \in {"os", "given"}

StatMode(r, path) ==
    IF Keeps(Source(r, path)) THEN vols[Source(r, path)].files[path].mode ELSE MemMode

\* A call before it begins; only a few fields are read before that.
Idle == [pc |-> "idle", render |-> <<>>, todo |-> <<>>, saved |-> {}, modes |-> <<>>,
         warnings |-> <<>>, log |-> <<>>, answers |-> <<>>, left |-> {}, drift |-> {},
         since |-> {}, before |-> NoVolume]

Here(r, pc) == run[r].pc = pc

\* The call goes on, with some of its fields changed.
Goes(r, next) == run' = [run EXCEPT ![r] = next]

Fail(r) == Goes(r, [run[r] EXCEPT !.pc = "failed"])

Same == UNCHANGED <<inst, calls>>
SameShared == UNCHANGED sharedVars

-----------------------------------------------------------------------------
(* The define phase.                                                       *)

\* The options are merged and the provider is chosen; a volume of the
\* call's own is seeded.
Begin(r) ==
    /\ Here(r, "idle")
    /\ Goes(r, [run[r] EXCEPT
                  !.pc = "define", !.render = calls[r].render,
                  !.since = {s \in Runs : run[s].pc \in Ended}, !.before = vols[Target(r)]])
    /\ vols' = IF Target(r) = r /\ ~IsCheck(r)
               THEN [vols EXCEPT ![r] = Seed(Merged(r).vol)] ELSE vols
    /\ Same /\ SameShared

Rendering(r, what) ==
    /\ Here(r, "define")
    /\ run[r].render # <<>>
    /\ Head(run[r].render).what = what

Answered(r, answer) ==
    [run[r] EXCEPT !.render = Tail(@), !.pc = "define", !.answers = Append(@, answer)]

\* A text is rendered, with the cached expression when there is one.
Render(r) ==
    /\ Rendering(r, "text")
    /\ LET spec == Head(run[r].render)
           entry == Cached(spec)[KeyOf(spec)]
       IN  /\ templates' = Cached(spec)
           /\ Goes(r, [Answered(r, entry) EXCEPT !.pc = IF entry.ok THEN "define" ELSE "failed"])
    /\ UNCHANGED <<vols, tokens, dlog, history, cleared>>
    /\ Same

\* A path into the model: looked up, and stored in a step of its own.
LookUp(r) ==
    /\ Rendering(r, "ref")
    /\ LET path == Head(run[r].render).path
       IN  IF path \in DOMAIN tokens THEN Goes(r, Answered(r, tokens[path]))
           ELSE Goes(r, [run[r] EXCEPT !.pc = "tokenize"])
    /\ UNCHANGED vols /\ Same /\ SameShared

Store(r) ==
    /\ Here(r, "tokenize")
    /\ LET path == Head(run[r].render).path
       IN  /\ tokens' = Stored(Room(tokens, MaxTokens), path, Tokenize(path))
           /\ Goes(r, Answered(r, Tokenize(path)))
    /\ UNCHANGED <<vols, templates, dlog, history, cleared>>
    /\ Same

\* What a build has to do: what the components put out, and the meta log.
Planned(r) ==
    IF Opts(r).build /\ calls[r].ops # <<>>
    THEN Append(calls[r].ops, [act |-> "raw", path |-> Append(Meta, "log"), text |-> "log",
                               mode |-> Undeclared])
    ELSE <<>>

\* The end of the define phase: every source must be there.
Defined(r) ==
    /\ Here(r, "define")
    /\ run[r].render = <<>>
    /\ IF \E path \in calls[r].sources : ~There(r, path) THEN Fail(r)
       ELSE Goes(r, [run[r] EXCEPT !.pc = "build", !.todo = Planned(r)])
    /\ UNCHANGED vols /\ Same /\ SameShared

-----------------------------------------------------------------------------
(* The build phase: one output operation after another.                    *)

Building(r, act) ==
    /\ Here(r, "build")
    /\ run[r].todo # <<>>
    /\ Head(run[r].todo).act = act

Rest(r) == Tail(run[r].todo)

\* A warning goes to the package log and to the call.
Warn(r, next, entry) ==
    /\ Goes(r, [next EXCEPT !.warnings = Append(@, entry)])
    /\ Record(entry)
    /\ UNCHANGED <<templates, tokens>>

Folder(r) ==
    /\ Building(r, "folder")
    /\ LET path == Head(run[r].todo).path
       IN  vols' = IF Opts(r).dry THEN vols
                   ELSE [vols EXCEPT ![Sink(r, path)] = MkdirAll(@, path)]
    /\ Goes(r, [run[r] EXCEPT !.todo = Tail(@)])
    /\ Same /\ SameShared

\* Inject reads its target, and saves what it makes of it.
Inject(r) ==
    /\ Building(r, "inject")
    /\ LET op == Head(run[r].todo)
           save(text) == [run[r] EXCEPT !.todo = <<[op EXCEPT !.act = "file", !.text = text]>> \o Rest(r)]
       IN  \/ /\ ~FileAt(r, op.path)
              /\ Fail(r) /\ SameShared
           \/ /\ FileAt(r, op.path) /\ TextAt(r, op.path) \in DOMAIN Injected
              /\ Goes(r, save(Injected[TextAt(r, op.path)])) /\ SameShared
           \/ /\ FileAt(r, op.path) /\ TextAt(r, op.path) \notin DOMAIN Injected
              /\ Warn(r, save(TextAt(r, op.path)), [by |-> r, at |-> op.path, why |-> "no markers"])
    /\ UNCHANGED vols /\ Same

\* After a save, the baseline of the file, unless it is not kept.
Baseline(r, op) ==
    IF Opts(r).nodup \/ ~Under(op.path) THEN <<>>
    ELSE <<[op EXCEPT !.act = "raw", !.mode = Undeclared,
                      !.path = Meta \o <<"generated">> \o SubSeq(@, Len(Root) + 1, Len(@))]>>

Unchanged(r, op) == FileAt(r, op.path) /\ TextAt(r, op.path) = op.text

\* A file that holds the text already takes a declared mode all the same.
Modes(r, path, mode) ==
    IF Opts(r).dry \/ mode = Undeclared THEN vols
    ELSE IF Keeps(Target(r)) THEN [vols EXCEPT ![Target(r)] = Chmod(@, path, mode)]
    ELSE vols

\* Fault: the shadow does not hear of modes.
Noted_Never(r, modes, path, mode) == modes

\* The mode that a Check has seen declared for a path.
Noted(r, modes, path, mode) ==
    IF IsCheck(r) /\ mode # Undeclared THEN Put(modes, path, mode) ELSE modes

Differs(r, path, mode) == mode # Undeclared /\ StatMode(r, path) # mode

\* The save of a text: what is there decides.
Save(r) ==
    /\ Building(r, "file")
    /\ LET op == Head(run[r].todo)
           begun == [run[r] EXCEPT !.saved = @ \cup {op.path}]
           next == IF Unchanged(r, op)
                   THEN [begun EXCEPT !.todo = Baseline(r, op) \o Rest(r),
                           !.modes = IF Differs(r, op.path, op.mode)
                                     THEN Noted(r, @, op.path, op.mode) ELSE @]
                   ELSE IF Opts(r).dry THEN [begun EXCEPT !.todo = Rest(r)]
                   ELSE [begun EXCEPT !.pc = "write"]
       IN  /\ IF op.path \in run[r].saved
              THEN Warn(r, next, [by |-> r, at |-> op.path, why |-> "saved again"])
              ELSE Goes(r, next) /\ SameShared
           /\ vols' = IF Unchanged(r, op) /\ Differs(r, op.path, op.mode)
                      THEN Modes(r, op.path, op.mode) ELSE vols
    /\ Same

\* A baseline or the meta log, written as it is.
SaveRaw(r) ==
    /\ Building(r, "raw")
    /\ Goes(r, IF Opts(r).dry THEN [run[r] EXCEPT !.todo = Tail(@)]
               ELSE [run[r] EXCEPT !.pc = "write"])
    /\ UNCHANGED vols /\ Same /\ SameShared

Writing(r) == Head(run[r].todo)

\* The temp file of a call beside its target.
TempOf(r, path) == Append(Front(path), r)

Write(r) ==
    /\ Here(r, "write")
    /\ LET temp == TempOf(r, Writing(r).path)
       IN  vols' = [vols EXCEPT ![Sink(r, temp)] =
                      WriteFile(@, temp, File(Writing(r).text, DefaultMode))]
    /\ Goes(r, [run[r] EXCEPT !.pc = "mode"])
    /\ Same /\ SameShared

\* The mode a temp file is given: the declared one, else that of the file
\* it is about to replace.
ModeFor(r) ==
    IF Writing(r).mode # Undeclared THEN Writing(r).mode
    ELSE IF FileAt(r, Writing(r).path) THEN StatMode(r, Writing(r).path)
    ELSE Undeclared

SetMode(r) ==
    /\ Here(r, "mode")
    /\ LET temp == TempOf(r, Writing(r).path)
       IN  /\ vols' = Modes(r, temp, ModeFor(r))
           /\ Goes(r, [run[r] EXCEPT !.pc = "rename", !.modes = Noted(r, @, temp, ModeFor(r))])
    /\ Same /\ SameShared

\* A mode goes with its file when the file is renamed.
Carried(modes, from, to) ==
    IF from \in DOMAIN modes
    THEN Put([p \in DOMAIN modes \ {from} |-> modes[p]], to, modes[from])
    ELSE modes

Publish(r) ==
    /\ Here(r, "rename")
    /\ LET op == Writing(r)
           temp == TempOf(r, op.path)
       IN  /\ vols' = [vols EXCEPT ![Sink(r, temp)] = Rename(@, temp, op.path)]
           /\ Goes(r, [run[r] EXCEPT
                         !.pc = "build", !.modes = Carried(@, temp, op.path),
                         !.todo = (IF op.act = "file" THEN Baseline(r, op) ELSE <<>>) \o Rest(r)])
    /\ Same /\ SameShared

-----------------------------------------------------------------------------
(* The end of a call.                                                      *)

\* The output of a Check, without the bookkeeping.
Output(r) == {p \in DOMAIN vols[r].files : IsBelow(p, Root) /\ ~IsBelow(p, Meta)}

\* Fault: the warnings of everyone are replayed.
Replayed_All(r) == dlog

Replayed(r) == run[r].warnings

\* A call that succeeded replays its warnings to its log.
Finish(r) ==
    /\ Here(r, "build")
    /\ run[r].todo = <<>>
    /\ Goes(r, [run[r] EXCEPT !.log = Replayed(r),
                  !.pc = IF IsCheck(r) THEN "compare" ELSE "done",
                  !.left = IF IsCheck(r) THEN Output(r) ELSE {}])
    /\ UNCHANGED vols /\ Same /\ SameShared

\* How one generated file differs from the folder.
Difference(r, path) ==
    LET base == vols[Base(r)]
    IN  IF ~HasFile(base, path) THEN {[at |-> path, how |-> "missing"]}
        ELSE IF base.files[path].text # vols[r].files[path].text
        THEN {[at |-> path, how |-> "content"]}
        ELSE IF path \in DOMAIN run[r].modes /\ base.files[path].mode # run[r].modes[path]
        THEN {[at |-> path, how |-> "mode"]}
        ELSE {}

\* One file after another; the folder may change in between.
Compare(r) ==
    /\ Here(r, "compare")
    /\ IF run[r].left = {} THEN Goes(r, [run[r] EXCEPT !.pc = "done"])
       ELSE LET path == CHOOSE p \in run[r].left : TRUE
            IN  Goes(r, [run[r] EXCEPT !.left = @ \ {path},
                                       !.drift = @ \cup Difference(r, path)])
    /\ UNCHANGED vols /\ Same /\ SameShared

-----------------------------------------------------------------------------

Init ==
    /\ \E s \in Scenarios :
         /\ inst = s.inst
         /\ calls = s.calls
         /\ vols = [v \in Lasting \cup Runs |->
                      IF v \in {"os", "given"} THEN s.disks[v]
                      ELSE IF v = "shared" /\ s.inst.mem THEN Seed(s.inst.vol)
                      ELSE NoVolume]
    /\ run = [r \in Runs |-> Idle]
    /\ SharedInit

Step(r) ==
    \/ Begin(r) \/ Render(r) \/ LookUp(r) \/ Store(r) \/ Defined(r)
    \/ Folder(r) \/ Inject(r) \/ Save(r) \/ SaveRaw(r)
    \/ Write(r) \/ SetMode(r) \/ Publish(r)
    \/ Finish(r) \/ Compare(r)

\* A caller empties the package log, once.
Snapshot ==
    /\ cleared = 0
    /\ ClearLog
    /\ UNCHANGED <<inst, calls, vols, run>>

Next == (\E r \in Runs : Step(r)) \/ Snapshot

Spec == Init /\ [][Next]_vars

-----------------------------------------------------------------------------

\* The caches and the log stay within their limits, whoever fills them at
\* once, and a temp file is there only between its creation and its rename
\* (getCachedTemplateRE, go/template.go:527; getxTokenize, go/getx.go:182;
\* writeAtomicMode, go/filehandler.go:1000).
TypeOK ==
    /\ \A r \in Runs : run[r].pc \in {"idle", "define", "tokenize", "build", "write", "mode",
                                      "rename", "compare"} \cup Ended
    /\ Cardinality(DOMAIN templates) <= MaxTemplates
    /\ Cardinality(DOMAIN tokens) <= MaxTokens
    /\ Len(dlog) <= DLogMax
    /\ \A r \in Runs, v \in DOMAIN vols :
          (\E p \in DOMAIN vols[v].files : Last(p) = r)
             <=> run[r].pc \in {"mode", "rename"} /\ v = Target(r)

\* Whatever the process has cached by then, a call gets what rendering its
\* text, or tokenizing its path, gives by itself (Template,
\* go/template.go:138).
AnswersAreComputed ==
    \A r \in Runs : \A k \in DOMAIN run[r].answers :
        LET item == calls[r].render[k]
        IN  run[r].answers[k] = IF item.what = "text" THEN Compile(item) ELSE Tokenize(item.path)

\* The entries of a history that are of a call, and the place of one among
\* them.
EntriesOf(h, r) == {i \in DOMAIN h : h[i].by = r}

Place(h, r, i) == Cardinality({j \in EntriesOf(h, r) : j <= i})

\* All that a call has recorded, in order, and nothing else.
IsOwnOf(log, h, r) ==
    /\ Len(log) = Cardinality(EntriesOf(h, r))
    /\ \A i \in EntriesOf(h, r) : log[Place(h, r, i)] = h[i]

\* A call that succeeded has replayed the warnings it raised, all of them,
\* in order and no other call's, even with the log cleared under it; one
\* that failed replays nothing (replayWarnings, go/jostraca.go:114).
WarningsAreOwn ==
    \A r \in Runs :
        IF run[r].pc \in {"done", "compare"} THEN IsOwnOf(run[r].log, history, r)
        ELSE run[r].log = <<>>

\* A Check changes nothing that outlives it: no file of the host, of the
\* caller's provider or of the volume of the instance (shadowFS,
\* go/check.go:180).
CheckChangesNothing ==
    [][\A r \in Runs : IsCheck(r) /\ Step(r) =>
          \A v \in Lasting : vols'[v] = vols[v]]_vars

\* What one operation makes of a volume when nothing else happens to it.  An
\* Inject that finds no target fails its call.
After(v, op) ==
    LET found == HasFile(v, op.path) /\ v.files[op.path].text \in DOMAIN Injected
    IN  CASE op.act = "folder" -> MkdirAll(v, op.path)
          [] op.act = "inject" /\ found ->
                 WriteFile(v, op.path, File(Injected[v.files[op.path].text], MemMode))
          [] op.act = "inject" /\ ~found -> v
          [] OTHER -> WriteFile(v, op.path, File(op.text, MemMode))

\* And all of them, one after the other.
Made(v, ops) ==
    LET made[k \in 0..Len(ops)] == IF k = 0 THEN v ELSE After(made[k - 1], ops[k])
    IN  made[Len(ops)]

\* What a volume holds, the bookkeeping left out.
Apart(v) == LET all == Vol(v) IN [p \in {q \in DOMAIN all : ~IsBelow(q, Meta)} |-> all[p]]

InMemory(r) == ~IsCheck(r) /\ calls[r].fs = "none" /\ Merged(r).mem

\* A call that brings its own files in memory ends with a volume of exactly
\* those, over the instance's, and its output, bookkeeping aside and whatever
\* other calls do at the time; and the volume of the instance never holds
\* output of such a call (go/jostraca.go:219).
OwnVolumeHoldsItsRun ==
    \A r \in Runs : InMemory(r) /\ calls[r].own =>
        /\ run[r].pc = "done" /\ ~Opts(r).dry =>
              Apart(vols[r]) = Apart(Made(Seed(Merged(r).vol), Planned(r)))
        /\ \A p \in DOMAIN vols["shared"].files : IsBelow(p, Meta) \/
              \/ p \in DOMAIN inst.vol
              \/ \E s \in Runs : ~calls[s].own /\
                    (Last(p) = s \/ \E k \in DOMAIN calls[s].ops : calls[s].ops[k].path = p)

\* Two calls with the same components and options, one after the other and
\* with nothing else at the time.
Follows(first, then) ==
    /\ run[first].pc = "done" /\ run[then].pc = "done"
    /\ first \in run[then].since
    /\ \A r \in Runs \ {first, then} : run[r].pc = "idle"
    /\ calls[first].ops = calls[then].ops /\ calls[first].fs = calls[then].fs

Writes(g) == ~IsCheck(g) /\ Opts(g).build /\ ~Opts(g).dry

Shown(v) == [p \in {q \in DOMAIN v.files : Under(q) /\ ~IsBelow(q, Meta)} |-> v.files[p]]

Changed(v, w) ==
    {p \in DOMAIN Shown(v) \cup DOMAIN Shown(w) :
        ~(p \in DOMAIN Shown(v) \cap DOMAIN Shown(w) /\ v.files[p] = w.files[p])}

\* A Check says what a Generate would change: the files it lists are those
\* that the same Generate, run next, adds or changes in text or mode; and
\* run after the Generate it lists none (Check, go/check.go:259).
CheckForetellsGenerate ==
    \A c, g \in Runs :
        IsCheck(c) /\ Writes(g) /\ Target(g) = Base(c) =>
            /\ Follows(c, g) =>
                  {d.at : d \in run[c].drift} = Changed(run[g].before, vols[Target(g)])
            /\ Follows(g, c) => run[c].drift = {}

\* Chmod of the shadow says "A File that states NO mode does not reach here"
\* and "nothing is declared. That is what keeps a silent File held to
\* nothing" (go/check.go:208): a Check reports the mode of a file only when a
\* component stated one.
SilentFileIsHeldToNothing ==
    \A c \in Runs : \A d \in run[c].drift :
        d.how = "mode" =>
            \E k \in DOMAIN calls[c].ops :
                calls[c].ops[k].path = d.at /\ calls[c].ops[k].mode # Undeclared
=============================================================================
