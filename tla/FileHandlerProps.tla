-------------------------- MODULE FileHandlerProps --------------------------
(***************************************************************************)
(* What the file handler must guarantee (module FileHandler), as           *)
(* invariants and action properties.                                       *)
(***************************************************************************)
EXTENDS FileHandler

TypeOK ==
    /\ disk \in [Paths -> File] /\ old \in [Paths -> File]
    /\ fresh \in [Paths -> File] /\ base \in [Paths -> File]
    /\ log \in [Paths -> Seq(Text)] /\ prev \in [Paths -> Seq(Text)]
    /\ next \in [Paths -> Seq(Text)]
    /\ \A p \in Paths : /\ Len(log[p]) <= History
                        /\ Len(prev[p]) <= History /\ Len(next[p]) <= History
    /\ pc \in {"idle", "walk"} \cup SaveSteps
    /\ job \in Jobs \cup {NoJob}
    /\ pc \in SaveSteps => job \in Jobs
    /\ pc \in SaveSteps \ {"write", "duplicate"} => job.existing \in Text
    /\ opt \in Options
    /\ saved \subseteq Paths /\ again \subseteq saved
    /\ files \in [Kinds -> SUBSET Paths]
    /\ failures \subseteq Paths \X Reasons
    /\ outcome \in {"none", "ok", "conflicts", "error", "crash"}
    /\ runs \in 0..MaxRuns /\ saves \in 0..MaxSaves /\ events \in 0..MaxEvents
    /\ before \in [disk : [Paths -> File], base : [Paths -> File]]
    /\ landings \in [Paths -> SUBSET (Text \X Text)]
    /\ adopted \in [Paths -> SUBSET GenLines]

-----------------------------------------------------------------------------

Running == pc # "idle"
Ended   == outcome \in {"ok", "conflicts"}
MergeRun == opt.merge /\ ~opt.diff

\* The lines of a kind a file holds in a region; an absent file holds none.
Held(f, r, kind) == IF f = NoFile THEN {} ELSE f[r] \cap kind

Marked(f) == f # NoFile /\ HasConflicts(f)

\* A merge run never takes a line of the user's out of a file, in any region,
\* whatever crashes, checkouts and clones came before; the one exception is a
\* file with nothing to merge against, and the run lists it in
\* files.unmerged (saveAs, saveMerge; reference-options.md "Merge needs a
\* baseline").
UserLinesKept ==
    \A p \in Paths, r \in Regions :
        \/ Held(disk[p], r, UserLines) \subseteq Held(disk'[p], r, UserLines)
        \/ p \in files.unmerged

MergeKeepsUserLines == [][Running /\ MergeRun => UserLinesKept]_vars

\* Why it does: what the handler remembers of a file, its baseline and its
\* fingerprints, is only ever text a generator wrote (writeDuplicate and
\* withFingerprint are given the content, not the file); a save decides on
\* the bytes the file still has; and a merge run overwrites an existing file
\* only after it has listed it as unmerged. With an Inject in the run the
\* first part fails: what it saves is made from the file.
RememberedAreGenerates ==
    /\ \A p \in Paths : /\ base[p] \in Generates \cup {NoFile}
                        /\ Range(log[p]) \subseteq Generates
                        /\ Range(prev[p]) \subseteq Generates
                        /\ Range(next[p]) \subseteq Generates
    /\ pc \in SaveSteps => job.content \in Generates

SaveSeesTheFile ==
    pc \in SaveSteps \ {"duplicate"} => job.existing = disk[job.path]

OverwriteIsListed ==
    pc = "write" /\ MergeRun /\ job.existing # NoFile /\ job.write
        => job.path \in files.unmerged

MergeInv == RememberedAreGenerates /\ SaveSeesTheFile /\ OverwriteIsListed

\* A baseline, and every fingerprint, is a generate that landed in the file:
\* the baseline never runs ahead of the file (explanation.md, "Existing
\* files, and the merge base").
Landed(p) == {made[1] : made \in landings[p]}

BaseNeverAhead ==
    \A p \in Paths : /\ base[p] # NoFile => base[p] \in Landed(p)
                     /\ Range(log[p]) \subseteq Landed(p)

\* The files a run reports as holding their generate: written, diffed or
\* unchanged, or merged and not left alone.
HoldsGenerate ==
    files.written \cup files.diffed \cup files.unchanged \cup (files.merged \ files.conflicted)

\* What a run that ended says it did with a file is what the file and its
\* baseline are: one landing made both.
BaseFollowsReport ==
    Ended /\ opt.duplicate /\ ~opt.dryrun =>
        \A p \in Paths : p \in HoldsGenerate => <<base[p], disk[p]>> \in landings[p]

\* The meta log a merge run leaves has for each of these files, as the newest
\* fingerprint, that of the generate the file was made from, also when the
\* history is full and when no baseline is kept (withFingerprint, done).
LandedIsRemembered ==
    Ended /\ opt.merge /\ ~opt.dryrun =>
        \A p \in HoldsGenerate :
            log[p] # <<>> /\ <<log[p][Len(log[p])], disk[p]>> \in landings[p]

\* A file the run refused (conflict: 'fail') is as the run found it, with
\* the baseline it had, even when the run saved other files and crashed
\* runs went before.
RefusedKeepsFileAndBase ==
    Ended => \A f \in failures :
        f[1] \notin again => /\ disk[f[1]] = before.disk[f[1]]
                             /\ base[f[1]] = before.base[f[1]]

\* A merge run leaves a file that holds markers as it found it, and its
\* baseline too, however the run ends, unless it lists it as unmerged: no
\* second merge is nested in the first, and the user resolves against the
\* generate the markers came from.
UnresolvedLeftAlone ==
    outcome # "none" /\ MergeRun =>
        \A p \in Paths :
            Marked(before.disk[p]) /\ p \notin files.unmerged
            => disk[p] = before.disk[p] /\ base[p] = before.base[p]

\* An Inject that finds nothing to change saves the file it read, markers and
\* all, and the baseline moves on to it: a later save of the run may then take
\* the file for the generator's own, and replace it.
InjectedOver(p) == Injections # {} /\ p \in again

\* A run that hands out its result lists names every file it changed, and
\* lists as conflicted exactly the files it left holding markers that a
\* merge or a diff put there, a file injected into between two saves aside.
ReportNamesEveryChange ==
    outcome \in {"ok", "conflicts", "error"} /\ ~opt.dryrun =>
        \A p \in Paths :
            /\ disk[p] # before.disk[p] =>
                 p \in files.written \cup files.merged \cup files.diffed
            /\ Marked(disk[p]) /\ ~Marked(before.disk[p]) => p \in files.conflicted
            /\ p \in files.conflicted /\ ~opt.conflictFail =>
                 Marked(disk[p]) \/ InjectedOver(p)

\* A generated line that neither the baseline has nor the user chose to keep
\* is never left in a file without a conflict to show for it: a base that ran
\* ahead of its file would leave such lines (explanation.md). A landing whose
\* baseline was not written, and a checkout, hand their lines to the user.
NoStaleLines ==
    \A p \in Paths :
        pc = "idle" /\ disk[p] # NoFile /\ base[p] # NoFile /\ ~Marked(disk[p]) =>
            \A r \in Regions :
                Held(disk[p], r, GenLines) \subseteq base[p][r] \cup adopted[p]

\* A file that holds JOSTRACA_PROTECT keeps its bytes, and gets no backup,
\* in every mode, at every step of a run.
ProtectedUntouched ==
    [][Running => \A p \in Paths :
         disk[p] # NoFile /\ IsProtected(disk[p]) =>
            disk'[p] = disk[p] /\ old'[p] = old[p]]_vars

\* The .old sidecar of a path the run reports as preserved holds the bytes
\* the run found there.
PreservedHoldsBefore ==
    Ended /\ ~opt.dryrun =>
        \A p \in files.preserved :
            before.disk[p] # NoFile => old[p] = before.disk[p]

\* ... which the code keeps for a path saved once in the run.
PreservedOnceHoldsBefore ==
    Ended /\ ~opt.dryrun =>
        \A p \in files.preserved \ again : old[p] = before.disk[p]

\* The handler implements the promise of module MergeBase. A landing is
\* pending from the step that makes the file hold the generate to the step
\* that moves the baseline; a run that does not merge gives up every path.
Pending == [p \in Paths |->
    IF pc \in SaveSteps /\ job.path = p /\ job.landed /\ ~opt.dryrun
    THEN job.content ELSE NoFile]

Promise == INSTANCE MergeBase WITH
    file <- disk, baseline <- base, landing <- Pending,
    forfeited <- IF MergeRun THEN files.unmerged ELSE Paths

KeepsItsPromise == Promise!Spec
=============================================================================
