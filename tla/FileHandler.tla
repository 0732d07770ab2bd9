---------------------------- MODULE FileHandler ----------------------------
(***************************************************************************)
(* The file handler of the build phase (go/filehandler.go) with the build  *)
(* meta log (go/buildmeta.go): what one run of the generator does to the   *)
(* files of an output folder, and what later runs remember of it.          *)
(*                                                                         *)
(* A run walks the component tree and saves one file after the other. One  *)
(* save is a sequence of steps, cut at every write to the provider, so     *)
(* that a run can stop between any two of them. Between runs the user, a   *)
(* version control checkout or a fresh clone change the folder.            *)
(***************************************************************************)
EXTENDS Contents, Naturals, Sequences, Functions

CONSTANTS
    Paths,        \* the output paths
    NoFile,       \* no file at a path
    Generates,    \* the texts File, Copy and Fragment components produce
    Injections,   \* the bodies Inject components produce
    OptionSets,   \* the options a run may be started with
    Environment,  \* what may happen besides a run that ends well
    History,      \* fingerprintHistory: 8 in the code
    MaxRuns, MaxSaves, MaxEvents   \* bounds of the exploration

Options == [write : BOOLEAN, preserve : BOOLEAN, present : BOOLEAN,
            diff : BOOLEAN, merge : BOOLEAN, conflictFail : BOOLEAN,
            duplicate : BOOLEAN, dryrun : BOOLEAN]

Events == {"edit", "delete", "create", "checkout", "clone", "badlog", "error", "crash"}

ASSUME HandlerAssumption ==
    /\ NoFile \notin Text
    /\ Generates \subseteq [Regions -> SUBSET (GenLines \cup {Protect})]
    /\ Injections \subseteq SUBSET GenLines
    /\ OptionSets \subseteq Options
    /\ Environment \subseteq Events
    /\ History \in Nat \ {0}
    /\ MaxRuns \in Nat /\ MaxSaves \in Nat /\ MaxEvents \in Nat

File == Text \cup {NoFile}

Kinds == {"preserved", "presented", "diffed", "merged", "conflicted",
          "unchanged", "unmerged", "written"}

Reasons == {"conflict", "unresolved", "nobase"}

VARIABLES
    \* the provider
    disk,      \* the file at each path
    old,       \* its .old sidecar
    fresh,     \* its .new sidecar
    base,      \* its merge baseline under .jostraca/generated
    log,       \* its fingerprints in the meta log, newest last
    \* the run
    pc,        \* the next step of the save in progress
    job,       \* the save in progress
    opt,       \* the run's options
    prev,      \* the meta log as the run loaded it
    next,      \* the entries the run will save
    saved,     \* savedPaths
    again,     \* the paths a "duplicate save" warning named
    files,     \* the result lists
    failures,  \* the files a ConflictFail merge left as they were
    outcome,   \* how the last run ended
    \* the bounds
    runs, saves, events,
    \* history, for the properties only
    before,    \* each file and baseline when the run began
    landings,  \* each generate that landed, with the file it made
    adopted    \* the generated lines that have become the user's to keep

provider == <<disk, old, fresh, base, log>>
report   == <<opt, saved, again, files, failures>>
bounds   == <<runs, saves, events>>
vars == <<disk, old, fresh, base, log, pc, job, opt, prev, next, saved, again,
          files, failures, outcome, runs, saves, events, before, landings, adopted>>

NoJob == [path |-> NoFile, content |-> NoFile, existing |-> NoFile,
          write |-> FALSE, landed |-> FALSE]

Jobs == [path : Paths, content : Text, existing : File,
         write : BOOLEAN, landed : BOOLEAN]

SaveSteps == {"preserve", "present", "diff", "merge", "write", "duplicate"}

NoFiles  == [p \in Paths |-> NoFile]
NoTraces == [p \in Paths |-> <<>>]
NoLists  == [k \in Kinds |-> {}]

-----------------------------------------------------------------------------
(* What the steps of a save are made of *)

\* withFingerprint: the fingerprint moved or added to the end. A fingerprint
\* is the text itself: 64 bits of SHA-256 tell a file's few generates apart.
Newest(seq, t) ==
    IF t \in Range(seq)
      THEN LET i == CHOOSE i \in DOMAIN seq : seq[i] = t
           IN  [j \in 1..Len(seq) |-> IF j < i THEN seq[j]
                                      ELSE IF j < Len(seq) THEN seq[j + 1] ELSE t]
      ELSE Append(seq, t)

\* Fault: the history is never cut.
WithFingerprint_Uncut(seq, t) == Newest(seq, t)

\* Fault: the file is remembered, and not the generate that landed in it.
WithFingerprint_OfFile(seq, t) ==
    Newest(seq, IF disk[job.path] = NoFile THEN t ELSE disk[job.path])

\* Fault: the oldest are kept.
WithFingerprint_Oldest(seq, t) ==
    LET all == Newest(seq, t)
    IN  IF Len(all) > History THEN SubSeq(all, 1, History) ELSE all

\* ... and the newest fingerprintHistory kept.
WithFingerprint(seq, t) ==
    LET all == Newest(seq, t)
    IN  IF Len(all) > History THEN SubSeq(all, Len(all) - History + 1, Len(all)) ELSE all

\* filelog: the path is listed under each of the kinds, once.
Listed(kinds) ==
    [k \in Kinds |-> IF k \in kinds THEN files[k] \cup {job.path} ELSE files[k]]

\* saveFile, copyFile, writeDuplicate: one file replaced atomically, and
\* nothing under a dry run.
Put(f, t) == IF opt.dryrun THEN f ELSE [f EXCEPT ![job.path] = t]

\* Fault: the generate is asked for the marker, not the file.
Protected_Generate == IsProtected(job.content)

\* Only the file on disk is asked for JOSTRACA_PROTECT.
Protected == job.existing # NoFile /\ IsProtected(job.existing)

Unchanged == job.existing = job.content

\* Fault: the backup is taken of what is about to be written.
Backup_Generate == job.content

\* What copyFile puts in the .old sidecar: the file, read again.
Backup == disk[job.path]

\* The baseline a merge may use: none when duplicates are off.
Baseline == IF opt.duplicate THEN base[job.path] ELSE NoFile

\* Fault: any file that is off its baseline counts as an earlier generate.
Earlier_Unchecked == Baseline # job.existing

\* The file is byte for byte one of its own earlier generates, and not the
\* one the baseline holds.
Earlier == Baseline # job.existing /\ job.existing \in Range(prev[job.path])

\* There is something to merge against, or nothing to lose.
Mergeable == Baseline # NoFile \/ Earlier

\* What the merge makes of the file: an earlier generate is replaced whole.
Merged ==
    IF Earlier THEN [content |-> job.content, outcome |-> "clean", conflict |-> FALSE]
    ELSE Merge(job.content, Baseline, job.existing)

\* Fault: a merge never reports its conflicts.
MergeLists_Quiet(conflict) == {"merged"}

MergeLists(conflict) == {"merged"} \cup IF conflict THEN {"conflicted"} ELSE {}

\* Faults: the baseline moves whether the generate landed or not; only with
\* a plain write.
MovesBase_Always  == opt.duplicate
MovesBase_OnWrite == opt.duplicate /\ job.write

\* The baseline moves on to a generate that landed, and only then.
MovesBase == opt.duplicate /\ job.landed

\* What is left of the save once a step has decided on the write.
Decided(write, landed) == [job EXCEPT !.write = write, !.landed = landed]

Adopt(p, t) == adopted' = [adopted EXCEPT ![p] = @ \cup Part(t, GenLines)]

\* The target is replaced, and now holds the generate.
Land(t) ==
    /\ disk' = Put(disk, t)
    /\ landings' = Put(landings, landings[job.path] \cup {<<job.content, t>>})

NotLanded == UNCHANGED <<disk, landings>>

-----------------------------------------------------------------------------
(* The run *)

\* generate: the options are merged, newBuild loads the meta log.
StartRun(o) ==
    /\ pc = "idle" /\ runs < MaxRuns
    /\ opt' = o
    /\ prev' = log /\ next' = NoTraces
    /\ saved' = {} /\ again' = {} /\ files' = NoLists /\ failures' = {}
    /\ outcome' = "none" /\ pc' = "walk"
    /\ runs' = runs + 1 /\ saves' = 0
    /\ before' = [disk |-> disk, base |-> base]
    /\ UNCHANGED <<provider, job, events, landings, adopted>>

\* saveAs, up to the existing bytes: a second save of a path is warned about.
BeginSave(p, content) ==
    /\ pc = "walk" /\ saves < MaxSaves
    /\ saved' = saved \cup {p}
    /\ again' = IF p \in saved THEN again \cup {p} ELSE again
    /\ job' = [path |-> p, content |-> content, existing |-> disk[p],
               write |-> disk[p] = NoFile, landed |-> disk[p] = content]
    /\ pc' = IF disk[p] = NoFile THEN "write" ELSE "preserve"
    /\ landings' = IF disk[p] = content
                   THEN [landings EXCEPT ![p] = @ \cup {<<content, content>>}]
                   ELSE landings
    /\ saves' = saves + 1
    /\ UNCHANGED <<provider, opt, prev, next, files, failures, outcome, runs, events,
                   before, adopted>>

\* A File, a Copy or a directory copy saves what it rendered.
SaveFile(p) == \E g \in Generates : BeginSave(p, g)

\* injectAfter rewrites the marked regions of the file as it stands.
Inject(p) ==
    /\ disk[p] # NoFile
    /\ \E body \in Injections : BeginSave(p, Injected(disk[p], body))

\* The .old backup, unless the file is protected.
Preserve ==
    /\ pc = "preserve"
    /\ \/ /\ opt.preserve /\ ~Protected /\ ~Unchanged
          /\ old' = Put(old, Backup)
          /\ files' = Listed({"preserved"})
       \/ /\ ~opt.preserve \/ Protected \/ Unchanged
          /\ UNCHANGED <<old, files>>
    /\ pc' = "present"
    /\ UNCHANGED <<disk, fresh, base, log, job, opt, prev, next, saved, again, failures,
                   outcome, bounds, before, landings, adopted>>

\* Write wins over present; present does not look at the protection.
Present ==
    /\ pc = "present"
    /\ job' = Decided(opt.write /\ ~Protected, job.landed)
    /\ \/ /\ ~job'.write /\ opt.present /\ ~Unchanged
          /\ fresh' = Put(fresh, job.content)
          /\ files' = Listed({"presented"})
       \/ /\ job'.write \/ ~opt.present \/ Unchanged
          /\ UNCHANGED <<fresh, files>>
    /\ pc' = IF Protected THEN "write"
             ELSE IF opt.diff THEN "diff"
             ELSE IF opt.merge THEN "merge" ELSE "write"
    /\ UNCHANGED <<disk, old, base, log, opt, prev, next, saved, again, failures,
                   outcome, bounds, before, landings, adopted>>

\* The two-way diff.
Diff ==
    /\ pc = "diff"
    /\ \/ /\ Unchanged
          /\ files' = Listed({"unchanged"})
          /\ NotLanded
       \/ /\ ~Unchanged
          /\ Land(DiffRender(job.content, job.existing))
          /\ files' = Listed({"diffed", "conflicted"})
    /\ job' = Decided(FALSE, TRUE)
    /\ pc' = "duplicate"
    /\ UNCHANGED <<old, fresh, base, log, opt, prev, next, saved, again, failures,
                   outcome, bounds, before, adopted>>

\* A merge of a file that already holds the generate.
MergeUnchanged ==
    /\ pc = "merge" /\ Unchanged
    /\ files' = Listed({"unchanged"})
    /\ job' = Decided(FALSE, TRUE)
    /\ pc' = "duplicate"
    /\ UNCHANGED <<provider, opt, prev, next, saved, again, failures,
                   outcome, bounds, before, landings, adopted>>

\* saveMerge: the three-way merge, or an earlier generate replaced whole.
SaveMerge ==
    /\ pc = "merge" /\ ~Unchanged /\ Mergeable
    /\ LET unresolved == Merged.outcome = "unresolved"
           conflict   == Merged.conflict \/ unresolved
           refused    == conflict /\ opt.conflictFail
       IN  /\ files' = Listed(MergeLists(conflict))
           /\ \/ /\ refused
                 /\ failures' = failures \cup
                      {<<job.path, IF unresolved THEN "unresolved" ELSE "conflict">>}
                 /\ NotLanded
              \/ /\ unresolved /\ ~refused
                 /\ UNCHANGED failures
                 /\ NotLanded
              \/ /\ ~unresolved /\ ~refused
                 /\ UNCHANGED failures
                 /\ Land(Merged.content)
           /\ job' = Decided(FALSE, ~unresolved /\ ~refused)
    /\ pc' = "duplicate"
    /\ UNCHANGED <<old, fresh, base, log, opt, prev, next, saved, again,
                   outcome, bounds, before, adopted>>

\* A file that cannot be told apart from an edit: listed, and then
\* overwritten, left alone or refused as the options say.
MergeNoBase ==
    /\ pc = "merge" /\ ~Unchanged /\ Baseline = NoFile /\ ~Earlier
    /\ files' = Listed({"unmerged"})
    /\ \/ /\ opt.conflictFail
          /\ failures' = failures \cup {<<job.path, "nobase">>}
          /\ job' = Decided(FALSE, job.landed)
       \/ /\ ~opt.conflictFail
          /\ UNCHANGED <<failures, job>>
    /\ pc' = "write"
    /\ UNCHANGED <<provider, opt, prev, next, saved, again,
                   outcome, bounds, before, landings, adopted>>

\* The plain write, or the skip.
Write ==
    /\ pc = "write"
    /\ \/ /\ job.write /\ Unchanged
          /\ files' = Listed({"unchanged"})
          /\ NotLanded
       \/ /\ job.write /\ ~Unchanged
          /\ files' = Listed({"written"})
          /\ Land(job.content)
       \/ /\ ~job.write
          /\ UNCHANGED files
          /\ NotLanded
    /\ job' = Decided(job.write, job.write \/ job.landed)
    /\ pc' = "duplicate"
    /\ UNCHANGED <<old, fresh, base, log, opt, prev, next, saved, again, failures,
                   outcome, bounds, before, adopted>>

\* writeDuplicate moves the baseline on when the generate landed; then the
\* meta entry is recorded, with fingerprints only under merge. A landing
\* without its baseline leaves the file's generated lines as the user's.
Duplicate ==
    /\ pc = "duplicate"
    /\ base' = IF MovesBase THEN Put(base, job.content) ELSE base
    /\ next' = [next EXCEPT ![job.path] =
                  IF ~opt.merge THEN <<>>
                  ELSE IF job.landed THEN WithFingerprint(prev[job.path], job.content)
                  ELSE prev[job.path]]
    /\ IF job.landed /\ ~opt.duplicate /\ ~opt.dryrun
       THEN Adopt(job.path, disk[job.path]) ELSE UNCHANGED adopted
    /\ job' = NoJob /\ pc' = "walk"
    /\ UNCHANGED <<disk, old, fresh, log, opt, prev, saved, again, files, failures,
                   outcome, bounds, before, landings>>

\* The run is over: what it held in memory is gone.
RunOver(how) ==
    /\ outcome' = how /\ pc' = "idle" /\ job' = NoJob
    /\ prev' = NoTraces /\ next' = NoTraces

\* bmeta.done saves the meta log; then refused files fail the run.
Finish ==
    /\ pc = "walk"
    /\ log' = IF opt.dryrun THEN log ELSE next
    /\ RunOver(IF failures = {} THEN "ok" ELSE "conflicts")
    /\ UNCHANGED <<disk, old, fresh, base, report, bounds, before, landings, adopted>>

\* An Inject whose target is missing refuses the run.
InjectMissing(p) ==
    /\ pc = "walk" /\ Injections # {} /\ disk[p] = NoFile
    /\ RunOver("error")
    /\ UNCHANGED <<provider, report, bounds, before, landings, adopted>>

\* A component or the provider fails, or the process dies: the walk stops
\* where it is, and neither the meta log nor a pending baseline is written.
Stop(how) ==
    /\ pc # "idle" /\ how \in Environment
    /\ RunOver(how)
    /\ IF pc = "duplicate" /\ job.landed /\ ~opt.dryrun
       THEN Adopt(job.path, disk[job.path]) ELSE UNCHANGED adopted
    /\ UNCHANGED <<provider, report, bounds, before, landings>>

-----------------------------------------------------------------------------
(* Between runs *)

Event(kind) ==
    /\ pc = "idle" /\ events < MaxEvents /\ kind \in Environment
    /\ events' = events + 1
    /\ outcome' = "none"
    /\ UNCHANGED <<old, fresh, pc, job, prev, next, report, runs, saves, before, landings>>

Replace(p, f) == disk' = [disk EXCEPT ![p] = f] /\ UNCHANGED <<base, log>>

\* The user adds a line, or deletes one; the markers of a conflict too.
\* Whoever removes the last marker has chosen the lines that stay.
UserEdit(p) ==
    /\ Event("edit") /\ disk[p] # NoFile
    /\ \E r \in Regions :
         \/ \E l \in UserLines \cup {Protect} :
              /\ Replace(p, [disk[p] EXCEPT ![r] = @ \cup {l}])
              /\ UNCHANGED adopted
         \/ \E l \in disk[p][r] :
              /\ Replace(p, [disk[p] EXCEPT ![r] = @ \ {l}])
              /\ IF HasConflicts(disk[p]) /\ ~HasConflicts(disk'[p])
                 THEN Adopt(p, disk'[p]) ELSE UNCHANGED adopted

UserDelete(p) ==
    /\ Event("delete") /\ disk[p] # NoFile
    /\ Replace(p, NoFile)
    /\ adopted' = [adopted EXCEPT ![p] = {}]

\* A file of the user's own at an output path.
UserCreate(p) ==
    /\ Event("create") /\ disk[p] = NoFile
    /\ \E r \in Regions, l \in UserLines : Replace(p, [Empty EXCEPT ![r] = {l}])
    /\ UNCHANGED adopted

\* A checkout puts back the file some earlier landing made. The baseline and
\* the meta log, which are git-ignored, stay where they are.
Checkout(p) ==
    /\ Event("checkout")
    /\ \E made \in landings[p] :
         /\ made[2] # disk[p]
         /\ Replace(p, made[2])
         /\ Adopt(p, made[2])

\* A clone has the files, and nothing of what git ignores.
Clone ==
    /\ Event("clone")
    /\ base' = NoFiles /\ log' = NoTraces
    /\ UNCHANGED <<disk, adopted>>

\* An unreadable meta log counts as an empty one.
BadLog ==
    /\ Event("badlog") /\ log # NoTraces
    /\ log' = NoTraces
    /\ UNCHANGED <<disk, base, adopted>>

-----------------------------------------------------------------------------

Init ==
    /\ disk = NoFiles /\ old = NoFiles /\ fresh = NoFiles /\ base = NoFiles
    /\ log = NoTraces /\ prev = NoTraces /\ next = NoTraces
    /\ pc = "idle" /\ job = NoJob
    /\ opt \in OptionSets
    /\ saved = {} /\ again = {} /\ files = NoLists /\ failures = {}
    /\ outcome = "none"
    /\ runs = 0 /\ saves = 0 /\ events = 0
    /\ before = [disk |-> NoFiles, base |-> NoFiles]
    /\ landings = [p \in Paths |-> {}]
    /\ adopted = [p \in Paths |-> {}]

Begin == \E p \in Paths : SaveFile(p) \/ Inject(p)

SaveStep == \/ Preserve \/ Present \/ Diff \/ MergeUnchanged \/ SaveMerge
            \/ MergeNoBase \/ Write \/ Duplicate

RunStep == Begin \/ SaveStep \/ Finish \/ (\E p \in Paths : InjectMissing(p))

Between == \/ \E o \in OptionSets : StartRun(o)
           \/ \E p \in Paths : \/ UserEdit(p) \/ UserDelete(p) \/ UserCreate(p)
                               \/ Checkout(p)
           \/ Clone \/ BadLog

Next == RunStep \/ (\E how \in {"error", "crash"} : Stop(how)) \/ Between

Spec == Init /\ [][Next]_vars
=============================================================================
