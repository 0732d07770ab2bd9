---------------------------- MODULE Saves_proofs ----------------------------
(***************************************************************************)
(* Theorems about what a run of saves leaves: a baseline is never ahead of *)
(* its file, a protected file is never touched, a refused file stays as it *)
(* was, the report is true and complete, and no generated line is left     *)
(* behind; for every folder, every option and every event. And the handler *)
(* implements the promise of MergeBase.                                    *)
(***************************************************************************)
EXTENDS FileHandler_proofs

(* What the steps of a save do, in the words the arguments use. *)

\* The save goes on: the same path, generate and file.
SameSave ==
    /\ job \in Jobs /\ job' \in Jobs
    /\ job'.path = job.path /\ job'.content = job.content /\ job'.existing = job.existing
    /\ UNCHANGED <<base, log, opt, prev, next, saved, again, outcome, before>>

LEMMA PreserveDoes ==
    ASSUME TypeOK, Preserve
    PROVE  SameSave /\ job' = job /\ NotLanded /\ failures' = failures
BY DEF Preserve, SameSave, TypeOK, SaveSteps, NotLanded

LEMMA PresentDoes ==
    ASSUME TypeOK, Present
    PROVE  /\ SameSave /\ NotLanded /\ failures' = failures
           /\ job'.landed = job.landed /\ job'.write = (opt.write /\ ~Protected)
<1>1. job \in Jobs /\ job.landed \in BOOLEAN
  BY DEF Present, TypeOK, SaveSteps, Jobs
<1> DEFINE write == opt.write /\ ~Protected
<1>2. job' = Decided(write, job.landed) /\ write \in BOOLEAN
  BY Zenon DEF Present
<1>3. UNCHANGED <<disk, base, log, opt, prev, next, saved, again, failures, outcome, before, landings>>
  BY DEF Present
<1> HIDE DEF write
<1>4. /\ job' \in Jobs /\ job'.path = job.path /\ job'.content = job.content
      /\ job'.existing = job.existing /\ job'.write = write /\ job'.landed = job.landed
  BY <1>1, <1>2, DecidedIsJob
<1> QED
  BY <1>1, <1>3, <1>4 DEF write, SameSave, NotLanded

LEMMA DiffDoes ==
    ASSUME TypeOK, Diff
    PROVE  /\ SameSave /\ failures' = failures /\ job'.landed
           /\ \/ Unchanged /\ NotLanded
              \/ Land(DiffRender(job.content, job.existing))
<1>1. job \in Jobs
  BY DEF Diff, TypeOK, SaveSteps
<1>2. /\ job' \in Jobs /\ job'.path = job.path /\ job'.content = job.content
      /\ job'.existing = job.existing /\ job'.landed = TRUE
  BY <1>1, DecidedIsJob DEF Diff
<1> QED
  BY <1>1, <1>2 DEF Diff, SameSave

LEMMA MergeUnchangedDoes ==
    ASSUME TypeOK, MergeUnchanged
    PROVE  /\ SameSave /\ failures' = failures /\ job'.landed
           /\ Unchanged /\ NotLanded
<1>1. job \in Jobs
  BY DEF MergeUnchanged, TypeOK, SaveSteps
<1>2. /\ job' \in Jobs /\ job'.path = job.path /\ job'.content = job.content
      /\ job'.existing = job.existing /\ job'.landed = TRUE
  BY <1>1, DecidedIsJob DEF MergeUnchanged
<1> QED
  BY <1>1, <1>2 DEF MergeUnchanged, SameSave, NotLanded, provider

LEMMA SaveMergeDoes ==
    ASSUME TypeOK, SaveMerge
    PROVE  /\ SameSave
           /\ \/ job'.landed /\ Land(Merged.content) /\ failures' = failures
              \/ /\ ~job'.landed /\ NotLanded
                 /\ \E why : failures' \in {failures, failures \cup {<<job.path, why>>}}
<1> DEFINE unresolved == Merged.outcome = "unresolved"
           refused    == (Merged.conflict \/ unresolved) /\ opt.conflictFail
           landed     == ~unresolved /\ ~refused
           why        == IF unresolved THEN "unresolved" ELSE "conflict"
<1>1. job \in Jobs /\ landed \in BOOLEAN
  BY DEF SaveMerge, TypeOK, SaveSteps
<1>2. job' = Decided(FALSE, landed)
  BY Zenon DEF SaveMerge
<1>3. \/ landed /\ Land(Merged.content) /\ failures' = failures
      \/ ~landed /\ NotLanded /\ failures' = failures
      \/ ~landed /\ NotLanded /\ failures' = failures \cup {<<job.path, why>>}
  BY Zenon DEF SaveMerge
<1>4. UNCHANGED <<base, log, opt, prev, next, saved, again, outcome, before>>
  BY Zenon DEF SaveMerge
<1> HIDE DEF landed, why
<1>5. /\ job' \in Jobs /\ job'.path = job.path /\ job'.content = job.content
      /\ job'.existing = job.existing /\ job'.landed = landed
  BY <1>1, <1>2, DecidedIsJob
<1> QED
  BY <1>1, <1>3, <1>4, <1>5 DEF SameSave

LEMMA MergeNoBaseDoes ==
    ASSUME TypeOK, MergeNoBase
    PROVE  /\ SameSave /\ NotLanded /\ job'.landed = job.landed
           /\ ~Unchanged
           /\ \/ failures' = failures /\ job' = job
              \/ /\ failures' = failures \cup {<<job.path, "nobase">>}
                 /\ ~job'.write
<1>1. job \in Jobs /\ job.landed \in BOOLEAN
  BY DEF MergeNoBase, TypeOK, SaveSteps, Jobs
<1> DEFINE skipped == Decided(FALSE, job.landed)
<1>2. \/ failures' = failures /\ job' = job
      \/ failures' = failures \cup {<<job.path, "nobase">>} /\ job' = skipped
  BY Zenon DEF MergeNoBase
<1>3. /\ skipped \in Jobs /\ skipped.path = job.path /\ skipped.content = job.content
      /\ skipped.existing = job.existing /\ ~skipped.write /\ skipped.landed = job.landed
  BY <1>1, DecidedIsJob
<1>4. UNCHANGED <<disk, base, log, opt, prev, next, saved, again, outcome, before, landings>>
      /\ ~Unchanged
  BY Zenon DEF MergeNoBase, provider
<1> HIDE DEF skipped
<1> QED
  BY <1>1, <1>2, <1>3, <1>4 DEF SameSave, NotLanded

LEMMA WriteDoes ==
    ASSUME TypeOK, Write
    PROVE  /\ SameSave /\ failures' = failures
           /\ job'.landed = (job.write \/ job.landed)
           /\ \/ job.write /\ ~Unchanged /\ Land(job.content)
              \/ (~job.write \/ Unchanged) /\ NotLanded
<1>1. job \in Jobs /\ job.landed \in BOOLEAN /\ job.write \in BOOLEAN
  BY DEF Write, TypeOK, SaveSteps, Jobs
<1> DEFINE landed == job.write \/ job.landed
<1>2. job' = Decided(job.write, landed) /\ landed \in BOOLEAN
  BY <1>1, Zenon DEF Write
<1>3. /\ \/ job.write /\ ~Unchanged /\ Land(job.content)
         \/ (~job.write \/ Unchanged) /\ NotLanded
      /\ UNCHANGED <<base, log, opt, prev, next, saved, again, outcome, before, failures>>
  BY Zenon DEF Write
<1> HIDE DEF landed
<1>4. /\ job' \in Jobs /\ job'.path = job.path /\ job'.content = job.content
      /\ job'.existing = job.existing /\ job'.landed = landed
  BY <1>1, <1>2, DecidedIsJob
<1> QED
  BY <1>1, <1>3, <1>4 DEF SameSave, landed

-----------------------------------------------------------------------------
(* What a save in progress knows. *)

\* The bytes it decides on are still the file's; it has landed exactly when
\* they are the generate; and it does not write over a protected file.
SaveKnows ==
    /\ SaveSeesTheFile
    /\ pc \in {"preserve", "present", "diff", "merge"} => (job.landed <=> Unchanged)
    /\ pc \in {"diff", "merge"} => ~Protected
    /\ pc = "write" /\ Protected => ~job.write

LEMMA InitSaveKnows == Init => SaveKnows
BY DEF Init, SaveKnows, SaveSeesTheFile, SaveSteps

LEMMA StepSaveKnows == TypeOK /\ SaveKnows /\ [Next]_vars => SaveKnows'
<1> SUFFICES ASSUME TypeOK, SaveKnows, [Next]_vars PROVE SaveKnows'
  OBVIOUS
<1> USE DEF SaveKnows, SaveSeesTheFile, SaveSteps
<1>1. CASE pc' \in {"idle", "walk", "duplicate"}
  BY <1>1
<1>2. ASSUME NEW p \in Paths, NEW content, BeginSave(p, content) PROVE SaveKnows'
  <2>1. /\ pc' \in {"preserve", "write"} /\ disk' = disk
        /\ pc' = "write" => disk[p] = NoFile
        /\ job' = [path |-> p, content |-> content, existing |-> disk[p],
                   write |-> disk[p] = NoFile, landed |-> disk[p] = content]
    BY <1>2 DEF BeginSave, provider
  <2>2. /\ job'.path = p /\ job'.existing = disk[p] /\ job'.content = content
        /\ job'.landed = (disk[p] = content)
    BY <2>1
  <2> QED
    BY <2>1, <2>2 DEF Protected, Unchanged
<1>3. ASSUME NEW p \in Paths, SaveFile(p) \/ Inject(p) PROVE SaveKnows'
  BY <1>2, <1>3 DEF SaveFile, Inject
<1>4. CASE Preserve
  <2>1. job' = job /\ disk' = disk /\ pc = "preserve" /\ pc' = "present"
    BY <1>4, PreserveDoes DEF NotLanded, Preserve
  <2> QED
    BY <2>1 DEF Protected, Unchanged
<1>5. CASE Present
  <2>1. /\ job'.existing = job.existing /\ job'.content = job.content /\ job'.path = job.path
        /\ job'.landed = job.landed /\ job'.write = (opt.write /\ ~Protected)
        /\ disk' = disk
    BY <1>5, PresentDoes DEF SameSave, NotLanded
  <2>2. pc = "present" /\ pc' \in {"write", "diff", "merge"} /\ (Protected => pc' = "write")
    BY <1>5 DEF Present
  <2>3. (Protected <=> Protected') /\ (Unchanged <=> Unchanged')
    BY <2>1 DEF Protected, Unchanged
  <2> QED
    BY <2>1, <2>2, <2>3
<1>6. CASE Diff \/ MergeUnchanged \/ SaveMerge \/ Write
  <2>1. pc' = "duplicate"
    BY <1>6, Zenon DEF Diff, MergeUnchanged, SaveMerge, Write
  <2> QED
    BY <1>1, <2>1
<1>7. CASE MergeNoBase
  <2>1. job'.existing = job.existing /\ job'.path = job.path /\ disk' = disk
    BY <1>7, MergeNoBaseDoes DEF SameSave, NotLanded
  <2>2. pc = "merge" /\ pc' = "write"
    BY <1>7 DEF MergeNoBase
  <2> QED
    BY <2>1, <2>2 DEF Protected
<1>8. CASE \/ Duplicate \/ Finish \/ (\E p \in Paths : InjectMissing(p))
           \/ (\E how \in {"error", "crash"} : Stop(how))
           \/ (\E o \in OptionSets : StartRun(o))
  BY <1>1, <1>8 DEF Duplicate, Finish, InjectMissing, Stop, RunOver, StartRun
<1>9. ASSUME NEW kind, Event(kind) PROVE SaveKnows'
  BY <1>1, <1>9 DEF Event
<1>10. CASE \/ \E p \in Paths : UserEdit(p) \/ UserDelete(p) \/ UserCreate(p) \/ Checkout(p)
            \/ Clone \/ BadLog
  <2>1. \E kind : Event(kind)
    BY <1>10 DEF UserEdit, UserDelete, UserCreate, Checkout, Clone, BadLog
  <2> QED
    BY <1>9, <2>1
<1>11. CASE UNCHANGED vars
  BY <1>11 DEF vars, Protected, Unchanged
<1> QED
  BY <1>3, <1>4, <1>5, <1>6, <1>7, <1>8, <1>10, <1>11
     DEF Next, RunStep, Begin, SaveStep, Between

\* A landing changes the file of its save only.
LEMMA LandIsLocal ==
    ASSUME TypeOK, NEW t, Land(t), NEW p \in Paths, p # job.path
    PROVE  disk'[p] = disk[p]
BY DEF Land, Put, TypeOK

LEMMA StepLeavesProtected ==
    ASSUME TypeOK, SaveKnows, Next, Running,
           NEW p \in Paths, disk[p] # NoFile, IsProtected(disk[p])
    PROVE  disk'[p] = disk[p] /\ old'[p] = old[p]
<1> USE DEF SaveKnows, SaveSeesTheFile, SaveSteps
<1>1. CASE UNCHANGED <<disk, old>>
  BY <1>1
<1>2. pc \in SaveSteps \ {"duplicate"} /\ p = job.path => Protected
  BY DEF Protected
<1>3. CASE Preserve
  <2>1. disk' = disk
    BY <1>3, PreserveDoes DEF NotLanded
  <2>2. CASE ~Protected /\ old' = Put(old, Backup)
    <3>1. p # job.path
      BY <1>2, <1>3, <2>2 DEF Preserve
    <3> QED
      BY <2>1, <2>2, <3>1 DEF Put, TypeOK
  <2>3. CASE old' = old
    BY <2>1, <2>3
  <2> QED
    BY <1>3, <2>2, <2>3, Zenon DEF Preserve
<1>4. CASE Diff
  <2>1. p # job.path /\ old' = old
    BY <1>2, <1>4 DEF Diff
  <2> QED
    BY <1>1, <1>4, <2>1, DiffDoes, LandIsLocal DEF NotLanded
<1>5. CASE SaveMerge
  <2>1. p # job.path /\ old' = old
    BY <1>2, <1>5, Zenon DEF SaveMerge
  <2> QED
    BY <1>1, <1>5, <2>1, SaveMergeDoes, LandIsLocal DEF NotLanded
<1>6. CASE Write
  <2>1. old' = old /\ pc = "write"
    BY <1>6 DEF Write
  <2>2. CASE NotLanded
    BY <2>1, <2>2 DEF NotLanded
  <2>3. CASE job.write /\ Land(job.content)
    <3>1. p # job.path
      BY <1>2, <2>1, <2>3
    <3> QED
      BY <2>1, <2>3, <3>1, LandIsLocal
  <2> QED
    BY <1>6, <2>2, <2>3, WriteDoes
<1>7. CASE ~(Preserve \/ Diff \/ SaveMerge \/ Write)
  <2>1. UNCHANGED <<disk, old>>
    BY <1>7 DEF Next, RunStep, Begin, SaveFile, Inject, BeginSave, SaveStep, Present,
       MergeUnchanged, MergeNoBase, Duplicate, Finish, InjectMissing, Stop, provider,
       Between, StartRun, UserEdit, UserDelete, UserCreate, Checkout, Clone, BadLog,
       Event, Running
  <2> QED
    BY <1>1, <2>1
<1> QED
  BY <1>3, <1>4, <1>5, <1>6, <1>7

\* A file that holds JOSTRACA_PROTECT keeps its bytes, and its backup, at
\* every step of every run, in every mode, with Injects in it or not (saveAs).
THEOREM ProtectionHolds == Spec => ProtectedUntouched
<1> DEFINE Left == Running => \A p \in Paths :
                     disk[p] # NoFile /\ IsProtected(disk[p]) =>
                        disk'[p] = disk[p] /\ old'[p] = old[p]
<1>1. Init => TypeOK /\ SaveKnows
  BY InitTypeOK, InitSaveKnows
<1>2. TypeOK /\ SaveKnows /\ [Next]_vars => TypeOK' /\ SaveKnows'
  BY StepTypeOK, StepSaveKnows
<1>3. TypeOK /\ SaveKnows /\ [Next]_vars => [Left]_vars
  BY StepLeavesProtected
<1> QED
  BY <1>1, <1>2, <1>3, PTL DEF Spec, ProtectedUntouched

-----------------------------------------------------------------------------
(* The baseline is never ahead of its file. *)

\* The texts a history holds were landed at its path.
OfLandings(traces) == \A p \in Paths : Range(traces[p]) \subseteq Landed(p)

\* What a save has landed, or found there, is among the landings; and so is
\* all that the run remembers, unless it only pretends.
RememberedLanded ==
    /\ BaseNeverAhead /\ OfLandings(prev)
    /\ ~opt.dryrun => OfLandings(next)
    /\ pc \in SaveSteps /\ Unchanged => job.content \in Landed(job.path)
    /\ pc \in SaveSteps /\ job.landed /\ ~opt.dryrun => job.content \in Landed(job.path)

\* No landing is forgotten.
LEMMA LandingsGrow ==
    ASSUME TypeOK, [Next]_vars
    PROVE  \A p \in Paths : landings[p] \subseteq landings'[p]
<1> USE DEF TypeOK
<1>1. CASE UNCHANGED landings
  BY <1>1
<1>2. ASSUME NEW p \in Paths, NEW content, BeginSave(p, content)
      PROVE  \A q \in Paths : landings[q] \subseteq landings'[q]
  BY <1>2 DEF BeginSave
<1>3. ASSUME NEW p \in Paths, SaveFile(p) \/ Inject(p)
      PROVE  \A q \in Paths : landings[q] \subseteq landings'[q]
  BY <1>2, <1>3 DEF SaveFile, Inject
<1>4. ASSUME NEW t, Land(t), job \in Jobs
      PROVE  \A q \in Paths : landings[q] \subseteq landings'[q]
  BY <1>4 DEF Land, Put, Jobs
<1>5. CASE Diff
  BY <1>1, <1>4, <1>5, DiffDoes DEF SameSave, NotLanded
<1>6. CASE SaveMerge
  BY <1>1, <1>4, <1>6, SaveMergeDoes DEF SameSave, NotLanded
<1>7. CASE Write
  BY <1>1, <1>4, <1>7, WriteDoes DEF SameSave, NotLanded
<1>8. CASE ~(Diff \/ SaveMerge \/ Write \/ \E p \in Paths : SaveFile(p) \/ Inject(p))
  <2>1. UNCHANGED landings
    BY <1>8 DEF Next, RunStep, Begin, SaveStep, Preserve, Present, MergeUnchanged,
       MergeNoBase, Duplicate, Finish, InjectMissing, Stop, Between, StartRun, UserEdit,
       UserDelete, UserCreate, Checkout, Clone, BadLog, Event, vars
  <2> QED
    BY <1>1, <2>1
<1> QED
  BY <1>3, <1>5, <1>6, <1>7, <1>8

LEMMA LandedGrows ==
    ASSUME TypeOK, [Next]_vars
    PROVE  \A p \in Paths : Landed(p) \subseteq Landed(p)'
BY LandingsGrow DEF Landed

\* A landing that happens is remembered.
LEMMA LandIsRemembered ==
    ASSUME TypeOK, job \in Jobs, ~opt.dryrun, NEW t, Land(t), job'.path = job.path
    PROVE  job.content \in Landed(job.path)'
<1>1. job.path \in Paths /\ landings' = [landings EXCEPT ![job.path] = @ \cup {<<job.content, t>>}]
  BY DEF Land, Put, Jobs
<1>2. <<job.content, t>> \in landings'[job.path]
  BY <1>1 DEF TypeOK
<1> QED
  BY <1>2 DEF Landed

LEMMA InitRemembered == Init => RememberedLanded
BY EmptyRange DEF Init, RememberedLanded, BaseNeverAhead, OfLandings, NoFiles, SaveSteps

LEMMA StepRemembered ==
    TypeOK /\ SaveKnows /\ RememberedLanded /\ [Next]_vars => RememberedLanded'
<1> SUFFICES ASSUME TypeOK, SaveKnows, RememberedLanded, [Next]_vars PROVE RememberedLanded'
  OBVIOUS
<1> DEFINE Grown == \A p \in Paths : Landed(p) \subseteq Landed(p)'
<1>0. Grown
  BY LandedGrows
<1>h. /\ \A p \in Paths : base[p] # NoFile => base[p] \in Landed(p)
      /\ OfLandings(log) /\ OfLandings(prev) /\ (~opt.dryrun => OfLandings(next))
      /\ pc \in SaveSteps /\ Unchanged => job.content \in Landed(job.path)
      /\ pc \in SaveSteps /\ job.landed /\ ~opt.dryrun => job.content \in Landed(job.path)
  BY DEF RememberedLanded, BaseNeverAhead, OfLandings
<1>e. OfLandings(NoTraces)'
  BY EmptyRange DEF OfLandings, NoTraces
<1>g. ASSUME NEW traces, OfLandings(traces)
      PROVE  \A p \in Paths : Range(traces[p]) \subseteq Landed(p)'
  BY <1>0, <1>g DEF OfLandings
<1> HIDE DEF Grown
\* Whatever outlives the step, remembered as before, is remembered.
<1>1. ASSUME \A p \in Paths : base'[p] \in {base[p], NoFile},
             log' \in {log, NoTraces} \/ (log' = next /\ ~opt.dryrun),
             prev' \in {prev, log, NoTraces}, next' = NoTraces \/ (next' = next /\ opt' = opt)
      PROVE  /\ BaseNeverAhead' /\ OfLandings(prev)' /\ (~opt'.dryrun => OfLandings(next)')
  <2>1. \A p \in Paths : base'[p] # NoFile => base'[p] \in Landed(p)'
    BY <1>0, <1>1, <1>h DEF Grown
  <2>2. OfLandings(log)'
    BY <1>1, <1>e, <1>g, <1>h DEF OfLandings
  <2>3. OfLandings(prev)'
    BY <1>1, <1>e, <1>g, <1>h DEF OfLandings
  <2>4. ~opt'.dryrun => OfLandings(next)'
    BY <1>1, <1>e, <1>g, <1>h DEF OfLandings
  <2> QED
    BY <2>1, <2>2, <2>3, <2>4 DEF BaseNeverAhead, OfLandings
<1>2. ASSUME pc' \notin SaveSteps,
             BaseNeverAhead', OfLandings(prev)', ~opt'.dryrun => OfLandings(next)'
      PROVE  RememberedLanded'
  BY <1>2 DEF RememberedLanded
\* A step within a save.
<1>3. ASSUME SameSave, pc \in SaveSteps,
             job'.landed /\ ~opt.dryrun =>
                Unchanged \/ job.landed \/ \E t : Land(t)
      PROVE  RememberedLanded'
  <2>1. /\ UNCHANGED <<base, log, prev, next, opt>> /\ job \in Jobs /\ job.path \in Paths
        /\ job'.path = job.path /\ job'.content = job.content /\ job'.existing = job.existing
    BY <1>3 DEF SameSave, Jobs
  <2>2. BaseNeverAhead' /\ OfLandings(prev)' /\ (~opt'.dryrun => OfLandings(next)')
    BY <1>1, <2>1
  <2>3. Unchanged' => job'.content \in Landed(job.path)'
    BY <1>0, <1>3, <1>h, <2>1 DEF Grown, Unchanged
  <2>4. job'.landed /\ ~opt'.dryrun => job'.content \in Landed(job.path)'
    BY <1>0, <1>3, <1>h, <2>1, LandIsRemembered DEF Grown
  <2> QED
    BY <2>1, <2>2, <2>3, <2>4 DEF RememberedLanded, Landed
<1>4. ASSUME NEW p \in Paths, NEW content \in Text, BeginSave(p, content) PROVE RememberedLanded'
  <2>1. /\ UNCHANGED <<base, log, prev, next, opt>>
        /\ job' = [path |-> p, content |-> content, existing |-> disk[p],
                   write |-> disk[p] = NoFile, landed |-> disk[p] = content]
        /\ disk[p] = content =>
              landings' = [landings EXCEPT ![p] = @ \cup {<<content, content>>}]
    BY <1>4 DEF BeginSave, provider
  <2>2. BaseNeverAhead' /\ OfLandings(prev)' /\ (~opt'.dryrun => OfLandings(next)')
    BY <1>1, <2>1
  <2>3. disk[p] = content => <<content, content>> \in landings'[p]
    BY <2>1 DEF TypeOK
  <2>4. disk[p] = content => content \in Landed(p)'
    BY <2>3 DEF Landed
  <2>5. /\ job'.path = p /\ job'.content = content /\ job'.existing = disk[p]
        /\ job'.landed = (disk[p] = content)
    BY <2>1
  <2> QED
    BY <2>2, <2>4, <2>5 DEF RememberedLanded, Unchanged, Landed
<1>5. ASSUME NEW p \in Paths, SaveFile(p) \/ Inject(p) PROVE RememberedLanded'
  <2>1. \A body \in Injections : disk[p] # NoFile => Injected(disk[p], body) \in Text
    BY InjectedIsText DEF TypeOK, File
  <2> QED
    BY <1>4, <1>5, <2>1, GenerateIsText DEF SaveFile, Inject
<1>6. CASE Preserve
  BY <1>3, <1>6, PreserveDoes DEF Preserve, SaveSteps
<1>7. CASE Present
  BY <1>3, <1>7, PresentDoes DEF Present, SaveSteps
<1>8. CASE Diff
  BY <1>3, <1>8, DiffDoes DEF Diff, SaveSteps
<1>9. CASE MergeUnchanged
  BY <1>3, <1>9, MergeUnchangedDoes DEF MergeUnchanged, SaveSteps
<1>10. CASE SaveMerge
  BY <1>3, <1>10, SaveMergeDoes DEF SaveMerge, SaveSteps
<1>11. CASE MergeNoBase
  BY <1>3, <1>11, MergeNoBaseDoes DEF MergeNoBase, SaveSteps
<1>12. CASE Write
  BY <1>3, <1>12, WriteDoes DEF Write, SaveSteps
<1>13. CASE Duplicate
  <2> DEFINE entry == IF ~opt.merge THEN <<>>
                      ELSE IF job.landed THEN WithFingerprint(prev[job.path], job.content)
                      ELSE prev[job.path]
  <2>1. /\ job \in Jobs /\ job.path \in Paths /\ job.content \in Text /\ pc \in SaveSteps
    BY <1>13 DEF Duplicate, TypeOK, SaveSteps, Jobs
  <2>2. /\ pc' = "walk" /\ UNCHANGED <<log, prev, opt, landings>>
        /\ next' = [next EXCEPT ![job.path] = entry]
        /\ \/ base' = base
           \/ base' = [base EXCEPT ![job.path] = job.content] /\ MovesBase /\ ~opt.dryrun
    BY <1>13, Zenon DEF Duplicate, Put
  <2> HIDE DEF entry
  <2>3. \A p \in Paths : base'[p] # NoFile => base'[p] \in Landed(p)'
    BY <1>0, <1>h, <2>1, <2>2 DEF TypeOK, MovesBase, Grown
  <2>4. ~opt.dryrun => Range(entry) \subseteq Landed(job.path)
    <3>1. prev[job.path] \in Seq(Text) /\ Range(prev[job.path]) \subseteq Landed(job.path)
      BY <1>h, <2>1 DEF TypeOK, OfLandings
    <3>2. ~opt.dryrun /\ job.landed =>
            Range(WithFingerprint(prev[job.path], job.content)) \subseteq Landed(job.path)
      BY <1>h, <2>1, <3>1, WithFingerprintRange
    <3>3. Range(<<>>) = {}
      BY DEF Range
    <3> QED
      BY <3>1, <3>2, <3>3 DEF entry
  <2>5. ~opt'.dryrun => \A p \in Paths : Range(next'[p]) \subseteq Landed(p)'
    <3>1. \A p \in Paths : next'[p] = IF p = job.path THEN entry ELSE next[p]
      BY <2>1, <2>2 DEF TypeOK
    <3> QED
      BY <1>0, <1>h, <2>1, <2>2, <2>4, <3>1 DEF Grown, OfLandings
  <2>6. BaseNeverAhead' /\ OfLandings(prev)'
    BY <1>g, <1>h, <2>2, <2>3 DEF BaseNeverAhead, OfLandings
  <2> QED
    BY <1>2, <2>2, <2>5, <2>6 DEF OfLandings, SaveSteps
<1>14. CASE \/ \E o \in OptionSets : StartRun(o)
            \/ Finish
            \/ \E p \in Paths : InjectMissing(p)
            \/ \E how \in {"error", "crash"} : Stop(how)
  BY <1>1, <1>2, <1>14 DEF StartRun, Finish, InjectMissing, Stop, RunOver, provider, SaveSteps
<1>15. ASSUME NEW kind, Event(kind), \A p \in Paths : base'[p] \in {base[p], NoFile},
              log' \in {log, NoTraces}
       PROVE  RememberedLanded'
  BY <1>1, <1>2, <1>15 DEF Event, SaveSteps, report
<1>16. ASSUME NEW p \in Paths, UserEdit(p) \/ UserDelete(p) \/ UserCreate(p) \/ Checkout(p)
       PROVE  RememberedLanded'
  <2>1. (\E kind : Event(kind)) /\ (\E f : Replace(p, f))
    BY <1>16 DEF UserEdit, UserDelete, UserCreate, Checkout
  <2> QED
    BY <1>15, <2>1 DEF Replace
<1>17. CASE Clone \/ BadLog
  BY <1>15, <1>17 DEF Clone, BadLog, NoFiles
<1>18. CASE UNCHANGED vars
  BY <1>18 DEF vars, RememberedLanded, BaseNeverAhead, OfLandings, Landed, Unchanged
<1> QED
  BY <1>5, <1>6, <1>7, <1>8, <1>9, <1>10, <1>11, <1>12, <1>13, <1>14, <1>16, <1>17, <1>18
     DEF Next, RunStep, Begin, SaveStep, Between

\* The baseline of a file, and every fingerprint kept of it, is a generate
\* that did land in that file: no crash, refused merge, dry run, checkout or
\* clone makes the handler remember more (writeDuplicate, withFingerprint).
THEOREM BaselineHasLanded == Spec => []BaseNeverAhead
<1>1. Init => TypeOK /\ SaveKnows /\ RememberedLanded
  BY InitTypeOK, InitSaveKnows, InitRemembered
<1>2. /\ TypeOK /\ SaveKnows /\ RememberedLanded /\ [Next]_vars
      => TypeOK' /\ SaveKnows' /\ RememberedLanded'
  BY StepTypeOK, StepSaveKnows, StepRemembered
<1>3. RememberedLanded => BaseNeverAhead
  BY DEF RememberedLanded
<1> QED
  BY <1>1, <1>2, <1>3, PTL DEF Spec

-----------------------------------------------------------------------------
(* A refused file stays as it was. *)

AsFound(p) == disk[p] = before.disk[p] /\ base[p] = before.base[p]

Refused == {f[1] : f \in failures}

\* What is not saved yet is as the run found it, and so is what it refused,
\* unless the path is saved again; the save in progress of a path the run
\* has just refused has nothing left to write.
RefusedStays ==
    /\ Running => \A p \in Paths \ saved : AsFound(p)
    /\ Running \/ Ended => /\ Refused \subseteq saved
                          /\ \A p \in Refused \ again : AsFound(p)
    /\ pc \in SaveSteps =>
         /\ job.path \in saved
         /\ job.path \notin again => base[job.path] = before.base[job.path]
    /\ pc \in SaveSteps \ {"duplicate"} /\ job.path \notin again =>
         disk[job.path] = before.disk[job.path]
    /\ pc \in {"preserve", "present", "diff", "merge"} /\ job.path \notin again =>
         job.path \notin Refused
    /\ pc = "write" /\ job.path \in Refused \ again => ~job.write /\ ~job.landed
    /\ pc = "duplicate" /\ job.path \in Refused \ again => ~job.landed

LEMMA InitRefusedStays == Init => RefusedStays
BY DEF Init, RefusedStays, Refused, AsFound, Running, Ended, SaveSteps

LEMMA StepRefusedStays ==
    TypeOK /\ SaveKnows /\ RefusedStays /\ [Next]_vars => RefusedStays'
<1> SUFFICES ASSUME TypeOK, SaveKnows, RefusedStays, [Next]_vars PROVE RefusedStays'
  OBVIOUS
<1>h. /\ pc \in SaveSteps => job.path \in Paths /\ job \in Jobs
      /\ again \subseteq saved /\ Refused \subseteq Paths
      /\ disk \in [Paths -> File] /\ base \in [Paths -> File]
  BY DEF TypeOK, Jobs, Refused
<1>1. ASSUME NEW o \in OptionSets, StartRun(o) PROVE RefusedStays'
  BY <1>1, <1>h DEF StartRun, RefusedStays, Refused, AsFound, Running, Ended, SaveSteps, provider
<1>2. ASSUME NEW p \in Paths, NEW content, BeginSave(p, content) PROVE RefusedStays'
  <2>1. /\ pc = "walk" /\ pc' \in {"write", "preserve"}
        /\ UNCHANGED <<disk, base, failures, outcome, before>>
        /\ saved' = saved \cup {p} /\ again' = IF p \in saved THEN again \cup {p} ELSE again
        /\ job' = [path |-> p, content |-> content, existing |-> disk[p],
                   write |-> disk[p] = NoFile, landed |-> disk[p] = content]
    BY <1>2 DEF BeginSave, provider
  <2>2. job'.path = p /\ Refused' = Refused
    BY <2>1 DEF Refused
  <2>3. p \notin again' => p \notin saved /\ p \notin Refused /\ AsFound(p)
    BY <2>1 DEF RefusedStays, Running
  <2> QED
    BY <2>1, <2>2, <2>3 DEF RefusedStays, AsFound, Running, Ended, SaveSteps
<1>3. ASSUME NEW p \in Paths, SaveFile(p) \/ Inject(p) PROVE RefusedStays'
  BY <1>2, <1>3 DEF SaveFile, Inject
\* A step within a save that changes no file.
<1>4. ASSUME SameSave, pc \in SaveSteps \ {"duplicate"}, pc' \in SaveSteps, NotLanded,
             \/ failures' = failures /\ pc' \in {"present", "diff", "merge"}
                /\ pc \in {"preserve", "present"}
             \/ failures' = failures /\ pc' \in {"write", "duplicate"}
                /\ (pc = "write" => pc' = "duplicate" /\ job'.landed = (job.write \/ job.landed))
             \/ /\ \E why : failures' = failures \cup {<<job.path, why>>}
                /\ pc' = "duplicate" \/ (pc' = "write" /\ ~job'.write)
                /\ ~job'.landed
      PROVE  RefusedStays'
  <2>1. /\ UNCHANGED <<disk, base, saved, again, before, outcome>> /\ job'.path = job.path
        /\ Running /\ pc' # "idle" /\ job.path \in saved
    BY <1>4 DEF SameSave, NotLanded, Running, SaveSteps, RefusedStays
  <2>2. failures' = failures => Refused' = Refused
    BY DEF Refused
  <2>3. ASSUME NEW why, failures' = failures \cup {<<job.path, why>>}
        PROVE  Refused' = Refused \cup {job.path}
    <3>1. <<job.path, why>>[1] = job.path
      OBVIOUS
    <3>2. \A x : x \in Refused' <=> x \in Refused \/ x = job.path
      BY <2>3, <3>1 DEF Refused
    <3> QED
      BY <3>2
  <2>4. Refused' = Refused \/ (Refused' = Refused \cup {job.path} /\ ~job'.landed
                                /\ (pc' = "write" => ~job'.write) /\ pc' \in {"write", "duplicate"})
    BY <1>4, <2>2, <2>3
  <2>5. job.path \notin again => AsFound(job.path)
    BY <1>4 DEF RefusedStays, AsFound
  <2>6. (Running \/ Ended)' => /\ Refused' \subseteq saved'
                              /\ \A p \in Refused' \ again' : AsFound(p)'
    BY <2>1, <2>4, <2>5 DEF RefusedStays, AsFound
  <2>7. /\ pc' \in {"preserve", "present", "diff", "merge"} /\ job'.path \notin again' =>
             job'.path \notin Refused'
        /\ pc' = "write" /\ job'.path \in Refused' \ again' => ~job'.write /\ ~job'.landed
        /\ pc' = "duplicate" /\ job'.path \in Refused' \ again' => ~job'.landed
    <3>1. CASE failures' = failures /\ pc \in {"preserve", "present"}
      BY <1>4, <2>1, <2>2, <3>1 DEF RefusedStays
    <3>2. CASE failures' = failures /\ pc \in {"diff", "merge"}
      BY <1>4, <2>1, <2>2, <3>2 DEF RefusedStays
    <3>3. CASE /\ failures' = failures /\ pc = "write" /\ pc' \in {"write", "duplicate"}
               /\ pc' = "duplicate" /\ job'.landed = (job.write \/ job.landed)
      BY <1>4, <2>1, <2>2, <3>3 DEF RefusedStays
    <3>4. CASE (pc' = "duplicate" \/ (pc' = "write" /\ ~job'.write)) /\ ~job'.landed
      BY <3>4
    <3> QED
      BY <1>4, <3>1, <3>2, <3>3, <3>4 DEF SaveSteps
  <2> QED
    BY <1>4, <2>1, <2>5, <2>6, <2>7 DEF RefusedStays, AsFound
\* A landing, of a path that is not refused.
<1>5. ASSUME SameSave, pc \in {"diff", "merge", "write"}, pc' = "duplicate",
             failures' = failures, NEW t, Land(t), pc = "write" => job.write
      PROVE  RefusedStays'
  <2>1. /\ UNCHANGED <<base, saved, again, before, outcome>> /\ job'.path = job.path
        /\ Running /\ job.path \in saved /\ Refused' = Refused
    BY <1>5 DEF SameSave, Running, SaveSteps, RefusedStays, Refused
  <2>2. \A p \in Paths : p # job.path => disk'[p] = disk[p]
    BY <1>5, LandIsLocal
  <2>3. job.path \notin again => job.path \notin Refused
    BY <1>5 DEF RefusedStays
  <2>4. /\ \A p \in Paths \ saved : AsFound(p)'
        /\ \A p \in Refused \ again : AsFound(p)'
    BY <1>h, <2>1, <2>2, <2>3 DEF RefusedStays, AsFound
  <2> QED
    BY <1>5, <2>1, <2>3, <2>4 DEF RefusedStays, AsFound, SaveSteps
<1>6. CASE Preserve
  BY <1>4, <1>6, PreserveDoes DEF Preserve, SaveSteps
<1>7. CASE Present
  <2>1. pc = "present" /\ pc' \in {"write", "diff", "merge"}
    BY <1>7 DEF Present
  <2>2. SameSave /\ NotLanded /\ failures' = failures
    BY <1>7, PresentDoes
  <2>4. pc \in SaveSteps \ {"duplicate"} /\ pc' \in SaveSteps /\ pc # "write"
    BY <2>1 DEF SaveSteps
  <2> QED
    BY <1>4, <2>1, <2>2, <2>4
<1>8. CASE Diff
  <2>1. pc = "diff" /\ pc' = "duplicate"
    BY <1>8 DEF Diff
  <2>2. SameSave /\ failures' = failures /\ (NotLanded \/ \E t : Land(t))
    BY <1>8, DiffDoes
  <2>4. pc \in SaveSteps \ {"duplicate"} /\ pc' \in SaveSteps
    BY <2>1 DEF SaveSteps
  <2> QED
    BY <1>4, <1>5, <2>1, <2>2, <2>4
<1>9. CASE MergeUnchanged
  <2>1. pc = "merge" /\ pc' = "duplicate"
    BY <1>9 DEF MergeUnchanged
  <2>2. SameSave /\ failures' = failures /\ NotLanded
    BY <1>9, MergeUnchangedDoes
  <2>4. pc \in SaveSteps \ {"duplicate"} /\ pc' \in SaveSteps
    BY <2>1 DEF SaveSteps
  <2> QED
    BY <1>4, <2>1, <2>2, <2>4
<1>10. CASE SaveMerge
  <2>1. pc = "merge" /\ pc' = "duplicate"
    BY <1>10, Zenon DEF SaveMerge
  <2>2. /\ SameSave
        /\ \/ (\E t : Land(t)) /\ failures' = failures
           \/ /\ ~job'.landed /\ NotLanded
              /\ \E why : failures' \in {failures, failures \cup {<<job.path, why>>}}
    BY <1>10, SaveMergeDoes
  <2>4. pc \in SaveSteps \ {"duplicate"} /\ pc' \in SaveSteps
    BY <2>1 DEF SaveSteps
  <2>5. CASE (\E t : Land(t)) /\ failures' = failures
    BY <1>5, <2>1, <2>2, <2>5
  <2>6. CASE ~job'.landed /\ NotLanded /\ failures' = failures
    BY <1>4, <2>1, <2>2, <2>4, <2>6
  <2>7. CASE /\ ~job'.landed /\ NotLanded
             /\ \E why : failures' = failures \cup {<<job.path, why>>}
    BY <1>4, <2>1, <2>2, <2>4, <2>7
  <2>8. \/ (\E t : Land(t)) /\ failures' = failures
        \/ ~job'.landed /\ NotLanded /\ failures' = failures
        \/ /\ ~job'.landed /\ NotLanded
           /\ \E why : failures' = failures \cup {<<job.path, why>>}
    BY <2>2
  <2> QED
    BY <2>5, <2>6, <2>7, <2>8
<1>11. CASE MergeNoBase
  <2>1. pc = "merge" /\ pc' = "write"
    BY <1>11, Zenon DEF MergeNoBase
  <2>2. /\ SameSave /\ NotLanded /\ ~job'.landed
        /\ \/ failures' = failures
           \/ failures' = failures \cup {<<job.path, "nobase">>} /\ ~job'.write
    BY <1>11, <2>1, MergeNoBaseDoes DEF SaveKnows
  <2>4. pc \in SaveSteps \ {"duplicate"} /\ pc' \in SaveSteps
    BY <2>1 DEF SaveSteps
  <2> QED
    BY <1>4, <2>1, <2>2, <2>4
<1>12. CASE Write
  <2>1. pc = "write" /\ pc' = "duplicate"
    BY <1>12, Zenon DEF Write
  <2>2. /\ SameSave /\ failures' = failures /\ job'.landed = (job.write \/ job.landed)
        /\ NotLanded \/ (job.write /\ Land(job.content))
    BY <1>12, WriteDoes
  <2>4. pc \in SaveSteps \ {"duplicate"} /\ pc' \in SaveSteps
    BY <2>1 DEF SaveSteps
  <2> QED
    BY <1>4, <1>5, <2>1, <2>2, <2>4
<1>13. CASE Duplicate
  <2>1. /\ pc = "duplicate" /\ pc' = "walk"
        /\ UNCHANGED <<disk, saved, again, failures, outcome, before>>
        /\ base' = base \/ (base' = [base EXCEPT ![job.path] = job.content] /\ MovesBase)
    BY <1>13, Zenon DEF Duplicate, Put
  <2>2. /\ job.path \in saved /\ job.path \in Paths /\ Running
        /\ MovesBase => job.path \notin Refused \ again
    BY <1>h, <2>1 DEF RefusedStays, MovesBase, SaveSteps, Running
  <2>3. \A p \in Paths : p # job.path => base'[p] = base[p]
    BY <1>h, <2>1
  <2>4. \A p \in (Paths \ saved) \cup (Refused \ again) : AsFound(p)'
    BY <1>h, <2>1, <2>2, <2>3 DEF RefusedStays, AsFound
  <2>5. Refused' = Refused
    BY <2>1 DEF Refused
  <2> QED
    BY <2>1, <2>2, <2>4, <2>5 DEF RefusedStays, SaveSteps, AsFound
<1>14. ASSUME pc # "idle", pc' = "idle",
              UNCHANGED <<disk, base, saved, again, failures, before>>
       PROVE  RefusedStays'
  BY <1>14 DEF RefusedStays, Refused, AsFound, Running, Ended, SaveSteps
<1>15. CASE \/ Finish
            \/ \E p \in Paths : InjectMissing(p)
            \/ \E how \in {"error", "crash"} : Stop(how)
  BY <1>14, <1>15 DEF Finish, InjectMissing, Stop, RunOver, provider, report
<1>16. ASSUME NEW kind, Event(kind) PROVE RefusedStays'
  BY <1>16 DEF Event, RefusedStays, Running, Ended, SaveSteps
<1>17. CASE \/ \E p \in Paths : UserEdit(p) \/ UserDelete(p) \/ UserCreate(p) \/ Checkout(p)
            \/ Clone \/ BadLog
  <2>1. \E kind : Event(kind)
    BY <1>17 DEF UserEdit, UserDelete, UserCreate, Checkout, Clone, BadLog
  <2> QED
    BY <1>16, <2>1
<1>18. CASE UNCHANGED vars
  BY <1>18 DEF vars, RefusedStays, Refused, AsFound, Running, Ended
<1> QED
  BY <1>1, <1>3, <1>6, <1>7, <1>8, <1>9, <1>10, <1>11, <1>12, <1>13, <1>15, <1>17, <1>18
     DEF Next, RunStep, Begin, SaveStep, Between

\* A file that a run refuses to overwrite is, when the run reports it, what it
\* was when the run began, and so is its baseline (saveMerge, MergeConflictError).
THEOREM RefusalsAreHarmless == Spec => []RefusedKeepsFileAndBase
<1>1. Init => TypeOK /\ SaveKnows /\ RefusedStays
  BY InitTypeOK, InitSaveKnows, InitRefusedStays
<1>2. /\ TypeOK /\ SaveKnows /\ RefusedStays /\ [Next]_vars
      => TypeOK' /\ SaveKnows' /\ RefusedStays'
  BY StepTypeOK, StepSaveKnows, StepRefusedStays
<1>3. RefusedStays => RefusedKeepsFileAndBase
  BY DEF RefusedStays, RefusedKeepsFileAndBase, Refused, AsFound
<1> QED
  BY <1>1, <1>2, <1>3, PTL DEF Spec

-----------------------------------------------------------------------------
(* A file with markers in it waits for its user. *)

\* In a merge run a file that held markers stays as it was found, and the
\* save in progress of it has not landed, unless the run gave it up.
Waiting(p) == Marked(before.disk[p]) /\ p \notin files.unmerged

MarkedWaits ==
    /\ pc = "diff" => opt.diff
    /\ MergeRun /\ (Running \/ outcome # "none") =>
         \A p \in Paths : Waiting(p) =>
             /\ AsFound(p)
             /\ pc \in SaveSteps /\ job.path = p => ~job.landed

\* No generator writes a marker.
LEMMA GeneratesAreUnmarked ==
    ASSUME NEW g \in Generates
    PROVE  ~Marked(g)
<1>1. \A r \in Regions : g[r] \subseteq GenLines \cup {Protect}
  BY HandlerAssumption
<1>2. Mark \notin GenLines \cup {Protect}
  BY LinesAssumption
<1> QED
  BY <1>1, <1>2 DEF Marked, HasConflicts

LEMMA InitMarkedWaits == Init => MarkedWaits
BY DEF Init, MarkedWaits, Running

LEMMA StepMarkedWaits ==
    ASSUME Injections = {}
    PROVE  TypeOK /\ MergeInv /\ SaveKnows /\ MarkedWaits /\ [Next]_vars => MarkedWaits'
<1>0. ASSUME MarkedWaits, [Next]_vars PROVE pc' = "diff" => opt'.diff
  BY <1>0 DEF MarkedWaits, Next, RunStep, Begin, SaveFile, Inject, BeginSave, SaveStep, Preserve,
     Present, Diff, MergeUnchanged, SaveMerge, MergeNoBase, Write, Duplicate, Finish,
     InjectMissing, Stop, RunOver, Between, StartRun, UserEdit, UserDelete, UserCreate,
     Checkout, Clone, BadLog, Event, vars
<1> SUFFICES ASSUME TypeOK, MergeInv, SaveKnows, MarkedWaits, [Next]_vars,
                    MergeRun', (Running \/ outcome # "none")', NEW p \in Paths, Waiting(p)'
             PROVE  /\ AsFound(p)'
                    /\ pc' \in SaveSteps /\ job'.path = p => ~job'.landed
  BY <1>0 DEF MarkedWaits
<1> DEFINE Goal == /\ AsFound(p)'
                   /\ pc' \in SaveSteps /\ job'.path = p => ~job'.landed
<1>h. /\ pc \in SaveSteps => job \in Jobs /\ job.path \in Paths
      /\ pc \in SaveSteps \ {"duplicate"} => job.existing = disk[job.path]
      /\ disk \in [Paths -> File] /\ base \in [Paths -> File]
      /\ RememberedAreGenerates /\ OverwriteIsListed
  BY DEF TypeOK, Jobs, MergeInv, SaveSeesTheFile
<1>1. ASSUME UNCHANGED <<opt, before>>, Running, p \notin files'.unmerged => p \notin files.unmerged
      PROVE  /\ MergeRun /\ AsFound(p) /\ Waiting(p)
             /\ pc \in SaveSteps /\ job.path = p => ~job.landed
  BY <1>1 DEF MarkedWaits, Waiting, MergeRun
<1>2. ASSUME NEW o \in OptionSets, StartRun(o) PROVE Goal
  BY <1>2 DEF StartRun, AsFound, SaveSteps, provider
<1>3. ASSUME NEW q \in Paths, NEW g \in Generates, BeginSave(q, g) PROVE Goal
  <2>1. /\ UNCHANGED <<opt, before, disk, base, files>> /\ Running
        /\ job'.path = q /\ job'.landed = (disk[q] = g)
    BY <1>3 DEF BeginSave, provider, Running
  <2>2. AsFound(p) /\ Marked(before.disk[p])
    BY <1>1, <2>1 DEF Waiting
  <2>3. disk[p] # g
    BY <2>2, GeneratesAreUnmarked DEF AsFound
  <2> QED
    BY <2>1, <2>2, <2>3 DEF AsFound
<1>4. ASSUME pc \in SaveSteps, SameSave, NotLanded, job'.landed => job.landed,
             p \notin files'.unmerged => p \notin files.unmerged
      PROVE  Goal
  <2>1. UNCHANGED <<opt, before, disk, base>> /\ Running /\ job'.path = job.path
    BY <1>4 DEF SameSave, NotLanded, Running, SaveSteps
  <2>2. AsFound(p) /\ (job.path = p => ~job.landed)
    BY <1>1, <1>4, <2>1
  <2> QED
    BY <1>4, <2>1, <2>2 DEF AsFound
<1>5. ASSUME NEW kinds, files' = Listed(kinds) PROVE p \notin files'.unmerged => p \notin files.unmerged
  BY <1>5 DEF Listed, TypeOK, Kinds
<1>6. ASSUME NEW t, Land(t), SameSave, pc \in SaveSteps, job.path # p,
             p \notin files'.unmerged => p \notin files.unmerged
      PROVE  Goal
  <2>1. UNCHANGED <<opt, before, base>> /\ Running /\ job'.path = job.path /\ disk'[p] = disk[p]
    BY <1>6, LandIsLocal DEF SameSave, Running, SaveSteps
  <2>2. AsFound(p)
    BY <1>1, <1>6, <2>1
  <2> QED
    BY <1>6, <2>1, <2>2 DEF AsFound
<1>7. CASE Preserve
  <2>1. SameSave /\ NotLanded /\ job' = job /\ pc \in SaveSteps
    BY <1>7, PreserveDoes DEF Preserve, SaveSteps
  <2>2. files' = files \/ files' = Listed({"preserved"})
    BY <1>7 DEF Preserve
  <2> QED
    BY <1>4, <1>5, <2>1, <2>2
<1>8. CASE Present
  <2>1. SameSave /\ NotLanded /\ job'.landed = job.landed /\ pc \in SaveSteps
    BY <1>8, PresentDoes DEF Present, SaveSteps
  <2>2. files' = files \/ files' = Listed({"presented"})
    BY <1>8, Zenon DEF Present
  <2> QED
    BY <1>4, <1>5, <2>1, <2>2
<1>9. CASE Diff
  BY <1>9, DiffDoes DEF Diff, SameSave, MergeRun, MarkedWaits
<1>10. CASE MergeUnchanged
  <2>1. SameSave /\ NotLanded /\ job.landed /\ pc \in SaveSteps
    BY <1>10, MergeUnchangedDoes DEF MergeUnchanged, SaveSteps, SaveKnows
  <2> QED
    BY <1>4, <1>5, <1>10, <2>1 DEF MergeUnchanged
<1>11. CASE SaveMerge
  <2>1. pc = "merge" /\ pc \in SaveSteps /\ SameSave /\ ~Unchanged /\ Mergeable
    BY <1>11, SaveMergeDoes, Zenon DEF SaveMerge, SaveSteps
  <2>2. p \notin files'.unmerged => p \notin files.unmerged
    <3>1. \E conflict : files' = Listed(MergeLists(conflict))
      BY <1>11, Zenon DEF SaveMerge
    <3> QED
      BY <1>5, <3>1
  <2>3. CASE job.path = p
    <3>1. job.existing = before.disk[p] /\ Marked(job.existing) /\ job.existing \notin Generates
      BY <1>h, <1>1, <2>1, <2>2, <2>3, GeneratesAreUnmarked
         DEF SameSave, Running, SaveSteps, AsFound, Waiting
    <3>2. ~Earlier
      BY <1>h, <2>1, <3>1 DEF Earlier, RememberedAreGenerates
    <3>3. job.existing # Baseline
      BY <1>h, <2>1, <3>1, <3>2 DEF Mergeable, Baseline, RememberedAreGenerates
    <3>4. Merged.outcome = "unresolved"
      BY <2>1, <3>1, <3>2, <3>3 DEF Merged, Merge, Unchanged, Unresolved, Marked
    <3>5. NotLanded /\ job' = Decided(FALSE, FALSE)
      BY <1>11, <3>4, Zenon DEF SaveMerge
    <3>6. ~job'.landed
      BY <1>h, <2>1, <3>5, DecidedIsJob
    <3> QED
      BY <1>4, <2>1, <2>2, <3>5, <3>6
  <2>4. CASE job.path # p
    <3>1. NotLanded \/ \E t : Land(t)
      BY <1>11, SaveMergeDoes
    <3>2. ASSUME NotLanded PROVE Goal
      BY <1>1, <2>1, <2>2, <2>4, <3>2 DEF SameSave, NotLanded, Running, SaveSteps, AsFound
    <3> QED
      BY <1>6, <2>1, <2>2, <2>4, <3>1, <3>2
  <2> QED
    BY <2>3, <2>4
<1>12. CASE MergeNoBase
  <2>1. SameSave /\ NotLanded /\ job'.landed = job.landed /\ pc \in SaveSteps
    BY <1>12, MergeNoBaseDoes DEF MergeNoBase, SaveSteps
  <2> QED
    BY <1>4, <1>5, <1>12, <2>1 DEF MergeNoBase
<1>13. CASE Write
  <2>1. pc = "write" /\ pc \in SaveSteps /\ SameSave /\ job'.landed = (job.write \/ job.landed)
    BY <1>13, WriteDoes DEF Write, SaveSteps
  <2>2. p \notin files'.unmerged => p \notin files.unmerged
    <3>1. files' = files \/ files' = Listed({"unchanged"}) \/ files' = Listed({"written"})
      BY <1>13, Zenon DEF Write
    <3> QED
      BY <1>5, <3>1
  <2>3. CASE job.path = p
    <3>1. MergeRun /\ job.existing # NoFile /\ p \notin files.unmerged
      BY <1>h, <1>1, <2>1, <2>2, <2>3
         DEF SameSave, Running, SaveSteps, AsFound, Waiting, Marked
    <3>2. ~job.write
      BY <1>h, <2>1, <2>3, <3>1 DEF OverwriteIsListed
    <3> QED
      BY <1>4, <1>13, <2>1, <2>2, <3>2, WriteDoes
  <2>4. CASE job.path # p
    <3>1. ASSUME NotLanded PROVE Goal
      BY <1>1, <2>1, <2>2, <2>4, <3>1 DEF SameSave, NotLanded, Running, SaveSteps, AsFound
    <3> QED
      BY <1>6, <1>13, <2>1, <2>2, <2>4, <3>1, WriteDoes
  <2> QED
    BY <2>3, <2>4
<1>14. CASE Duplicate
  <2>1. /\ pc = "duplicate" /\ pc' = "walk"
        /\ UNCHANGED <<disk, opt, files, before>>
        /\ base' = base \/ (base' = [base EXCEPT ![job.path] = job.content] /\ MovesBase)
    BY <1>14, Zenon DEF Duplicate, Put
  <2>2. AsFound(p) /\ (job.path = p => ~job.landed)
    BY <1>1, <2>1 DEF Running, SaveSteps
  <2>3. base'[p] = base[p]
    BY <1>h, <2>1, <2>2 DEF MovesBase, SaveSteps
  <2> QED
    BY <2>1, <2>2, <2>3 DEF AsFound, SaveSteps
<1>15. CASE \/ Finish
            \/ \E q \in Paths : InjectMissing(q)
            \/ \E how \in {"error", "crash"} : Stop(how)
  <2>1. /\ UNCHANGED <<disk, base, opt, files, before>> /\ Running /\ pc' = "idle"
    BY <1>15 DEF Finish, InjectMissing, Stop, RunOver, provider, report, Running
  <2>2. AsFound(p)
    BY <1>1, <2>1
  <2> QED
    BY <2>1, <2>2 DEF AsFound, SaveSteps
<1>16. ASSUME NEW kind, Event(kind) PROVE FALSE
  BY <1>16 DEF Event, Running
<1>17. CASE \/ \E q \in Paths : UserEdit(q) \/ UserDelete(q) \/ UserCreate(q) \/ Checkout(q)
            \/ Clone \/ BadLog
  <2>1. \E kind : Event(kind)
    BY <1>17 DEF UserEdit, UserDelete, UserCreate, Checkout, Clone, BadLog
  <2> QED
    BY <1>16, <2>1
<1>18. CASE UNCHANGED vars
  BY <1>18 DEF vars, MarkedWaits, MergeRun, Running, Waiting, AsFound
<1> QED
  BY <1>2, <1>3, <1>7, <1>8, <1>9, <1>10, <1>11, <1>12, <1>13, <1>14, <1>15, <1>17, <1>18
     DEF Next, RunStep, Begin, SaveFile, Inject, SaveStep, Between

\* A merge run leaves a file that holds markers, and its baseline, as it found
\* them, however the run ends, unless it lists the file as unmerged
\* (saveMerge, HasConflicts).
THEOREM MarkersAreLeftAlone ==
    ASSUME Injections = {}
    PROVE  Spec => []UnresolvedLeftAlone
<1>1. Init => IInv /\ SaveKnows /\ MarkedWaits
  BY InitTypeOK, InitMergeInv, InitSaveKnows, InitMarkedWaits DEF IInv
<1>2. /\ IInv /\ SaveKnows /\ MarkedWaits /\ [Next]_vars
      => IInv' /\ SaveKnows' /\ MarkedWaits'
  BY StepTypeOK, StepMergeInv, StepSaveKnows, StepMarkedWaits DEF IInv
<1>3. MarkedWaits => UnresolvedLeftAlone
  BY DEF MarkedWaits, UnresolvedLeftAlone, Waiting, AsFound
<1> QED
  BY <1>1, <1>2, <1>3, PTL DEF Spec

-----------------------------------------------------------------------------
(* A backup is of what the run found. *)

BackupInv ==
    /\ files.preserved \subseteq saved
    /\ ~opt.dryrun /\ (Running \/ Ended) =>
         \A p \in files.preserved \ again : old[p] = before.disk[p]

LEMMA InitBackupInv == Init => BackupInv
BY DEF Init, BackupInv, NoLists, Kinds

LEMMA StepBackupInv ==
    TypeOK /\ RefusedStays /\ BackupInv /\ [Next]_vars => BackupInv'
<1> SUFFICES ASSUME TypeOK, RefusedStays, BackupInv, [Next]_vars PROVE BackupInv'
  OBVIOUS
<1>1. ASSUME Running \/ (UNCHANGED <<pc, outcome>>), UNCHANGED <<old, opt, before>>,
             saved \subseteq saved', again \subseteq again',
             files'.preserved = files.preserved
      PROVE  BackupInv'
  BY <1>1 DEF BackupInv, Running, Ended
<1>2. ASSUME NEW kinds, files' = Listed(kinds), "preserved" \notin kinds
      PROVE  files'.preserved = files.preserved
  BY <1>2 DEF Listed, TypeOK, Kinds
<1>3. ASSUME NEW o \in OptionSets, StartRun(o) PROVE BackupInv'
  BY <1>3 DEF StartRun, BackupInv, NoLists, Kinds
<1>4. CASE Begin
  BY <1>1, <1>4 DEF Begin, SaveFile, Inject, BeginSave, provider, Running
<1>5. CASE Preserve
  <2>1. /\ pc = "preserve" /\ pc' = "present" /\ job.path \in saved /\ job.path \in Paths
        /\ UNCHANGED <<opt, before, saved, again, outcome>> /\ Running
        /\ job.path \notin again => disk[job.path] = before.disk[job.path]
    BY <1>5 DEF Preserve, RefusedStays, SaveSteps, TypeOK, Jobs, Running
  <2>2. CASE UNCHANGED <<old, files>>
    BY <1>1, <2>1, <2>2
  <2>3. CASE old' = Put(old, disk[job.path]) /\ files' = Listed({"preserved"})
    <3>1. files'.preserved = files.preserved \cup {job.path}
      BY <2>3 DEF Listed, TypeOK, Kinds
    <3>2. ~opt.dryrun => \A p \in Paths : old'[p] = IF p = job.path THEN disk[p] ELSE old[p]
      BY <2>1, <2>3 DEF Put, TypeOK
    <3>3. files.preserved \subseteq Paths
      BY DEF TypeOK, Kinds
    <3> QED
      BY <2>1, <3>1, <3>2, <3>3 DEF BackupInv, Running
  <2> QED
    BY <1>5, <2>2, <2>3, Zenon DEF Preserve, Backup
<1>6. CASE Present \/ Diff \/ MergeUnchanged \/ SaveMerge \/ MergeNoBase \/ Write \/ Duplicate
  <2>1. /\ pc \in SaveSteps
        /\ UNCHANGED <<old, opt, before, saved, again>>
    BY <1>6, Zenon DEF Present, Diff, MergeUnchanged, SaveMerge, MergeNoBase, Write, Duplicate,
       provider, SaveSteps
  <2>2. \/ files' = files
        \/ \E kinds \in {{"presented"}, {"unchanged"}, {"diffed", "conflicted"}, {"unmerged"},
                          {"written"}} : files' = Listed(kinds)
        \/ \E conflict : files' = Listed(MergeLists(conflict))
    <3>1. CASE SaveMerge
      BY <3>1, Zenon DEF SaveMerge
    <3>2. CASE Present \/ Diff \/ MergeUnchanged \/ MergeNoBase \/ Write \/ Duplicate
      BY <3>2 DEF Present, Diff, MergeUnchanged, MergeNoBase, Write, Duplicate
    <3> QED
      BY <1>6, <3>1, <3>2
  <2>3. \A conflict : "preserved" \notin MergeLists(conflict)
    BY DEF MergeLists
  <2>4. files'.preserved = files.preserved
    BY <1>2, <2>2, <2>3
  <2> QED
    BY <1>1, <2>1, <2>4 DEF Running, SaveSteps
<1>7. CASE \/ Finish
           \/ \E q \in Paths : InjectMissing(q)
           \/ \E how \in {"error", "crash"} : Stop(how)
  BY <1>1, <1>7 DEF Finish, InjectMissing, Stop, provider, report, Running
<1>8. ASSUME NEW kind, Event(kind) PROVE BackupInv'
  BY <1>8 DEF Event, BackupInv, Running, Ended, report
<1>9. CASE \/ \E q \in Paths : UserEdit(q) \/ UserDelete(q) \/ UserCreate(q) \/ Checkout(q)
           \/ Clone \/ BadLog
  <2>1. \E kind : Event(kind)
    BY <1>9 DEF UserEdit, UserDelete, UserCreate, Checkout, Clone, BadLog
  <2> QED
    BY <1>8, <2>1
<1>10. CASE UNCHANGED vars
  BY <1>1, <1>10 DEF vars
<1> QED
  BY <1>3, <1>4, <1>5, <1>6, <1>7, <1>9, <1>10 DEF Next, RunStep, SaveStep, Between

\* The .old sidecar of a path saved once in a run holds the bytes the run found
\* there (copyFile of saveAs), Injects or not.
THEOREM BackupsAreOfBefore == Spec => []PreservedOnceHoldsBefore
<1>1. Init => TypeOK /\ SaveKnows /\ RefusedStays /\ BackupInv
  BY InitTypeOK, InitSaveKnows, InitRefusedStays, InitBackupInv
<1>2. /\ TypeOK /\ SaveKnows /\ RefusedStays /\ BackupInv /\ [Next]_vars
      => TypeOK' /\ SaveKnows' /\ RefusedStays' /\ BackupInv'
  BY StepTypeOK, StepSaveKnows, StepRefusedStays, StepBackupInv
<1>3. BackupInv => PreservedOnceHoldsBefore
  BY DEF BackupInv, PreservedOnceHoldsBefore
<1> QED
  BY <1>1, <1>2, <1>3, PTL DEF Spec

-----------------------------------------------------------------------------
(* The report is true of the file and its baseline. *)

\* A landing made the file and the baseline what they are.
Reconciled(p) == <<base[p], disk[p]>> \in landings[p]

\* The save in progress has landed, and its baseline is still to come.
Coming(p) == pc \in SaveSteps /\ job.path = p /\ job.landed

Made == <<job.content, disk[job.path]>> \in landings[job.path]

ReportInv ==
    ~opt.dryrun =>
        /\ opt.duplicate /\ (Running \/ Ended) =>
             \A p \in Paths \cap HoldsGenerate : Reconciled(p) \/ Coming(p)
        /\ pc \in SaveSteps /\ job.landed => Made
        /\ pc \in SaveSteps \ {"duplicate"} /\ Unchanged => Made

LEMMA InitReportInv == Init => ReportInv
BY DEF Init, ReportInv, Running, Ended, SaveSteps

\* A step of a save: nothing new is reported unless it has landed.
LEMMA SaveStepReports ==
    ASSUME TypeOK, SaveKnows, ReportInv, pc \in SaveSteps \ {"duplicate"}, pc' \in SaveSteps, SameSave,
           job.landed => job'.landed,
           \/ NotLanded /\ (job'.landed => job.landed \/ Unchanged)
           \/ job'.landed /\ \E t : Land(t) /\ pc' = "duplicate",
           \A p \in HoldsGenerate' \ HoldsGenerate : p = job.path /\ job'.landed
    PROVE  ReportInv'
<1> SUFFICES ASSUME ~opt.dryrun PROVE ReportInv'
  BY DEF ReportInv, SameSave
<1>1. /\ job.path \in Paths /\ job'.path = job.path /\ job'.content = job.content
      /\ job'.existing = job.existing /\ base' = base /\ opt' = opt
      /\ disk \in [Paths -> File] /\ job.existing = disk[job.path] /\ job \in Jobs
  BY DEF SameSave, Jobs, TypeOK, SaveKnows, SaveSeesTheFile
<1>2. CASE NotLanded /\ (job'.landed => job.landed \/ Unchanged)
  <2>1. UNCHANGED <<disk, landings>> /\ (Unchanged <=> Unchanged') /\ (Made <=> Made')
    BY <1>1, <1>2 DEF NotLanded, Unchanged, Made
  <2>2. /\ pc' \in SaveSteps /\ job'.landed => Made'
        /\ pc' \in SaveSteps \ {"duplicate"} /\ Unchanged' => Made'
    BY <1>2, <2>1 DEF ReportInv
  <2>3. ASSUME opt'.duplicate, NEW p \in Paths, p \in HoldsGenerate' PROVE Reconciled(p)' \/ Coming(p)'
    <3>1. p \in HoldsGenerate => Reconciled(p) \/ Coming(p)
      BY <1>1, <2>3 DEF ReportInv, Running, SaveSteps
    <3> QED
      BY <1>1, <2>1, <2>3, <3>1 DEF Reconciled, Coming
  <2> QED
    BY <2>2, <2>3 DEF ReportInv
<1>3. ASSUME job'.landed, NEW t, Land(t), pc' = "duplicate" PROVE ReportInv'
  <2>1. disk' = [disk EXCEPT ![job.path] = t]
        /\ landings' = [landings EXCEPT ![job.path] = @ \cup {<<job.content, t>>}]
    BY <1>3 DEF Land, Put
  <2>2. Made'
    BY <1>1, <2>1 DEF Made, TypeOK
  <2>3. ASSUME opt'.duplicate, NEW p \in Paths, p \in HoldsGenerate' PROVE Reconciled(p)' \/ Coming(p)'
    <3>1. CASE p = job.path
      BY <1>1, <1>3, <3>1 DEF Coming
    <3>2. CASE p # job.path
      <4>1. Reconciled(p)
        BY <1>1, <2>3, <3>2 DEF ReportInv, Running, SaveSteps, Coming
      <4> QED
        BY <1>1, <2>1, <3>2, <4>1 DEF Reconciled, TypeOK
    <3> QED
      BY <3>1, <3>2
  <2> QED
    BY <1>3, <2>2, <2>3 DEF ReportInv
<1> QED
  BY <1>2, <1>3

LEMMA StepReportInv == TypeOK /\ SaveKnows /\ ReportInv /\ [Next]_vars => ReportInv'
<1> SUFFICES ASSUME TypeOK, SaveKnows, ReportInv, [Next]_vars PROVE ReportInv'
  OBVIOUS
<1>1. ASSUME NEW o \in OptionSets, StartRun(o) PROVE ReportInv'
  BY <1>1 DEF StartRun, ReportInv, HoldsGenerate, NoLists, Kinds, SaveSteps
<1>2. ASSUME NEW p \in Paths, NEW content, BeginSave(p, content) PROVE ReportInv'
  <2>1. /\ pc = "walk" /\ pc' \in SaveSteps
        /\ job'.path = p /\ job'.content = content /\ job'.existing = disk[p]
        /\ job'.landed = (disk[p] = content)
        /\ UNCHANGED <<disk, base, opt, files>>
        /\ disk[p] = content => landings' = [landings EXCEPT ![p] = @ \cup {<<content, content>>}]
        /\ disk[p] # content => landings' = landings
    BY <1>2 DEF BeginSave, provider, SaveSteps
  <2>2. disk[p] = content => Made'
    BY <2>1 DEF Made, TypeOK
  <2>3. \A q \in Paths : landings[q] \subseteq landings'[q]
    BY LandingsGrow
  <2>4. ASSUME ~opt.dryrun, opt.duplicate, NEW q \in Paths, q \in HoldsGenerate PROVE Reconciled(q)'
    <3>1. Reconciled(q)
      BY <2>1, <2>4 DEF ReportInv, Running, Coming, SaveSteps
    <3> QED
      BY <2>1, <2>3, <3>1 DEF Reconciled
  <2> QED
    BY <2>1, <2>2, <2>4 DEF ReportInv, HoldsGenerate, Unchanged
<1>3. CASE \E p \in Paths : SaveFile(p) \/ Inject(p)
  BY <1>2, <1>3 DEF SaveFile, Inject
<1>4. ASSUME NEW kinds, files' = Listed(kinds)
      PROVE  /\ \A p \in HoldsGenerate' \ HoldsGenerate : p = job.path
             /\ kinds \cap {"written", "diffed", "unchanged", "merged"} = {} => HoldsGenerate' \subseteq HoldsGenerate
             /\ {"merged", "conflicted"} \subseteq kinds
                  /\ kinds \cap {"written", "diffed", "unchanged"} = {} => HoldsGenerate' \subseteq HoldsGenerate
  BY <1>4 DEF Listed, HoldsGenerate, TypeOK, Kinds
<1>5. ASSUME files' = files PROVE HoldsGenerate' = HoldsGenerate
  BY <1>5 DEF HoldsGenerate
<1>6. CASE Preserve
  <2>1. /\ SameSave /\ NotLanded /\ job' = job
        /\ pc \in SaveSteps \ {"duplicate"} /\ pc' \in SaveSteps
    BY <1>6, PreserveDoes DEF Preserve, SaveSteps
  <2>2. HoldsGenerate' \subseteq HoldsGenerate
    BY <1>4, <1>5, <1>6 DEF Preserve
  <2> QED
    BY <2>1, <2>2, SaveStepReports
<1>7. CASE Present
  <2>1. /\ SameSave /\ NotLanded /\ job'.landed = job.landed
        /\ pc \in SaveSteps \ {"duplicate"} /\ pc' \in SaveSteps
    BY <1>7, PresentDoes DEF Present, SaveSteps
  <2>2. files' = files \/ files' = Listed({"presented"})
    BY <1>7, Zenon DEF Present
  <2>3. HoldsGenerate' \subseteq HoldsGenerate
    BY <1>4, <1>5, <2>2
  <2> QED
    BY <2>1, <2>3, SaveStepReports
<1>8. CASE Diff
  <2>1. /\ SameSave /\ job'.landed /\ pc \in SaveSteps \ {"duplicate"} /\ pc' = "duplicate"
        /\ pc' \in SaveSteps /\ ((Unchanged /\ NotLanded) \/ \E t : Land(t))
    BY <1>8, DiffDoes DEF Diff, SaveSteps
  <2>2. files' = Listed({"unchanged"}) \/ files' = Listed({"diffed", "conflicted"})
    BY <1>8 DEF Diff
  <2> QED
    BY <1>4, <2>1, <2>2, SaveStepReports
<1>9. CASE MergeUnchanged
  <2>1. /\ SameSave /\ job'.landed /\ pc \in SaveSteps \ {"duplicate"}
        /\ pc' \in SaveSteps /\ Unchanged /\ NotLanded /\ files' = Listed({"unchanged"})
    BY <1>9, MergeUnchangedDoes DEF MergeUnchanged, SaveSteps
  <2> QED
    BY <1>4, <2>1, SaveStepReports
<1>10. CASE SaveMerge
  <2>1. /\ pc \in SaveSteps \ {"duplicate"} /\ pc' = "duplicate" /\ pc' \in SaveSteps
        /\ SameSave /\ ~Unchanged /\ pc = "merge" /\ ~job.landed
    BY <1>10, SaveMergeDoes, Zenon DEF SaveMerge, SaveSteps, SaveKnows
  <2>2. \/ job'.landed /\ \E t : Land(t)
        \/ ~job'.landed /\ NotLanded
    BY <1>10, SaveMergeDoes
  <2>3. \A p \in HoldsGenerate' \ HoldsGenerate : p = job.path /\ job'.landed
    <3> DEFINE conflict == Merged.conflict \/ Merged.outcome = "unresolved"
               landed == /\ ~(Merged.outcome = "unresolved")
                         /\ ~(conflict /\ opt.conflictFail)
    <3>1. files' = Listed(MergeLists(conflict)) /\ job' = Decided(FALSE, landed)
      BY <1>10, Zenon DEF SaveMerge
    <3>2. landed \in BOOLEAN /\ (~conflict => landed) /\ conflict \in BOOLEAN
      OBVIOUS
    <3> HIDE DEF conflict, landed
    <3>3. job'.landed = landed
      BY <2>1, <3>1, <3>2, DecidedIsJob DEF SameSave
    <3>4. CASE conflict
      <4>1. MergeLists(conflict) = {"merged", "conflicted"}
        BY <3>4 DEF MergeLists
      <4> QED
        BY <1>4, <3>1, <4>1
    <3>5. CASE ~conflict
      BY <1>4, <3>1, <3>2, <3>3, <3>5
    <3> QED
      BY <3>2, <3>4, <3>5
  <2> QED
    BY <2>1, <2>2, <2>3, SaveStepReports
<1>11. CASE MergeNoBase
  <2>1. /\ SameSave /\ NotLanded /\ job'.landed = job.landed
        /\ pc \in SaveSteps \ {"duplicate"} /\ pc' \in SaveSteps
        /\ files' = Listed({"unmerged"})
    BY <1>11, MergeNoBaseDoes DEF MergeNoBase, SaveSteps
  <2> QED
    BY <1>4, <2>1, SaveStepReports
<1>12. CASE Write
  <2>1. /\ pc \in SaveSteps \ {"duplicate"} /\ pc' = "duplicate" /\ pc' \in SaveSteps
        /\ SameSave /\ job'.landed = (job.write \/ job.landed)
        /\ \/ job.write /\ ~Unchanged /\ Land(job.content)
           \/ (~job.write \/ Unchanged) /\ NotLanded
    BY <1>12, WriteDoes DEF Write, SaveSteps
  <2>2. \/ ~job.write /\ files' = files
        \/ job.write /\ (files' = Listed({"unchanged"}) \/ files' = Listed({"written"}))
    BY <1>12, Zenon DEF Write
  <2>3. \A p \in HoldsGenerate' \ HoldsGenerate : p = job.path /\ job'.landed
    BY <1>4, <1>5, <2>1, <2>2
  <2> QED
    BY <2>1, <2>3, SaveStepReports
<1>13. CASE Duplicate
  <2>1. /\ pc = "duplicate" /\ pc' = "walk" /\ job.path \in Paths
        /\ UNCHANGED <<disk, opt, files, landings>>
        /\ base' = IF MovesBase THEN Put(base, job.content) ELSE base
    <3>1. job.path \in Paths
      BY <1>13 DEF Duplicate, TypeOK, SaveSteps, Jobs
    <3> QED
      BY <1>13, <3>1, Zenon DEF Duplicate
  <2>2. ASSUME ~opt.dryrun, opt.duplicate, NEW p \in Paths, p \in HoldsGenerate PROVE Reconciled(p)'
    <3>1. Reconciled(p) \/ Coming(p)
      BY <2>1, <2>2 DEF ReportInv, Running
    <3>2. CASE p = job.path /\ job.landed
      BY <2>1, <2>2, <3>2 DEF ReportInv, Made, MovesBase, Put, Reconciled, TypeOK, SaveSteps
    <3>3. CASE p # job.path
      <4>1. base'[p] = base[p]
        BY <2>1, <2>2, <3>3 DEF Put, TypeOK
      <4> QED
        BY <2>1, <3>1, <3>3, <4>1 DEF Reconciled, Coming
    <3>4. CASE ~job.landed
      BY <2>1, <3>1, <3>4 DEF MovesBase, Reconciled, Coming
    <3> QED
      BY <3>2, <3>3, <3>4
  <2> QED
    BY <2>1, <2>2 DEF ReportInv, HoldsGenerate, SaveSteps
<1>14. CASE Finish
  <2>1. /\ pc = "walk" /\ pc' = "idle" /\ UNCHANGED <<disk, base, opt, files, landings>>
    BY <1>14 DEF Finish, RunOver, report
  <2> QED
    BY <2>1 DEF ReportInv, HoldsGenerate, Reconciled, Coming, Running, SaveSteps
<1>15. CASE \/ \E q \in Paths : InjectMissing(q)
            \/ \E how \in {"error", "crash"} : Stop(how)
            \/ \E kind : Event(kind)
  <2>1. pc' = "idle" /\ ~Ended'
    BY <1>15 DEF InjectMissing, Stop, Event, RunOver, Ended
  <2> QED
    BY <2>1 DEF ReportInv, Running, SaveSteps
<1>16. CASE \/ \E q \in Paths : UserEdit(q) \/ UserDelete(q) \/ UserCreate(q) \/ Checkout(q)
            \/ Clone \/ BadLog
  <2>1. \E kind : Event(kind)
    BY <1>16 DEF UserEdit, UserDelete, UserCreate, Checkout, Clone, BadLog
  <2> QED
    BY <1>15, <2>1
<1>17. CASE UNCHANGED vars
  BY <1>17 DEF vars, ReportInv, HoldsGenerate, Reconciled, Coming, Made, Unchanged, Running, Ended
<1> QED
  BY <1>1, <1>3, <1>6, <1>7, <1>8, <1>9, <1>10, <1>11, <1>12, <1>13, <1>14, <1>15, <1>16, <1>17
     DEF Next, RunStep, Begin, SaveStep, Between

\* A run that goes on has not ended.
RunIsOn == Running => ~Ended

LEMMA StepRunIsOn == RunIsOn /\ [Next]_vars => RunIsOn'
BY DEF RunIsOn, Running, Ended, Next, RunStep, Begin, SaveFile, Inject, BeginSave, SaveStep,
   Preserve, Present, Diff, MergeUnchanged, SaveMerge, MergeNoBase, Write, Duplicate, Finish,
   InjectMissing, Stop, RunOver, Between, StartRun, UserEdit, UserDelete, UserCreate,
   Checkout, Clone, BadLog, Event, vars

\* What a run that ended says it did with a file is what the file and its
\* baseline are (filelog, writeDuplicate), Injects or not.
THEOREM TheReportIsTrue == Spec => []BaseFollowsReport
<1>1. Init => TypeOK /\ SaveKnows /\ ReportInv /\ RunIsOn
  BY InitTypeOK, InitSaveKnows, InitReportInv DEF Init, RunIsOn, Running
<1>2. /\ TypeOK /\ SaveKnows /\ ReportInv /\ RunIsOn /\ [Next]_vars
      => TypeOK' /\ SaveKnows' /\ ReportInv' /\ RunIsOn'
  BY StepTypeOK, StepSaveKnows, StepReportInv, StepRunIsOn
<1>3. ReportInv /\ RunIsOn => BaseFollowsReport
  BY DEF ReportInv, RunIsOn, BaseFollowsReport, HoldsGenerate, Reconciled, Coming, Running, SaveSteps
<1> QED
  BY <1>1, <1>2, <1>3, PTL DEF Spec

-----------------------------------------------------------------------------
(* No generated line is left behind unaccounted for. *)

Unmarked(f) == f # NoFile /\ ~HasConflicts(f)

\* The generated lines of a file are those of a text, or the user's to keep.
Accounted(f, t, kept) == \A r \in Regions : f[r] \cap GenLines \subseteq t[r] \cup kept

\* The save has landed, and the baseline is about to follow.
Following(p) == pc = "duplicate" /\ job.path = p /\ job.landed /\ ~opt.dryrun

AccountInv ==
    /\ pc \in SaveSteps \ {"duplicate"} /\ job.landed => Unchanged
    /\ \A p \in Paths : Unmarked(disk[p]) =>
         /\ Following(p) => Accounted(disk[p], job.content, adopted[p])
         /\ ~Following(p) /\ base[p] # NoFile => Accounted(disk[p], base[p], adopted[p])

\* A diff that finds a difference marks it.
LEMMA RenderIsMarked ==
    ASSUME NEW gen \in Text, NEW exist \in Text, gen # exist
    PROVE  HasConflicts(DiffRender(gen, exist))
<1>1. PICK r \in Regions : gen[r] # exist[r]
  BY DEF Text
<1>2. Mark \in DiffRender(gen, exist)[r]
  BY <1>1 DEF DiffRender, Conflict
<1> QED
  BY <1>2 DEF HasConflicts

\* A merge that marks nothing keeps a generated line only where the baseline
\* still is the generate.
LEMMA MergeAccounts ==
    ASSUME NEW gen \in Text, NEW bas \in Text, NEW exist \in Text, NEW kept, gen # exist,
           ~HasConflicts(exist) => Accounted(exist, bas, kept),
           Merge(gen, bas, exist).outcome # "unresolved",
           ~HasConflicts(Merge(gen, bas, exist).content)
    PROVE  Accounted(Merge(gen, bas, exist).content, gen, kept)
<1>1. CASE exist = bas
  BY <1>1 DEF Merge, Accounted
<1>2. CASE exist # bas
  <2> DEFINE t == Merge(gen, bas, exist).content
  <2>1. ~HasConflicts(exist) /\ t = [r \in Regions |-> MergeRegion(gen[r], bas[r], exist[r])]
    BY <1>2 DEF Merge, Unresolved
  <2> HIDE DEF t
  <2>2. ASSUME NEW r \in Regions PROVE t[r] \cap GenLines \subseteq gen[r] \cup kept
    <3>1. t[r] = MergeRegion(gen[r], bas[r], exist[r]) /\ Mark \notin t[r]
      BY <2>1 DEF t, HasConflicts
    <3>2. \/ t[r] = exist[r] /\ bas[r] = gen[r]
          \/ t[r] = gen[r]
      BY <3>1 DEF MergeRegion, Conflict
    <3>3. exist[r] \cap GenLines \subseteq bas[r] \cup kept
      BY <2>1 DEF Accounted
    <3> QED
      BY <3>2, <3>3
  <2> QED
    BY <2>2 DEF Accounted, t
<1> QED
  BY <1>1, <1>2

LEMMA InitAccountInv == Init => AccountInv
BY DEF Init, AccountInv, NoFiles, Unmarked, SaveSteps

\* A step within a save: what it lands, the generate accounts for.
LEMMA SaveStepAccounts ==
    ASSUME TypeOK, SaveKnows, AccountInv, SameSave, adopted' = adopted,
           pc \in SaveSteps \ {"duplicate"}, pc' \in SaveSteps,
           \/ NotLanded /\ (job'.landed => Unchanged)
           \/ /\ pc' = "duplicate" /\ job'.landed
              /\ \E t \in Text : /\ Land(t)
                                 /\ Unmarked(t) => Accounted(t, job.content, adopted[job.path])
    PROVE  AccountInv'
<1>1. /\ job \in Jobs /\ job.path \in Paths /\ job'.path = job.path
      /\ job'.content = job.content /\ job'.existing = job.existing
      /\ opt' = opt /\ base' = base /\ job.existing = disk[job.path]
  BY DEF SameSave, Jobs, SaveKnows, SaveSeesTheFile
<1>2. ASSUME NEW q \in Paths, Unmarked(disk[q]), base[q] # NoFile
      PROVE  Accounted(disk[q], base[q], adopted[q])
  BY <1>2 DEF AccountInv, Following
<1>3. CASE NotLanded /\ (job'.landed => Unchanged)
  <2>1. disk' = disk /\ (Unchanged' <=> Unchanged)
    BY <1>1, <1>3 DEF NotLanded, Unchanged
  <2>2. ASSUME NEW q \in Paths, Following(q)'
        PROVE  Accounted(disk[q], job.content, adopted[q])
    <3>1. disk[q] = job.content
      BY <1>1, <1>3, <2>2 DEF Following, Unchanged
    <3> QED
      BY <3>1 DEF Accounted
  <2> QED
    BY <1>1, <1>2, <1>3, <2>1, <2>2 DEF AccountInv
<1>4. ASSUME pc' = "duplicate", job'.landed, NEW t \in Text, Land(t),
             Unmarked(t) => Accounted(t, job.content, adopted[job.path])
      PROVE  AccountInv'
  <2>1. CASE opt.dryrun
    BY <1>1, <1>2, <1>4, <2>1 DEF Land, Put, AccountInv, Following
  <2>2. CASE ~opt.dryrun
    <3>1. /\ disk'[job.path] = t
          /\ \A q \in Paths : q # job.path => disk'[q] = disk[q]
      BY <1>1, <1>4, <2>2 DEF Land, Put, TypeOK
    <3>2. ASSUME NEW q \in Paths, Unmarked(disk'[q]), Following(q)'
          PROVE  Accounted(disk'[q], job.content, adopted[q])
      BY <1>1, <1>4, <3>1, <3>2 DEF Following
    <3>3. ASSUME NEW q \in Paths, Unmarked(disk'[q]), ~Following(q)', base[q] # NoFile
          PROVE  Accounted(disk'[q], base[q], adopted[q])
      BY <1>1, <1>2, <1>4, <2>2, <3>1, <3>3 DEF Following
    <3> QED
      BY <1>1, <1>4, <3>2, <3>3 DEF AccountInv
  <2> QED
    BY <2>1, <2>2
<1> QED
  BY <1>3, <1>4

\* What is adopted is accounted for, against any text.
LEMMA AdoptAccounts ==
    ASSUME TypeOK, NEW p \in Paths, NEW f, Adopt(p, f)
    PROVE  /\ \A q \in Paths : adopted[q] \subseteq adopted'[q]
           /\ \A t : Accounted(f, t, adopted'[p])
<1>1. \A q \in Paths : adopted'[q] = IF q = p THEN adopted[q] \cup Part(f, GenLines)
                                       ELSE adopted[q]
  BY DEF Adopt, TypeOK
<1>2. \A r \in Regions : f[r] \cap GenLines \subseteq Part(f, GenLines)
  BY DEF Part
<1> QED
  BY <1>1, <1>2 DEF Accounted

LEMMA StepAccountInv == TypeOK /\ SaveKnows /\ AccountInv /\ [Next]_vars => AccountInv'
<1> SUFFICES ASSUME TypeOK, SaveKnows, AccountInv, [Next]_vars PROVE AccountInv'
  OBVIOUS
<1>h. pc \in SaveSteps => job \in Jobs /\ job.path \in Paths /\ job.content \in Text
  BY DEF TypeOK, Jobs
<1>n. \A t \in Text : t # NoFile
  BY HandlerAssumption
\* A step between two saves, or out of a run, that leaves files and baselines.
<1>1. ASSUME pc' \notin SaveSteps \/ ~job'.landed \/ (pc' # "duplicate" /\ Unchanged'),
             UNCHANGED <<disk, base>>,
             \A p \in Paths : adopted[p] \subseteq adopted'[p],
             \A p \in Paths : Following(p) /\ Unmarked(disk[p]) =>
                Accounted(disk[p], base[p], adopted'[p])
      PROVE  AccountInv'
  <2>1. \A p \in Paths : ~Following(p)'
    BY <1>1 DEF Following, SaveSteps
  <2>2. ASSUME NEW p \in Paths, Unmarked(disk[p]), base[p] # NoFile
        PROVE  Accounted(disk[p], base[p], adopted'[p])
    BY <1>1, <2>2 DEF AccountInv, Accounted
  <2> QED
    BY <1>1, <2>1, <2>2 DEF AccountInv, SaveSteps
<1>2. ASSUME NEW o \in OptionSets, StartRun(o) PROVE AccountInv'
  BY <1>1, <1>2 DEF StartRun, Following, SaveSteps, provider
<1>3. ASSUME NEW p \in Paths, NEW content, BeginSave(p, content) PROVE AccountInv'
  <2>1. /\ pc = "walk" /\ pc' # "duplicate" /\ UNCHANGED <<disk, base, adopted>>
        /\ job' = [path |-> p, content |-> content, existing |-> disk[p],
                   write |-> disk[p] = NoFile, landed |-> disk[p] = content]
    BY <1>3 DEF BeginSave, provider
  <2>2. job'.landed => Unchanged'
    BY <2>1 DEF Unchanged
  <2> QED
    BY <1>1, <2>1, <2>2 DEF Following
<1>4. CASE \E p \in Paths : SaveFile(p) \/ Inject(p)
  BY <1>3, <1>4 DEF SaveFile, Inject
<1>5. CASE Preserve
  <2>1. SameSave /\ job' = job /\ NotLanded /\ pc = "preserve" /\ pc' = "present" /\ adopted' = adopted
    BY <1>5, PreserveDoes DEF Preserve
  <2> QED
    BY <2>1, SaveStepAccounts DEF AccountInv, SaveSteps
<1>6. CASE Present
  <2>1. /\ SameSave /\ NotLanded /\ job'.landed = job.landed /\ adopted' = adopted
        /\ pc \in SaveSteps \ {"duplicate"} /\ pc' \in SaveSteps
    BY <1>6, PresentDoes DEF Present, SaveSteps
  <2> QED
    BY <2>1, SaveStepAccounts DEF AccountInv
<1>7. CASE Diff
  <2>1. /\ SameSave /\ job'.landed /\ adopted' = adopted
        /\ pc \in SaveSteps \ {"duplicate"} /\ pc' = "duplicate" /\ pc' \in SaveSteps
        /\ job.existing \in Text /\ job.content \in Text
    BY <1>7, DiffDoes, <1>h DEF Diff, SaveSteps, TypeOK
  <2>2. CASE Unchanged /\ NotLanded
    BY <2>1, <2>2, SaveStepAccounts
  <2>3. CASE ~Unchanged /\ Land(DiffRender(job.content, job.existing))
    <3>1. /\ DiffRender(job.content, job.existing) \in Text
          /\ ~Unmarked(DiffRender(job.content, job.existing))
      BY <2>1, <2>3, RenderIsText, RenderIsMarked DEF Unchanged, Unmarked
    <3> QED
      BY <2>1, <2>3, <3>1, SaveStepAccounts
  <2> QED
    BY <1>7, <2>2, <2>3 DEF Diff
<1>8. CASE MergeUnchanged
  <2>1. /\ SameSave /\ NotLanded /\ Unchanged /\ adopted' = adopted
        /\ pc \in SaveSteps \ {"duplicate"} /\ pc' \in SaveSteps
    BY <1>8, MergeUnchangedDoes DEF MergeUnchanged, SaveSteps
  <2> QED
    BY <2>1, SaveStepAccounts
<1>9. CASE SaveMerge
  <2>1. /\ SameSave /\ pc = "merge" /\ pc' = "duplicate" /\ adopted' = adopted
        /\ ~Unchanged /\ Mergeable
        /\ pc \in SaveSteps \ {"duplicate"} /\ pc' \in SaveSteps
    BY <1>9, SaveMergeDoes, Zenon DEF SaveMerge, SaveSteps
  <2>2. /\ job.existing \in Text /\ job.content \in Text /\ job.path \in Paths
        /\ job.existing = disk[job.path] /\ base \in [Paths -> File]
    BY <1>h, <2>1 DEF TypeOK, SaveSteps, SaveKnows, SaveSeesTheFile
  <2>3. CASE ~job'.landed /\ NotLanded
    BY <2>1, <2>3, SaveStepAccounts
  <2>4. CASE job'.landed /\ Land(Merged.content) /\ Merged.outcome # "unresolved"
    <3>1. CASE Earlier
      <4>1. Merged.content = job.content
        BY <3>1 DEF Merged
      <4> QED
        BY <2>1, <2>2, <2>4, <4>1, SaveStepAccounts DEF Accounted
    <3>2. CASE ~Earlier
      <4>1. Baseline = base[job.path] /\ base[job.path] # NoFile /\ base[job.path] \in Text
        BY <2>1, <2>2, <3>2 DEF Mergeable, Baseline, File
      <4>2. Merged = Merge(job.content, base[job.path], job.existing)
        BY <3>2, <4>1 DEF Merged
      <4>3. ~HasConflicts(job.existing) =>
               Accounted(job.existing, base[job.path], adopted[job.path])
        BY <1>n, <2>1, <2>2, <4>1 DEF AccountInv, Following, Unmarked
      <4>4. Merged.content \in Text
        BY <2>2, <4>1, <4>2, MergeIsText
      <4>5. Unmarked(Merged.content) => Accounted(Merged.content, job.content, adopted[job.path])
        BY <2>1, <2>2, <2>4, <4>1, <4>2, <4>3, MergeAccounts DEF Unmarked, Unchanged
      <4> QED
        BY <2>1, <2>4, <4>4, <4>5, SaveStepAccounts
    <3> QED
      BY <3>1, <3>2
  <2>5. Merged.outcome = "unresolved" => ~job'.landed
    <3> DEFINE landed == /\ ~(Merged.outcome = "unresolved")
                         /\ ~((Merged.conflict \/ Merged.outcome = "unresolved") /\ opt.conflictFail)
    <3>1. job' = Decided(FALSE, landed)
      BY <1>9, Zenon DEF SaveMerge
    <3>2. landed \in BOOLEAN /\ (Merged.outcome = "unresolved" => ~landed) /\ job \in Jobs
      BY <2>1 DEF SameSave
    <3> HIDE DEF landed
    <3>3. job'.landed = landed
      BY <3>1, <3>2, DecidedIsJob
    <3> QED
      BY <3>2, <3>3
  <2> QED
    BY <1>9, <2>3, <2>4, <2>5, SaveMergeDoes
<1>10. CASE MergeNoBase
  <2>1. /\ SameSave /\ NotLanded /\ job'.landed = job.landed /\ adopted' = adopted
        /\ pc \in SaveSteps \ {"duplicate"} /\ pc' \in SaveSteps
    BY <1>10, MergeNoBaseDoes DEF MergeNoBase, SaveSteps
  <2> QED
    BY <2>1, SaveStepAccounts DEF AccountInv
<1>11. CASE Write
  <2>1. /\ SameSave /\ job'.landed = (job.write \/ job.landed) /\ adopted' = adopted
        /\ pc \in SaveSteps \ {"duplicate"} /\ pc' = "duplicate" /\ pc' \in SaveSteps
        /\ \/ job.write /\ ~Unchanged /\ Land(job.content)
           \/ (~job.write \/ Unchanged) /\ NotLanded
    BY <1>11, WriteDoes DEF Write, SaveSteps
  <2>2. CASE job.write /\ ~Unchanged /\ Land(job.content)
    <3>1. Accounted(job.content, job.content, adopted[job.path]) /\ job.content \in Text
      BY <1>h, <2>1 DEF Accounted
    <3> QED
      BY <2>1, <2>2, <3>1, SaveStepAccounts
  <2>3. CASE (~job.write \/ Unchanged) /\ NotLanded
    <3>1. job'.landed => Unchanged
      BY <2>1, <2>3 DEF AccountInv
    <3> QED
      BY <2>1, <2>3, <3>1, SaveStepAccounts
  <2> QED
    BY <2>1, <2>2, <2>3
<1>12. CASE Duplicate
  <2>1. /\ pc = "duplicate" /\ pc' = "walk" /\ disk' = disk
        /\ base' = IF MovesBase THEN Put(base, job.content) ELSE base
        /\ \/ job.landed /\ ~opt.duplicate /\ ~opt.dryrun /\ Adopt(job.path, disk[job.path])
           \/ ~(job.landed /\ ~opt.duplicate /\ ~opt.dryrun) /\ adopted' = adopted
    BY <1>12, Zenon DEF Duplicate
  <2>2. job.path \in Paths /\ job.content \in Text
    BY <1>h, <2>1 DEF SaveSteps
  <2>3. CASE job.landed /\ ~opt.duplicate /\ ~opt.dryrun /\ Adopt(job.path, disk[job.path])
    <3>1. base' = base /\ pc' \notin SaveSteps
      BY <2>1, <2>3 DEF MovesBase, SaveSteps
    <3> QED
      BY <1>1, <2>1, <2>2, <2>3, <3>1, AdoptAccounts DEF Following
  <2>4. CASE job.landed /\ opt.duplicate /\ ~opt.dryrun /\ adopted' = adopted
    <3>1. base' = [base EXCEPT ![job.path] = job.content]
      BY <2>1, <2>4 DEF MovesBase, Put
    <3>2. ASSUME NEW p \in Paths, Unmarked(disk[p]), base'[p] # NoFile
          PROVE  Accounted(disk[p], base'[p], adopted[p])
      <4>1. CASE p = job.path
        <5>1. base'[p] = job.content /\ Following(p)
          BY <2>1, <2>2, <2>4, <3>1, <4>1 DEF TypeOK, Following
        <5> QED
          BY <3>2, <5>1 DEF AccountInv
      <4>2. CASE p # job.path
        <5>1. base'[p] = base[p] /\ ~Following(p)
          BY <3>1, <4>2 DEF TypeOK, Following
        <5> QED
          BY <3>2, <5>1 DEF AccountInv
      <4> QED
        BY <4>1, <4>2
    <3> QED
      BY <2>1, <2>4, <3>2 DEF AccountInv, Following, SaveSteps
  <2>5. CASE (~job.landed \/ opt.dryrun) /\ adopted' = adopted
    <3>1. base' = base /\ pc' \notin SaveSteps /\ \A p \in Paths : ~Following(p)
      BY <2>1, <2>5 DEF MovesBase, Put, SaveSteps, Following
    <3> QED
      BY <1>1, <2>1, <2>5, <3>1
  <2> QED
    BY <2>1, <2>3, <2>4, <2>5
<1>13. ASSUME NEW how, Stop(how) PROVE AccountInv'
  <2>1. pc' = "idle" /\ UNCHANGED <<disk, base>>
    BY <1>13 DEF Stop, RunOver, provider
  <2>2. \/ pc = "duplicate" /\ job.landed /\ ~opt.dryrun /\ Adopt(job.path, disk[job.path])
        \/ ~(pc = "duplicate" /\ job.landed /\ ~opt.dryrun) /\ adopted' = adopted
    BY <1>13 DEF Stop
  <2>3. CASE pc = "duplicate" /\ job.landed /\ ~opt.dryrun /\ Adopt(job.path, disk[job.path])
    <3>1. job.path \in Paths
      BY <1>h, <2>3 DEF SaveSteps
    <3> QED
      BY <1>1, <2>1, <2>3, <3>1, AdoptAccounts DEF Following, SaveSteps
  <2>4. CASE ~(pc = "duplicate" /\ job.landed /\ ~opt.dryrun) /\ adopted' = adopted
    BY <1>1, <2>1, <2>4 DEF Following, SaveSteps
  <2> QED
    BY <2>2, <2>3, <2>4
<1>14. CASE Finish \/ \E p \in Paths : InjectMissing(p)
  BY <1>1, <1>14 DEF Finish, InjectMissing, RunOver, provider, Following, SaveSteps
\* The user's own lines are not the generator's.
<1>15. ASSUME NEW kind, Event(kind), NEW p \in Paths, base' = base,
              \A q \in Paths \ {p} : disk'[q] = disk[q] /\ adopted'[q] = adopted[q],
              \/ disk'[p] = NoFile
              \/ Accounted(disk'[p], base[p], adopted'[p])
              \/ /\ Unmarked(disk[p]) /\ adopted'[p] = adopted[p]
                 /\ \A r \in Regions : disk'[p][r] \cap GenLines \subseteq disk[p][r]
       PROVE  AccountInv'
  <2>1. pc = "idle" /\ pc' = "idle"
    BY <1>15 DEF Event
  <2>2. \A q \in Paths : ~Following(q) /\ ~Following(q)'
    BY <2>1 DEF Following
  <2>3. ASSUME NEW q \in Paths, Unmarked(disk'[q]), base[q] # NoFile
        PROVE  Accounted(disk'[q], base[q], adopted'[q])
    <3>1. Unmarked(disk[q]) => Accounted(disk[q], base[q], adopted[q])
      BY <2>2, <2>3 DEF AccountInv
    <3> QED
      BY <1>15, <2>3, <3>1 DEF Accounted, Unmarked
  <2> QED
    BY <1>15, <2>1, <2>2, <2>3 DEF AccountInv, SaveSteps
<1>16. ASSUME NEW p \in Paths, UserEdit(p) PROVE AccountInv'
  <2>1. disk[p] \in Text /\ disk[p] # NoFile /\ Event("edit") /\ base' = base
    BY <1>16 DEF UserEdit, Replace, TypeOK, File
  <2>2. ASSUME NEW r \in Regions, NEW l \in UserLines \cup {Protect},
               Replace(p, [disk[p] EXCEPT ![r] = @ \cup {l}]), UNCHANGED adopted
        PROVE  AccountInv'
    <3>1. l \notin GenLines /\ l # Mark
      BY LinesAssumption
    <3>2. /\ \A q \in Paths \ {p} : disk'[q] = disk[q]
          /\ disk'[p] = [disk[p] EXCEPT ![r] = @ \cup {l}]
      BY <2>2 DEF Replace, TypeOK
    <3>3. \A s \in Regions : disk'[p][s] = IF s = r THEN disk[p][s] \cup {l} ELSE disk[p][s]
      BY <2>1, <3>2 DEF Text
    <3>4. \A s \in Regions : disk'[p][s] \cap GenLines \subseteq disk[p][s]
      BY <3>1, <3>3
    <3>5. Unmarked(disk'[p]) => Unmarked(disk[p])
      BY <2>1, <3>3 DEF Unmarked, HasConflicts
    <3>6. CASE Unmarked(disk[p])
      BY <1>15, <2>1, <2>2, <3>2, <3>4, <3>6
    <3>7. CASE ~Unmarked(disk'[p])
      BY <2>1, <2>2, <3>2, <3>7 DEF AccountInv, Event, Following, SaveSteps
    <3> QED
      BY <3>5, <3>6, <3>7
  <2>3. ASSUME NEW r \in Regions, NEW l \in disk[p][r],
               Replace(p, [disk[p] EXCEPT ![r] = @ \ {l}]),
               \/ ~Marked(disk[p]) /\ UNCHANGED adopted
               \/ Marked(disk'[p]) /\ UNCHANGED adopted
               \/ Adopt(p, disk'[p])
        PROVE  AccountInv'
    <3>2. /\ \A q \in Paths \ {p} : disk'[q] = disk[q]
          /\ disk'[p] = [disk[p] EXCEPT ![r] = @ \ {l}]
      BY <2>3 DEF Replace, TypeOK
    <3>3. \A s \in Regions : disk'[p][s] \cap GenLines \subseteq disk[p][s]
      BY <2>1, <3>2 DEF Text
    <3>4. CASE ~Marked(disk[p]) /\ UNCHANGED adopted
      BY <1>15, <2>1, <3>2, <3>3, <3>4 DEF Marked, Unmarked
    <3>5. CASE Marked(disk'[p]) /\ UNCHANGED adopted
      BY <2>1, <3>2, <3>5 DEF AccountInv, Event, Following, SaveSteps, Unmarked, Marked
    <3>6. CASE Adopt(p, disk'[p])
      <4>1. Accounted(disk'[p], base[p], adopted'[p])
        BY <3>6, AdoptAccounts
      <4>2. \A q \in Paths \ {p} : adopted'[q] = adopted[q]
        BY <3>6 DEF Adopt, TypeOK
      <4> QED
        BY <1>15, <2>1, <3>2, <4>1, <4>2
    <3> QED
      BY <2>3, <3>4, <3>5, <3>6
  <2>4. ASSUME NEW t, Replace(p, t) PROVE disk'[p] = t
    BY <2>4 DEF Replace, TypeOK
  <2>5. PICK r \in Regions :
            \/ \E l \in UserLines \cup {Protect} :
                 Replace(p, [disk[p] EXCEPT ![r] = @ \cup {l}]) /\ UNCHANGED adopted
            \/ \E l \in disk[p][r] :
                 /\ Replace(p, [disk[p] EXCEPT ![r] = @ \ {l}])
                 /\ IF HasConflicts(disk[p]) /\ ~HasConflicts(disk'[p])
                    THEN Adopt(p, disk'[p]) ELSE UNCHANGED adopted
    BY <1>16 DEF UserEdit
  <2>6. CASE \E l \in UserLines \cup {Protect} :
                 Replace(p, [disk[p] EXCEPT ![r] = @ \cup {l}]) /\ UNCHANGED adopted
    BY <2>2, <2>6
  <2>7. ASSUME NEW l \in disk[p][r], Replace(p, [disk[p] EXCEPT ![r] = @ \ {l}]),
               IF HasConflicts(disk[p]) /\ ~HasConflicts(disk'[p])
               THEN Adopt(p, disk'[p]) ELSE UNCHANGED adopted
        PROVE  AccountInv'
    <3>1. disk'[p] \in Text /\ disk'[p] # NoFile
      <4>1. disk'[p] = [disk[p] EXCEPT ![r] = @ \ {l}]
        BY <2>4, <2>7
      <4>2. disk'[p] \in Text
        BY <2>1, <4>1 DEF Text
      <4> QED
        BY <1>n, <4>2
    <3> QED
      BY <2>3, <2>7, <3>1 DEF Marked
  <2> QED
    BY <2>5, <2>6, <2>7
<1>17. ASSUME NEW p \in Paths, UserDelete(p) PROVE AccountInv'
  <2>1. /\ Event("delete") /\ base' = base /\ disk'[p] = NoFile
        /\ \A q \in Paths \ {p} : disk'[q] = disk[q] /\ adopted'[q] = adopted[q]
    BY <1>17 DEF UserDelete, Replace, TypeOK
  <2> QED
    BY <1>15, <2>1
<1>18. ASSUME NEW p \in Paths, UserCreate(p) PROVE AccountInv'
  <2>1. PICK r \in Regions, l \in UserLines : Replace(p, [Empty EXCEPT ![r] = {l}])
    BY <1>18 DEF UserCreate
  <2>2. /\ Event("create") /\ base' = base /\ adopted' = adopted
        /\ disk'[p] = [Empty EXCEPT ![r] = {l}]
        /\ \A q \in Paths \ {p} : disk'[q] = disk[q]
    BY <1>18, <2>1 DEF UserCreate, Replace, TypeOK
  <2>3. Accounted(disk'[p], base[p], adopted'[p])
    BY <2>2, LinesAssumption DEF Accounted, Empty
  <2> QED
    BY <1>15, <2>2, <2>3
<1>19. ASSUME NEW p \in Paths, Checkout(p) PROVE AccountInv'
  <2>1. PICK made \in landings[p] : Replace(p, made[2]) /\ Adopt(p, made[2])
    BY <1>19 DEF Checkout
  <2>2. /\ Event("checkout") /\ base' = base /\ disk'[p] = made[2]
        /\ \A q \in Paths \ {p} : disk'[q] = disk[q] /\ adopted'[q] = adopted[q]
    BY <1>19, <2>1 DEF Checkout, Replace, Adopt, TypeOK
  <2>3. Accounted(disk'[p], base[p], adopted'[p])
    BY <2>1, <2>2, AdoptAccounts
  <2> QED
    BY <1>15, <2>2, <2>3
<1>20. CASE Clone \/ BadLog
  <2>1. /\ pc' = "idle" /\ pc = "idle" /\ UNCHANGED <<disk, adopted>>
        /\ \A p \in Paths : base'[p] \in {base[p], NoFile}
    BY <1>20 DEF Clone, BadLog, Event, NoFiles
  <2> QED
    BY <2>1 DEF AccountInv, Following, SaveSteps
<1>21. CASE UNCHANGED vars
  BY <1>21 DEF vars, AccountInv, Following, Unchanged
<1> QED
  BY <1>2, <1>4, <1>5, <1>6, <1>7, <1>8, <1>9, <1>10, <1>11, <1>12, <1>13, <1>14, <1>16, <1>17,
     <1>18, <1>19, <1>20, <1>21
     DEF Next, RunStep, Begin, SaveStep, Between

\* A generated line in a file without markers is in the file's baseline or is
\* the user's to keep, whatever crashes, refusals, edits, checkouts and clones
\* came before, Injects or not (writeDuplicate, saveMerge).
THEOREM NoLineIsStale == Spec => []NoStaleLines
<1>1. Init => TypeOK /\ SaveKnows /\ AccountInv
  BY InitTypeOK, InitSaveKnows, InitAccountInv
<1>2. /\ TypeOK /\ SaveKnows /\ AccountInv /\ [Next]_vars
      => TypeOK' /\ SaveKnows' /\ AccountInv'
  BY StepTypeOK, StepSaveKnows, StepAccountInv
<1>3. TypeOK /\ AccountInv => NoStaleLines
  BY DEF AccountInv, NoStaleLines, Accounted, Unmarked, Marked, Held, Following
<1> QED
  BY <1>1, <1>2, <1>3, PTL DEF Spec

-----------------------------------------------------------------------------
(* The report names every change. *)

\* A run that may still hand out its lists.
Telling == (Running \/ outcome \in {"ok", "conflicts", "error"}) /\ ~opt.dryrun

Changed == files.written \cup files.merged \cup files.diffed

\* What the run will have to say of a path, held at every step.
Told(p) ==
    /\ disk[p] # before.disk[p] => p \in Changed
    /\ Marked(disk[p]) /\ ~Marked(before.disk[p]) => p \in files.conflicted
    /\ p \in files.conflicted /\ ~opt.conflictFail => Marked(disk[p]) \/ InjectedOver(p)

\* A path is in conflict only in a run that diffs, or merged it against its
\* baseline; what is written over a file then has no baseline; and a save adds
\* no marker to the file it read.
TellInv ==
    /\ Telling => \A p \in Paths : Told(p)
    /\ Running => files.conflicted \subseteq saved
    /\ Running /\ ~opt.diff =>
         \A p \in files.conflicted : opt.merge /\ opt.duplicate /\ base[p] # NoFile
    /\ pc = "write" /\ job.write /\ job.existing # NoFile =>
         ~opt.diff /\ (opt.merge => Baseline = NoFile)
    /\ pc \in {"diff", "merge"} => (pc = "diff" <=> opt.diff) /\ (pc = "merge" => opt.merge)
    /\ pc \in SaveSteps \ {"duplicate"} =>
         /\ Marked(job.content) => Marked(job.existing)
         /\ job.path \notin again => job.path \notin files.conflicted

LEMMA InitTellInv == Init => TellInv
BY DEF Init, TellInv, Telling, Running, SaveSteps

\* A merge that reports no conflict marks nothing; one that reports a
\* conflict marks it, or found it marked.
LEMMA MergeMarks ==
    ASSUME NEW gen \in Text, NEW bas \in Text, NEW exist \in Text, gen # exist
    PROVE  LET m == Merge(gen, bas, exist) IN
           /\ m.outcome = "unresolved" => HasConflicts(exist)
           /\ ~m.conflict /\ HasConflicts(m.content) => HasConflicts(gen) \/ HasConflicts(exist)
           /\ m.conflict => HasConflicts(m.content)
<1>1. CASE exist = bas \/ HasConflicts(exist)
  BY <1>1 DEF Merge, Unresolved
<1>2. CASE exist # bas /\ ~HasConflicts(exist)
  <2> DEFINE t == [r \in Regions |-> MergeRegion(gen[r], bas[r], exist[r])]
             conflict == \E r \in Regions : /\ bas[r] # gen[r]
                                            /\ bas[r] # exist[r]
                                            /\ gen[r] # exist[r]
  <2>1. Merge(gen, bas, exist) = [content |-> t, outcome |-> "merged", conflict |-> conflict]
    BY <1>2 DEF Merge, Unresolved
  <2>2. conflict => HasConflicts(t)
    BY DEF HasConflicts, MergeRegion, Conflict
  <2>3. ~conflict /\ HasConflicts(t) => HasConflicts(gen) \/ HasConflicts(exist)
    BY DEF HasConflicts, MergeRegion
  <2> HIDE DEF t, conflict
  <2> QED
    BY <2>1, <2>2, <2>3
<1> QED
  BY <1>1, <1>2

\* A step within a save: what it lands is told.
LEMMA SaveStepTells ==
    ASSUME TypeOK, SaveKnows, RefusedStays, TellInv, SameSave,
           pc \in SaveSteps \ {"duplicate"}, pc' \in SaveSteps,
           Changed \subseteq Changed', files.conflicted \subseteq files'.conflicted,
           files'.conflicted \subseteq files.conflicted \cup {job.path},
           job.path \in files'.conflicted /\ job.path \notin files.conflicted =>
              /\ pc' = "duplicate"
              /\ opt.diff \/ (opt.merge /\ opt.duplicate /\ base[job.path] # NoFile),
           pc' = "write" /\ job'.write /\ job.existing # NoFile =>
              ~opt.diff /\ (opt.merge => Baseline = NoFile),
           pc' \in {"diff", "merge"} =>
              (pc' = "diff" <=> opt.diff) /\ (pc' = "merge" => opt.merge),
           \/ /\ NotLanded
              /\ job.path \in files'.conflicted /\ job.path \notin files.conflicted =>
                   opt.conflictFail \/ Marked(job.existing)
           \/ \E t \in Text :
                /\ Land(t) /\ pc' = "duplicate" /\ job.path \in Changed'
                /\ Marked(t) => Marked(job.existing) \/ job.path \in files'.conflicted
                /\ job.path \in files'.conflicted /\ ~opt.conflictFail /\ ~opt.dryrun =>
                     Marked(t) \/ InjectedOver(job.path)
    PROVE  TellInv'
<1>1. /\ job \in Jobs /\ job.path \in Paths /\ job'.path = job.path
      /\ job'.content = job.content /\ job'.existing = job.existing
      /\ opt' = opt /\ base' = base /\ job.existing = disk[job.path]
      /\ saved' = saved /\ again' = again /\ outcome' = outcome /\ before' = before
      /\ Running /\ Running' /\ job.path \in saved
  BY DEF SameSave, Jobs, SaveKnows, SaveSeesTheFile, Running, SaveSteps, RefusedStays
<1>2. ASSUME Telling', NEW p \in Paths PROVE Told(p)'
  <2>1. Told(p) /\ ~opt.dryrun
    BY <1>1, <1>2 DEF Telling, TellInv
  <2>2. InjectedOver(p)' <=> InjectedOver(p)
    BY <1>1 DEF InjectedOver
  <2>3. CASE /\ NotLanded
             /\ job.path \in files'.conflicted /\ job.path \notin files.conflicted =>
                  opt.conflictFail \/ Marked(job.existing)
    <3>1. disk' = disk
      BY <2>3 DEF NotLanded
    <3>2. p \in files'.conflicted /\ p \notin files.conflicted => opt.conflictFail \/ Marked(disk[p])
      BY <1>1, <2>3
    <3> QED
      BY <1>1, <2>1, <2>2, <3>1, <3>2 DEF Told
  <2>4. ASSUME NEW t \in Text, Land(t), job.path \in Changed',
               Marked(t) => Marked(job.existing) \/ job.path \in files'.conflicted,
               job.path \in files'.conflicted /\ ~opt.conflictFail /\ ~opt.dryrun =>
                  Marked(t) \/ InjectedOver(job.path)
        PROVE  Told(p)'
    <3>1. disk'[p] = IF p = job.path THEN t ELSE disk[p]
      BY <1>1, <2>1, <2>4 DEF Land, Put, TypeOK
    <3>2. CASE p = job.path
      BY <1>1, <2>1, <2>2, <2>4, <3>1, <3>2 DEF Told
    <3>3. CASE p # job.path
      BY <1>1, <2>1, <2>2, <3>1, <3>3 DEF Told
    <3> QED
      BY <3>2, <3>3
  <2> QED
    BY <2>3, <2>4
<1>3. /\ Running' => files'.conflicted \subseteq saved'
      /\ Running' /\ ~opt'.diff =>
           \A p \in files'.conflicted : opt'.merge /\ opt'.duplicate /\ base'[p] # NoFile
  BY <1>1 DEF TellInv
<1>4. pc' \in SaveSteps \ {"duplicate"} =>
         /\ Marked(job'.content) => Marked(job'.existing)
         /\ job'.path \notin again' => job'.path \notin files'.conflicted
  BY <1>1 DEF TellInv
<1>5. Baseline' = Baseline
  BY <1>1 DEF Baseline
<1> QED
  BY <1>1, <1>2, <1>3, <1>4, <1>5 DEF TellInv

\* A path in conflict that is saved again still holds markers, unless an
\* Inject may have come in between.
LEMMA ConflictStays ==
    ASSUME TypeOK, SaveKnows, TellInv, pc \in SaveSteps \ {"duplicate"},
           job.path \in files.conflicted, ~opt.conflictFail, ~opt.dryrun
    PROVE  InjectedOver(job.path) \/ (Injections = {} /\ Marked(job.existing))
<1>1. /\ job.path \in Paths /\ job.existing = disk[job.path] /\ Running /\ job.path \in again
  BY DEF TypeOK, Jobs, SaveKnows, SaveSeesTheFile, Running, SaveSteps, TellInv
<1>2. Told(job.path)
  BY <1>1 DEF TellInv, Telling
<1> QED
  BY <1>1, <1>2 DEF Told, InjectedOver

LEMMA StepTellInv ==
    /\ TypeOK /\ SaveKnows /\ RefusedStays /\ TellInv
    /\ Injections = {} => MergeInv
    /\ [Next]_vars
    => TellInv'
<1> SUFFICES ASSUME TypeOK, SaveKnows, RefusedStays, TellInv, [Next]_vars,
                    Injections = {} => MergeInv
             PROVE  TellInv'
  OBVIOUS
<1>h. pc \in SaveSteps => job \in Jobs /\ job.path \in Paths /\ job.content \in Text
  BY DEF TypeOK, Jobs
<1>n. \A t \in Text : t # NoFile
  BY HandlerAssumption
<1>1. ASSUME NEW o \in OptionSets, StartRun(o) PROVE TellInv'
  <2>1. /\ pc' = "walk" /\ files'.conflicted = {} /\ before'.disk = disk /\ disk' = disk
    BY <1>1 DEF StartRun, NoLists, Kinds, provider
  <2> QED
    BY <2>1 DEF TellInv, Telling, Told, SaveSteps
\* A step that leaves the files and the lists as they are.
<1>2. ASSUME UNCHANGED <<disk, opt, files, before, again, outcome>>, Running,
             saved \subseteq saved', pc' \notin {"diff", "merge"},
             \A p \in Paths : base[p] # NoFile => base'[p] # NoFile,
             pc' = "write" => job'.existing = NoFile,
             pc' \in SaveSteps \ {"duplicate"} =>
               /\ Marked(job'.content) => Marked(job'.existing)
               /\ job'.path \notin again => job'.path \notin files.conflicted
      PROVE  TellInv'
  <2>1. Telling' => \A p \in Paths : Told(p)'
    BY <1>2 DEF TellInv, Telling, Told, Changed, InjectedOver
  <2>2. files.conflicted \subseteq Paths
    BY DEF TypeOK, Kinds
  <2> QED
    BY <1>2, <2>1, <2>2 DEF TellInv
<1>3. ASSUME NEW p \in Paths, NEW content, Marked(content) => Marked(disk[p]),
             BeginSave(p, content)
      PROVE  TellInv'
  <2>1. /\ pc = "walk" /\ pc' \in {"write", "preserve"} /\ (pc' = "write" => disk[p] = NoFile)
        /\ UNCHANGED <<disk, base, opt, files, before, outcome>>
        /\ saved' = saved \cup {p} /\ again' = IF p \in saved THEN again \cup {p} ELSE again
        /\ job' = [path |-> p, content |-> content, existing |-> disk[p],
                   write |-> disk[p] = NoFile, landed |-> disk[p] = content]
    BY <1>3 DEF BeginSave, provider
  <2>2. job'.path = p /\ job'.content = content /\ job'.existing = disk[p]
    BY <2>1
  <2>3. p \notin again' => p \notin files.conflicted
    BY <2>1 DEF TellInv, Running
  <2>4. Telling' => \A q \in Paths : Told(q)'
    <3>1. \A q \in Paths : InjectedOver(q) => InjectedOver(q)'
      BY <2>1 DEF InjectedOver
    <3> QED
      BY <2>1, <3>1 DEF TellInv, Telling, Running, Told, Changed
  <2> QED
    BY <1>3, <2>1, <2>2, <2>3, <2>4 DEF TellInv, Running
<1>4. ASSUME NEW p \in Paths, SaveFile(p) \/ Inject(p) PROVE TellInv'
  <2>1. CASE SaveFile(p)
    BY <1>3, <2>1, GeneratesAreUnmarked DEF SaveFile
  <2>2. ASSUME NEW body \in Injections, disk[p] # NoFile, BeginSave(p, Injected(disk[p], body))
        PROVE  TellInv'
    <3>1. Mark \notin {Fence} \cup body
      BY HandlerAssumption, LinesAssumption
    <3>2. Marked(Injected(disk[p], body)) => Marked(disk[p])
      BY <2>2, <3>1 DEF Marked, HasConflicts, Injected
    <3> QED
      BY <1>3, <2>2, <3>2
  <2> QED
    BY <1>4, <2>1, <2>2 DEF Inject
<1>5. ASSUME NEW kinds, files' = Listed(kinds), job.path \in Paths
      PROVE  /\ \A k \in Kinds : files[k] \subseteq files'[k]
             /\ Changed \subseteq Changed'
             /\ files.conflicted \subseteq files'.conflicted
             /\ files'.conflicted = IF "conflicted" \in kinds THEN files.conflicted \cup {job.path}
                                   ELSE files.conflicted
             /\ kinds \cap {"written", "merged", "diffed"} # {} => job.path \in Changed'
  BY <1>5 DEF Listed, Changed, TypeOK, Kinds
<1>6. ASSUME UNCHANGED files
      PROVE  Changed' = Changed /\ files'.conflicted = files.conflicted
  BY <1>6 DEF Changed
<1>7. CASE Preserve
  <2>1. /\ SameSave /\ NotLanded /\ job' = job /\ job.path \in Paths
        /\ pc = "preserve" /\ pc' = "present"
        /\ pc \in SaveSteps \ {"duplicate"} /\ pc' \in SaveSteps
    BY <1>7, <1>h, PreserveDoes DEF Preserve, SaveSteps
  <2>2. UNCHANGED files \/ files' = Listed({"preserved"})
    BY <1>7, Zenon DEF Preserve
  <2>3. Changed \subseteq Changed' /\ files'.conflicted = files.conflicted
    BY <1>5, <1>6, <2>1, <2>2
  <2> QED
    BY <2>1, <2>3, SaveStepTells
<1>8. CASE Present
  <2>1. /\ SameSave /\ NotLanded /\ job'.write = (opt.write /\ ~Protected) /\ job.path \in Paths
        /\ pc = "present"
        /\ pc \in SaveSteps \ {"duplicate"} /\ pc' \in SaveSteps
    BY <1>8, <1>h, PresentDoes DEF Present, SaveSteps
  <2>2. UNCHANGED files \/ files' = Listed({"presented"})
    BY <1>8, Zenon DEF Present
  <2>3. Changed \subseteq Changed' /\ files'.conflicted = files.conflicted
    BY <1>5, <1>6, <2>1, <2>2
  <2>4. pc' = IF Protected THEN "write"
              ELSE IF opt.diff THEN "diff"
              ELSE IF opt.merge THEN "merge" ELSE "write"
    BY <1>8, Zenon DEF Present
  <2>5. pc' = "write" /\ job'.write => ~opt.diff /\ ~opt.merge
    BY <2>1, <2>4
  <2>6. pc' \in {"diff", "merge"} => (pc' = "diff" <=> opt.diff) /\ (pc' = "merge" => opt.merge)
    BY <2>4
  <2> QED
    BY <2>1, <2>3, <2>5, <2>6, SaveStepTells
<1>9. CASE Diff
  <2>1. /\ SameSave /\ job.path \in Paths /\ pc' = "duplicate" /\ opt.diff
        /\ pc \in SaveSteps \ {"duplicate"} /\ pc' \in SaveSteps
        /\ job.existing \in Text /\ job.content \in Text
    BY <1>9, DiffDoes, <1>h DEF Diff, SaveSteps, TypeOK, TellInv
  <2>2. CASE NotLanded /\ files' = Listed({"unchanged"})
    <3>1. Changed \subseteq Changed' /\ files'.conflicted = files.conflicted
      BY <1>5, <2>1, <2>2
    <3> QED
      BY <2>1, <2>2, <3>1, SaveStepTells
  <2>3. CASE /\ ~Unchanged /\ Land(DiffRender(job.content, job.existing))
             /\ files' = Listed({"diffed", "conflicted"})
    <3> DEFINE t == DiffRender(job.content, job.existing)
    <3>1. t \in Text /\ Marked(t)
      BY <1>n, <2>1, <2>3, RenderIsText, RenderIsMarked DEF Unchanged, Marked
    <3>2. /\ Changed \subseteq Changed' /\ job.path \in Changed'
          /\ files'.conflicted = files.conflicted \cup {job.path}
      BY <1>5, <2>1, <2>3
    <3>3. Land(t)
      BY <2>3
    <3> HIDE DEF t
    <3> QED
      BY <2>1, <3>1, <3>2, <3>3, SaveStepTells
  <2> QED
    BY <1>9, <2>2, <2>3 DEF Diff
<1>10. CASE MergeUnchanged
  <2>1. /\ SameSave /\ NotLanded /\ job.path \in Paths /\ pc' = "duplicate"
        /\ pc \in SaveSteps \ {"duplicate"} /\ pc' \in SaveSteps
        /\ files' = Listed({"unchanged"})
    BY <1>10, <1>h, MergeUnchangedDoes DEF MergeUnchanged, SaveSteps
  <2>2. Changed \subseteq Changed' /\ files'.conflicted = files.conflicted
    BY <1>5, <2>1
  <2> QED
    BY <2>1, <2>2, SaveStepTells
<1>11. CASE SaveMerge
  <2> DEFINE unresolved == Merged.outcome = "unresolved"
             conflict   == Merged.conflict \/ unresolved
             refused    == conflict /\ opt.conflictFail
             t          == Merged.content
  <2>1. /\ SameSave /\ pc = "merge" /\ pc' = "duplicate" /\ ~Unchanged /\ Mergeable
        /\ pc \in SaveSteps \ {"duplicate"} /\ pc' \in SaveSteps /\ ~opt.diff /\ opt.merge
    BY <1>11, SaveMergeDoes, Zenon DEF SaveMerge, SaveSteps, TellInv
  <2>2. /\ job.existing \in Text /\ job.content \in Text /\ job.path \in Paths
        /\ job.existing = disk[job.path] /\ base \in [Paths -> File]
        /\ job.existing # job.content
    BY <1>h, <2>1 DEF TypeOK, SaveSteps, SaveKnows, SaveSeesTheFile, Unchanged
  <2>3. /\ files' = Listed(MergeLists(conflict))
        /\ \/ refused /\ NotLanded
           \/ unresolved /\ ~refused /\ NotLanded
           \/ ~unresolved /\ ~refused /\ Land(t)
    BY <1>11, Zenon DEF SaveMerge
  <2>4. /\ Changed \subseteq Changed' /\ job.path \in Changed'
        /\ files.conflicted \subseteq files'.conflicted
        /\ files'.conflicted \subseteq files.conflicted \cup {job.path}
        /\ job.path \in files'.conflicted <=> job.path \in files.conflicted \/ conflict
    <3>1. "merged" \in MergeLists(conflict) /\ ("conflicted" \in MergeLists(conflict) <=> conflict)
      BY DEF MergeLists
    <3> HIDE DEF conflict
    <3> QED
      BY <1>5, <2>2, <2>3, <3>1
  <2>5. CASE Earlier
    <3>1. ~conflict /\ ~unresolved /\ t = job.content
      BY <2>5 DEF Merged
    <3>2. Land(t) /\ files'.conflicted = files.conflicted
      BY <2>3, <2>4, <3>1
    <3>3. job.path \in files.conflicted /\ ~opt.conflictFail /\ ~opt.dryrun => InjectedOver(job.path)
      <4>1. Injections = {} => ~Marked(job.existing)
        BY <2>2, <2>5, GeneratesAreUnmarked DEF Earlier, MergeInv, RememberedAreGenerates
      <4> QED
        BY <2>1, <4>1, ConflictStays
    <3>4. Marked(t) => Marked(job.existing)
      BY <2>1, <3>1 DEF TellInv
    <3> HIDE DEF t
    <3> QED
      BY <2>1, <2>2, <2>4, <3>1, <3>2, <3>3, <3>4, SaveStepTells
  <2>6. CASE ~Earlier
    <3>1. /\ opt.duplicate /\ base[job.path] # NoFile /\ base[job.path] \in Text
          /\ Baseline = base[job.path]
      BY <2>1, <2>2, <2>6 DEF Mergeable, Baseline, File
    <3>2. Merged = Merge(job.content, base[job.path], job.existing)
      BY <2>6, <3>1 DEF Merged
    <3>3. t \in Text
      BY <2>2, <3>1, <3>2, MergeIsText
    <3>4. /\ unresolved => Marked(job.existing)
          /\ ~Merged.conflict /\ Marked(t) => Marked(job.existing)
          /\ Merged.conflict => Marked(t)
      <4>1. /\ unresolved => HasConflicts(job.existing)
            /\ ~Merged.conflict /\ HasConflicts(t) =>
                  HasConflicts(job.content) \/ HasConflicts(job.existing)
            /\ Merged.conflict => HasConflicts(t)
        BY <2>2, <3>1, <3>2, MergeMarks
      <4>2. Marked(job.content) => Marked(job.existing)
        BY <2>1 DEF TellInv
      <4> HIDE DEF t
      <4> QED
        BY <1>n, <2>2, <3>3, <4>1, <4>2 DEF Marked
    <3>5. CASE (refused \/ unresolved) /\ NotLanded
      <4>1. conflict => opt.conflictFail \/ Marked(job.existing)
        BY <3>4, <3>5
      <4> HIDE DEF conflict
      <4> QED
        BY <2>1, <2>2, <2>4, <3>1, <3>5, <4>1, SaveStepTells
    <3>6. CASE ~unresolved /\ ~refused /\ Land(t)
      <4>1. Injections = {} /\ Marked(job.existing) => unresolved
        <5>1. Injections = {} => base[job.path] \in Generates
          BY <2>2, <3>1 DEF MergeInv, RememberedAreGenerates
        <5>2. Injections = {} /\ Marked(job.existing) => job.existing # base[job.path]
          BY <5>1, GeneratesAreUnmarked
        <5> QED
          BY <2>2, <3>2, <5>2 DEF Merge, Unresolved, Marked
      <4>2. job.path \in files'.conflicted /\ ~opt.conflictFail /\ ~opt.dryrun =>
               Marked(t) \/ InjectedOver(job.path)
        BY <2>1, <2>4, <3>4, <3>6, <4>1, ConflictStays
      <4>3. Marked(t) => Marked(job.existing) \/ job.path \in files'.conflicted
        BY <2>4, <3>4
      <4>4. Land(t)
        BY <3>6
      <4> HIDE DEF conflict, t
      <4> QED
        BY <2>1, <2>2, <2>4, <3>1, <3>3, <4>2, <4>3, <4>4, SaveStepTells
    <3> QED
      BY <2>3, <3>5, <3>6
  <2> QED
    BY <2>5, <2>6
<1>12. CASE MergeNoBase
  <2>1. /\ SameSave /\ NotLanded /\ job.path \in Paths /\ pc' = "write"
        /\ pc \in SaveSteps \ {"duplicate"} /\ pc' \in SaveSteps /\ ~opt.diff
        /\ files' = Listed({"unmerged"}) /\ Baseline = NoFile
    BY <1>12, <1>h, MergeNoBaseDoes DEF MergeNoBase, SaveSteps, TellInv
  <2>2. Changed \subseteq Changed' /\ files'.conflicted = files.conflicted
    BY <1>5, <2>1
  <2> QED
    BY <2>1, <2>2, SaveStepTells
<1>13. CASE Write
  <2>1. /\ SameSave /\ pc = "write" /\ pc' = "duplicate" /\ job.path \in Paths /\ job.content \in Text
        /\ pc \in SaveSteps \ {"duplicate"} /\ pc' \in SaveSteps
    BY <1>13, <1>h, WriteDoes DEF Write, SaveSteps
  <2>2. CASE NotLanded /\ (UNCHANGED files \/ files' = Listed({"unchanged"}))
    <3>1. Changed \subseteq Changed' /\ files'.conflicted = files.conflicted
      BY <1>5, <1>6, <2>1, <2>2
    <3> QED
      BY <2>1, <2>2, <3>1, SaveStepTells
  <2>3. CASE job.write /\ Land(job.content) /\ files' = Listed({"written"})
    <3>1. /\ Changed \subseteq Changed' /\ job.path \in Changed'
          /\ files'.conflicted = files.conflicted
      BY <1>5, <2>1, <2>3
    <3>2. Marked(job.content) => Marked(job.existing)
      BY <2>1 DEF TellInv
    <3>3. job.path \in files.conflicted /\ ~opt.conflictFail /\ ~opt.dryrun => InjectedOver(job.path)
      <4>1. ASSUME job.path \in files.conflicted PROVE ~Marked(job.existing)
        BY <2>1, <2>3, <4>1 DEF TellInv, Running, Baseline, Marked
      <4> QED
        BY <2>1, <4>1, ConflictStays
    <3> QED
      BY <2>1, <2>3, <3>1, <3>2, <3>3, SaveStepTells
  <2> QED
    BY <1>13, <2>2, <2>3, Zenon DEF Write
<1>14. CASE Duplicate
  <2>1. /\ pc = "duplicate" /\ pc' = "walk" /\ job.path \in Paths /\ job.content \in Text
        /\ UNCHANGED <<disk, opt, files, before, saved, again, outcome>>
        /\ base' = IF MovesBase THEN Put(base, job.content) ELSE base
    <3>1. pc = "duplicate"
      BY <1>14, Zenon DEF Duplicate
    <3>2. job.path \in Paths /\ job.content \in Text
      BY <1>h, <3>1 DEF SaveSteps
    <3> QED
      BY <1>14, <3>2, Zenon DEF Duplicate
  <2>2. \A p \in Paths : base[p] # NoFile => base'[p] # NoFile
    BY <1>n, <2>1 DEF Put, TypeOK
  <2> QED
    BY <1>2, <2>1, <2>2 DEF Running, SaveSteps
<1>15. ASSUME Running, pc' = "idle", UNCHANGED <<disk, report, before>>
       PROVE  TellInv'
  <2>1. Telling' => \A p \in Paths : Told(p)'
    BY <1>15 DEF TellInv, Telling, Told, Changed, InjectedOver, report
  <2> QED
    BY <1>15, <2>1 DEF TellInv, Running, SaveSteps
<1>16. CASE \/ Finish
            \/ \E p \in Paths : InjectMissing(p)
            \/ \E how \in {"error", "crash"} : Stop(how)
  BY <1>15, <1>16 DEF Finish, InjectMissing, Stop, RunOver, provider, Running
<1>17. CASE \/ \E p \in Paths : UserEdit(p) \/ UserDelete(p) \/ UserCreate(p) \/ Checkout(p)
            \/ Clone \/ BadLog
  <2>1. \E kind : Event(kind)
    BY <1>17 DEF UserEdit, UserDelete, UserCreate, Checkout, Clone, BadLog
  <2>2. pc' = "idle" /\ outcome' = "none"
    BY <2>1 DEF Event
  <2> QED
    BY <2>2 DEF TellInv, Telling, Running, SaveSteps
<1>18. CASE UNCHANGED vars
  BY <1>18 DEF vars, TellInv, Telling, Told, Changed, InjectedOver, Running, Baseline
<1> QED
  BY <1>1, <1>4, <1>7, <1>8, <1>9, <1>10, <1>11, <1>12, <1>13, <1>14, <1>16, <1>17, <1>18
     DEF Next, RunStep, Begin, SaveStep, Between

\* A run that hands out its lists names every file it changed and every
\* conflict it left, Injects or not; and what it lists as conflicted holds
\* markers, unless an Inject came between two saves of it (filelog, saveMerge).
THEOREM TheReportIsComplete == Spec => []ReportNamesEveryChange
<1> DEFINE Remembers == Injections = {} => MergeInv
<1>1. Init => TypeOK /\ SaveKnows /\ RefusedStays /\ TellInv /\ Remembers
  BY InitTypeOK, InitSaveKnows, InitRefusedStays, InitTellInv, InitMergeInv
<1>2. /\ TypeOK /\ SaveKnows /\ RefusedStays /\ TellInv /\ Remembers /\ [Next]_vars
      => TypeOK' /\ SaveKnows' /\ RefusedStays' /\ TellInv' /\ Remembers'
  <2>1. TypeOK /\ Remembers /\ [Next]_vars => Remembers'
    BY StepMergeInv DEF IInv
  <2> QED
    BY <2>1, StepTypeOK, StepSaveKnows, StepRefusedStays, StepTellInv
<1>3. TellInv => ReportNamesEveryChange
  BY DEF TellInv, Telling, Told, Changed, ReportNamesEveryChange
<1> QED
  BY <1>1, <1>2, <1>3, PTL DEF Spec

-----------------------------------------------------------------------------
(* The promise of MergeBase, in a folder no Inject writes to: every step of*)
(* a run is a landing, a move of the baseline, something given up, or      *)
(* nothing at all.                                                         *)

PInv == IInv /\ SaveKnows

\* What a run may overwrite.
Forfeited == IF MergeRun THEN files.unmerged ELSE Paths

\* Both speak of the same texts.
LEMMA SameTexts == Promise!Text = Text
BY DEF Promise!Text, Text, Promise!Lines, Lines

\* Nothing is pending outside of a save.
LEMMA NothingPending ==
    ASSUME pc \notin SaveSteps
    PROVE  Pending = Promise!Nowhere
BY DEF Pending, Promise!Nowhere

\* A save that goes on without landing anything shows nothing.
LEMMA GoesOn ==
    ASSUME TypeOK, pc \in SaveSteps, pc' \in SaveSteps, SameSave, NotLanded,
           job'.landed = job.landed
    PROVE  UNCHANGED <<disk, base, Pending>>
BY DEF SameSave, NotLanded, Pending

\* The lists of a run that goes on name what they named.
LEMMA ListsStay ==
    ASSUME TypeOK, opt' = opt,
           files' = files \/ \E kinds : files' = Listed(kinds) /\ "unmerged" \notin kinds
    PROVE  Forfeited' = Forfeited
<1>1. files'.unmerged = files.unmerged
  BY DEF TypeOK, Listed, Kinds
<1> QED
  BY <1>1 DEF Forfeited, MergeRun

\* A generate lands: in the folder of a dry run nothing shows of it.
LEMMA LandRefines ==
    ASSUME TypeOK, TypeOK', pc \in SaveSteps, pc' \in SaveSteps, SameSave, SaveSeesTheFile,
           pc # "duplicate", ~job.landed, job'.landed, Forfeited' = Forfeited,
           NEW t \in Text, Land(t),
           \/ job.existing # NoFile =>
                \A r \in Regions : Held(job.existing, r, UserLines) \subseteq Held(t, r, UserLines)
           \/ job.path \in Forfeited
    PROVE  \/ UNCHANGED <<disk, base, Pending>>
           \/ Promise!Land(job.path)
<1> DEFINE p == job.path
<1>1. /\ job \in Jobs /\ p \in Paths /\ job.content \in Text /\ job'.path = p
      /\ job'.content = job.content /\ base' = base /\ opt' = opt
      /\ job.existing = disk[p]
  BY DEF SameSave, Jobs, SaveSeesTheFile
<1>2. CASE opt.dryrun
  BY <1>1, <1>2 DEF Land, Put, Pending
<1>3. CASE ~opt.dryrun
  <2>1. disk' = [disk EXCEPT ![p] = t] /\ disk'[p] = t /\ \A q \in Paths \ {p} : disk'[q] = disk[q]
    BY <1>1, <1>3 DEF Land, Put, TypeOK
  <2>2. /\ Pending' = [q \in Paths |-> IF q = p THEN job.content ELSE NoFile]
        /\ Pending = [q \in Paths |-> NoFile]
    BY <1>1, <1>3 DEF Pending
  <2>3. t # NoFile
    BY HandlerAssumption
  <2>4. Promise!Keeps(disk[p], disk'[p]) \/ p \in Forfeited
    BY <1>1, <2>1, <2>3 DEF Promise!Keeps, Held
  <2> QED
    BY <1>1, <2>1, <2>2, <2>4, SameTexts DEF Promise!Land, Promise!OthersStay, Forfeited
<1> QED
  BY <1>2, <1>3

\* The end of a save or of a run, whatever was pending.
LEMMA DropRefines ==
    ASSUME TypeOK', pc' \notin SaveSteps, UNCHANGED <<disk, base>>
    PROVE  Promise!Drop
<1>1. Pending' = Promise!Nowhere'
  BY DEF Pending, Promise!Nowhere
<1>2. Forfeited' \subseteq Paths
  BY DEF TypeOK, Forfeited, Kinds
<1> QED
  BY <1>1, <1>2 DEF Promise!Drop, Promise!Nowhere, Forfeited

LEMMA BeginRefines ==
    ASSUME TypeOK, TypeOK', NEW p \in Paths, NEW g \in Text, BeginSave(p, g)
    PROVE  Promise!Land(p) \/ UNCHANGED Promise!abstractVars
<1>1. /\ pc = "walk" /\ pc' \in SaveSteps
      /\ job'.path = p /\ job'.content = g /\ job'.landed = (disk[p] = g)
      /\ UNCHANGED <<disk, base, opt, files>>
  BY DEF BeginSave, provider, SaveSteps
<1>2. Pending = [q \in Paths |-> NoFile] /\ Forfeited' = Forfeited
  BY <1>1 DEF Pending, SaveSteps, Forfeited, MergeRun
<1>3. CASE disk[p] = g /\ ~opt.dryrun
  <2>1. Pending' = [q \in Paths |-> IF q = p THEN g ELSE NoFile]
    BY <1>1, <1>3 DEF Pending
  <2>2. Promise!Keeps(disk[p], disk'[p])
    BY <1>1 DEF Promise!Keeps
  <2> QED
    BY <1>1, <1>2, <1>3, <2>1, <2>2, SameTexts DEF Promise!Land, Promise!OthersStay, Forfeited
<1>4. CASE ~(disk[p] = g /\ ~opt.dryrun)
  <2>1. Pending' = [q \in Paths |-> NoFile]
    BY <1>1, <1>4 DEF Pending
  <2> QED
    BY <1>1, <1>2, <2>1 DEF Promise!abstractVars, Forfeited
<1> QED
  BY <1>3, <1>4

\* What the merge makes of a file is a text, and keeps the user's lines.
LEMMA MergedIsText ==
    ASSUME TypeOK, RememberedAreGenerates, SaveMerge, job \in Jobs, job.existing \in Text
    PROVE  Merged.content \in Text
<1>1. job.content \in Text /\ job.path \in Paths
  BY DEF Jobs
<1>2. CASE Earlier
  BY <1>1, <1>2 DEF Merged
<1>3. CASE ~Earlier
  <2>1. Baseline \in Text
    BY <1>1, <1>3, GenerateIsText DEF SaveMerge, Mergeable, Baseline, RememberedAreGenerates
  <2> QED
    BY <1>1, <1>3, <2>1, MergeIsText DEF Merged
<1> QED
  BY <1>2, <1>3

LEMMA MergedKeepsRegion ==
    ASSUME TypeOK, RememberedAreGenerates, SaveMerge, job \in Jobs, job.existing \in Text,
           NEW r \in Regions
    PROVE  Held(job.existing, r, UserLines) \subseteq Held(Merged.content, r, UserLines)
<1>1. job.content \in Text /\ job.path \in Paths
  BY DEF Jobs
<1>2. CASE Earlier
  <2>1. job.existing \in Generates
    BY <1>1, <1>2 DEF Earlier, RememberedAreGenerates
  <2> QED
    BY <2>1, GeneratesHoldNoUserLine
<1>3. CASE ~Earlier
  <2>1. Baseline \in Generates
    BY <1>1, <1>3 DEF SaveMerge, Mergeable, Baseline, RememberedAreGenerates
  <2> QED
    BY <1>1, <1>3, <2>1, MergeKeepsRegion DEF Merged
<1> QED
  BY <1>2, <1>3

\* The plain write: an existing file it replaces is given up before.
LEMMA WriteRefines ==
    ASSUME TypeOK, TypeOK', SaveSeesTheFile, OverwriteIsListed, Write,
           job \in Jobs, Forfeited' = Forfeited
    PROVE  (\E p \in Paths : Promise!Land(p)) \/ UNCHANGED Promise!abstractVars
<1>1. /\ SameSave /\ pc = "write" /\ pc' = "duplicate"
      /\ job'.landed = (job.write \/ job.landed)
      /\ job.content \in Text /\ job.path \in Paths /\ job.existing = disk[job.path]
      /\ job.landed \in BOOLEAN /\ job.write \in BOOLEAN
      /\ job'.path = job.path /\ job'.content = job.content
      /\ UNCHANGED <<base, opt>>
  BY WriteDoes DEF Write, SaveSteps, SameSave, Jobs, SaveSeesTheFile
<1> DEFINE p == job.path
<1>2. CASE NotLanded /\ (job.landed \/ ~job.write)
  <2>1. UNCHANGED <<disk, base, Pending>>
    BY <1>1, <1>2, GoesOn DEF SaveSteps
  <2> QED
    BY <2>1 DEF Promise!abstractVars, Forfeited
<1>3. ASSUME job.write, ~opt.dryrun, disk'[p] \in Text,
             \A q \in Paths \ {p} : disk'[q] = disk[q],
             disk'[p] = disk[p] \/ disk'[p] = job.content
      PROVE  Promise!Land(p)
  <2>1. Pending' = [q \in Paths |-> IF q = p THEN job.content ELSE NoFile]
    BY <1>1, <1>3 DEF Pending, SaveSteps
  <2>2. \A q \in Paths \ {p} : Pending'[q] = Pending[q]
    BY <1>1, <2>1 DEF Pending
  <2>3. Promise!Keeps(disk[p], disk'[p]) \/ p \in Forfeited
    BY <1>1, <1>3 DEF Promise!Keeps, OverwriteIsListed, Forfeited
  <2> QED
    BY <1>1, <1>3, <2>1, <2>2, <2>3, SameTexts
       DEF Promise!Land, Promise!OthersStay, Forfeited
<1>4. CASE NotLanded /\ job.write /\ Unchanged /\ ~opt.dryrun
  <2>1. disk' = disk /\ disk[p] \in Text
    BY <1>1, <1>4 DEF NotLanded, Unchanged
  <2> QED
    BY <1>1, <1>3, <1>4, <2>1
<1>5. CASE Land(job.content) /\ job.write /\ ~opt.dryrun
  <2>1. disk' = [disk EXCEPT ![p] = job.content]
    BY <1>5 DEF Land, Put
  <2> QED
    BY <1>1, <1>3, <1>5, <2>1 DEF TypeOK
<1>6. CASE opt.dryrun
  <2>1. disk' = disk
    BY <1>6, WriteDoes DEF Land, Put, NotLanded
  <2>2. UNCHANGED Pending
    BY <1>1, <1>6 DEF Pending
  <2> QED
    BY <1>1, <2>1, <2>2 DEF Promise!abstractVars, Forfeited
<1> QED
  BY <1>1, <1>2, <1>4, <1>5, <1>6, WriteDoes

\* The baseline moves to what is pending, or what is pending is dropped.
LEMMA DuplicateRefines ==
    ASSUME TypeOK, TypeOK', Duplicate
    PROVE  (\E p \in Paths : Promise!Record(p)) \/ Promise!Drop
<1>1. /\ pc = "duplicate" /\ pc' = "walk" /\ job \in Jobs
      /\ UNCHANGED <<disk, opt, files>>
      /\ base' = IF MovesBase THEN Put(base, job.content) ELSE base
  <2>1. job \in Jobs
    BY DEF Duplicate, TypeOK, SaveSteps
  <2> QED
    BY <2>1, Zenon DEF Duplicate
<1>2. CASE MovesBase /\ ~opt.dryrun
  <2> DEFINE p == job.path
  <2>1. p \in Paths /\ job.content \in Text /\ job.content # NoFile
    BY <1>1, HandlerAssumption DEF Jobs
  <2>2. Pending = [q \in Paths |-> IF q = p THEN job.content ELSE NoFile]
    BY <1>1, <1>2 DEF Pending, SaveSteps, MovesBase
  <2>3. Pending' = [q \in Paths |-> NoFile]
    BY <1>1 DEF Pending, SaveSteps
  <2>4. base' = [base EXCEPT ![p] = job.content]
    BY <1>1, <1>2 DEF Put
  <2>5. Forfeited' = Forfeited
    BY <1>1 DEF Forfeited, MergeRun
  <2>6. Promise!Record(p)
    <3>1. Pending[p] = job.content /\ Pending' = [Pending EXCEPT ![p] = NoFile]
      BY <2>1, <2>2, <2>3
    <3> QED
      BY <1>1, <2>1, <2>4, <2>5, <3>1 DEF Promise!Record, Forfeited
  <2> QED
    BY <2>1, <2>6
<1>3. CASE ~MovesBase \/ opt.dryrun
  <2>1. UNCHANGED <<disk, base>> /\ pc' \notin SaveSteps
    BY <1>1, <1>3 DEF Put, SaveSteps
  <2> QED
    BY <2>1, DropRefines
<1> QED
  BY <1>2, <1>3

-----------------------------------------------------------------------------
(* Every step of the handler is one of the promise. *)

LEMMA StepRefines ==
    ASSUME Injections = {}
    PROVE  PInv /\ PInv' /\ [Next]_vars => [Promise!Next]_(Promise!abstractVars)
<1> SUFFICES ASSUME PInv, PInv', [Next]_vars PROVE [Promise!Next]_(Promise!abstractVars)
  OBVIOUS
<1>1. /\ TypeOK /\ TypeOK' /\ SaveKnows /\ SaveSeesTheFile
      /\ RememberedAreGenerates /\ OverwriteIsListed
  BY DEF PInv, IInv, MergeInv, SaveKnows
<1>2. ASSUME UNCHANGED <<disk, base, Pending>>, Forfeited' = Forfeited
      PROVE  UNCHANGED Promise!abstractVars
  BY <1>2 DEF Promise!abstractVars, Forfeited
<1>3. ASSUME NEW p \in Paths, NEW g \in Generates, BeginSave(p, g)
      PROVE  Promise!Next \/ UNCHANGED Promise!abstractVars
  BY <1>1, <1>3, BeginRefines, GenerateIsText DEF Promise!Next
<1>4. CASE Preserve
  <2>1. /\ SameSave /\ NotLanded /\ job' = job /\ pc \in SaveSteps /\ pc' \in SaveSteps
    BY <1>1, <1>4, PreserveDoes DEF Preserve, SaveSteps
  <2>2. Forfeited' = Forfeited
    BY <1>1, <1>4, <2>1, ListsStay DEF Preserve, SameSave
  <2> QED
    BY <1>1, <1>2, <2>1, <2>2, GoesOn
<1>5. CASE Present
  <2>1. /\ SameSave /\ NotLanded /\ job'.landed = job.landed
        /\ pc \in SaveSteps /\ pc' \in SaveSteps
    BY <1>1, <1>5, PresentDoes DEF Present, SaveSteps
  <2>2. files' = files \/ files' = Listed({"presented"})
    BY <1>5, Zenon DEF Present
  <2>3. Forfeited' = Forfeited
    BY <1>1, <2>1, <2>2, ListsStay DEF SameSave
  <2> QED
    BY <1>1, <1>2, <2>1, <2>3, GoesOn
<1>6. CASE Diff
  <2>1. /\ SameSave /\ job'.landed /\ pc = "diff" /\ pc' = "duplicate"
        /\ job.existing \in Text /\ job.content \in Text
        /\ (job.landed <=> Unchanged) /\ job.landed \in BOOLEAN /\ job'.landed \in BOOLEAN
    BY <1>1, <1>6, DiffDoes DEF Diff, SaveSteps, TypeOK, SameSave, Jobs, SaveKnows
  <2>2. files' = Listed({"unchanged"}) \/ files' = Listed({"diffed", "conflicted"})
    BY <1>6 DEF Diff
  <2>3. Forfeited' = Forfeited
    BY <1>1, <2>1, <2>2, ListsStay DEF SameSave
  <2>4. CASE Unchanged
    <3>1. NotLanded
      BY <1>6, <2>4, Zenon DEF Diff
    <3> QED
      BY <1>1, <1>2, <2>1, <2>3, <2>4, <3>1, GoesOn DEF SaveSteps
  <2>5. CASE ~Unchanged
    <3>1. Land(DiffRender(job.content, job.existing))
      BY <1>1, <1>6, <2>5, Zenon DEF Diff
    <3>2. DiffRender(job.content, job.existing) \in Text
      BY <2>1, RenderIsText
    <3>3. \A r \in Regions : Held(job.existing, r, UserLines)
                            \subseteq Held(DiffRender(job.content, job.existing), r, UserLines)
      BY <2>1, DiffKeepsRegion
    <3>4. \/ UNCHANGED <<disk, base, Pending>>
          \/ Promise!Land(job.path)
      BY <1>1, <2>1, <2>3, <2>5, <3>1, <3>2, <3>3, LandRefines DEF SaveSteps
    <3> QED
      BY <1>2, <2>1, <2>3, <3>4 DEF Promise!Next, SameSave, Jobs
  <2> QED
    BY <2>4, <2>5
<1>7. CASE MergeUnchanged
  <2>1. /\ SameSave /\ NotLanded /\ pc = "merge" /\ pc' = "duplicate"
        /\ job'.landed = job.landed
    BY <1>1, <1>7, MergeUnchangedDoes DEF MergeUnchanged, SaveKnows, SameSave, Jobs
  <2>2. files' = Listed({"unchanged"})
    BY <1>7 DEF MergeUnchanged
  <2>3. Forfeited' = Forfeited
    BY <1>1, <2>1, <2>2, ListsStay DEF SameSave
  <2> QED
    BY <1>1, <1>2, <2>1, <2>3, GoesOn DEF SaveSteps
<1>8. CASE SaveMerge
  <2>1. /\ SameSave /\ pc = "merge" /\ pc' = "duplicate" /\ ~job.landed
        /\ job.existing \in Text /\ job.content \in Text /\ job.path \in Paths
        /\ job.landed \in BOOLEAN /\ job'.landed \in BOOLEAN
    <3>1. pc = "merge" /\ pc' = "duplicate" /\ ~Unchanged /\ SameSave
      BY <1>1, <1>8, SaveMergeDoes, Zenon DEF SaveMerge
    <3> QED
      BY <1>1, <3>1 DEF SaveKnows, SaveSteps, TypeOK, SameSave, Jobs
  <2>2. \E conflict : files' = Listed(MergeLists(conflict))
    BY <1>8, Zenon DEF SaveMerge
  <2>3. Forfeited' = Forfeited
    BY <1>1, <2>1, <2>2, ListsStay DEF SameSave, MergeLists
  <2>4. CASE ~job'.landed /\ NotLanded
    BY <1>1, <1>2, <2>1, <2>3, <2>4, GoesOn DEF SaveSteps
  <2>5. CASE job'.landed /\ Land(Merged.content)
    <3>1. Merged.content \in Text
      BY <1>1, <1>8, <2>1, MergedIsText DEF SameSave
    <3>2. \A r \in Regions : Held(job.existing, r, UserLines)
                            \subseteq Held(Merged.content, r, UserLines)
      BY <1>1, <1>8, <2>1, MergedKeepsRegion DEF SameSave
    <3>3. \/ UNCHANGED <<disk, base, Pending>>
          \/ Promise!Land(job.path)
      BY <1>1, <2>1, <2>3, <2>5, <3>1, <3>2, LandRefines DEF SaveSteps
    <3> QED
      BY <1>2, <2>1, <2>3, <3>3 DEF Promise!Next
  <2> QED
    BY <1>1, <1>8, <2>4, <2>5, SaveMergeDoes
<1>9. CASE MergeNoBase
  <2>1. /\ SameSave /\ NotLanded /\ pc \in SaveSteps /\ pc' \in SaveSteps
        /\ job'.landed = job.landed
    BY <1>1, <1>9, MergeNoBaseDoes DEF MergeNoBase, SaveSteps
  <2>2. UNCHANGED <<disk, base, Pending>>
    BY <1>1, <2>1, GoesOn
  <2>3. Forfeited' \subseteq Paths
    BY <1>1 DEF TypeOK, Forfeited, Kinds
  <2> QED
    BY <2>2, <2>3 DEF Promise!Forfeit, Promise!Next, Forfeited
<1>10. CASE Write
  <2>1. /\ SameSave /\ pc = "write" /\ pc' = "duplicate"
        /\ job'.landed = (job.write \/ job.landed)
        /\ job.content \in Text /\ job.path \in Paths /\ job.existing = disk[job.path]
        /\ job.landed \in BOOLEAN /\ job.write \in BOOLEAN
    BY <1>1, <1>10, WriteDoes DEF Write, SaveSteps, SameSave, Jobs, SaveSeesTheFile
  <2>2. \/ files' = files \/ files' = Listed({"unchanged"}) \/ files' = Listed({"written"})
    BY <1>10, Zenon DEF Write
  <2>3. Forfeited' = Forfeited
    BY <1>1, <2>1, <2>2, ListsStay DEF SameSave
  <2> QED
    BY <1>1, <1>10, <2>1, <2>3, WriteRefines DEF Promise!Next, SameSave
<1>11. CASE Duplicate
  BY <1>1, <1>11, DuplicateRefines DEF Promise!Next
<1>12. CASE \/ Finish
            \/ \E p \in Paths : InjectMissing(p)
            \/ \E how \in {"error", "crash"} : Stop(how)
  <2>1. UNCHANGED <<disk, base>> /\ pc' \notin SaveSteps
    BY <1>12 DEF Finish, InjectMissing, Stop, RunOver, provider, SaveSteps
  <2> QED
    BY <1>1, <2>1, DropRefines DEF Promise!Next
<1>13. ASSUME NEW o \in OptionSets, StartRun(o) PROVE Promise!Next
  <2>1. UNCHANGED <<disk, base>> /\ pc \notin SaveSteps /\ pc' \notin SaveSteps
    BY <1>13 DEF StartRun, provider, SaveSteps
  <2> QED
    BY <1>1, <2>1, DropRefines DEF Promise!Next
<1>14. ASSUME NEW kind, Event(kind)
       PROVE  /\ Pending = Promise!Nowhere /\ Pending' = Promise!Nowhere
              /\ Forfeited' = Forfeited
  BY <1>14 DEF Event, report, Pending, Promise!Nowhere, SaveSteps, Forfeited, MergeRun
<1>15. ASSUME NEW p \in Paths, UserEdit(p) \/ UserDelete(p) \/ UserCreate(p) \/ Checkout(p)
       PROVE  Promise!Outside(p)
  <2>1. (\E kind : Event(kind)) /\ \E f : Replace(p, f)
    BY <1>15 DEF UserEdit, UserDelete, UserCreate, Checkout
  <2>2. UNCHANGED base /\ \A q \in Paths \ {p} : disk'[q] = disk[q]
    BY <1>1, <2>1 DEF Replace, TypeOK
  <2>3. disk'[p] \in Text \cup {NoFile}
    BY <1>1 DEF TypeOK, File
  <2> QED
    BY <1>14, <2>1, <2>2, <2>3, SameTexts
       DEF Promise!Outside, Promise!OthersStay, Forfeited
<1>16. CASE Clone
  <2>1. Event("clone") /\ base' = NoFiles /\ disk' = disk
    BY <1>16 DEF Clone
  <2> QED
    BY <1>14, <2>1 DEF Promise!Forget, Promise!Next, Promise!Nowhere, NoFiles, Forfeited
<1>17. CASE BadLog
  <2>1. Event("badlog") /\ UNCHANGED <<disk, base>>
    BY <1>17 DEF BadLog
  <2> QED
    BY <1>2, <1>14, <2>1
<1>18. CASE UNCHANGED vars
  BY <1>2, <1>18 DEF vars, Pending, Forfeited, MergeRun
<1> QED
  BY <1>3, <1>4, <1>5, <1>6, <1>7, <1>8, <1>9, <1>10, <1>11, <1>12, <1>13, <1>15, <1>16,
     <1>17, <1>18
     DEF Next, RunStep, Begin, SaveFile, Inject, SaveStep, Between, Promise!Next

\* A file changes under the user only by the landing of a generate, which
\* keeps the user's lines unless the run listed the file, or does not merge;
\* a baseline only moves to what has just landed (saveAs, writeDuplicate).
THEOREM PromiseKept ==
    ASSUME Injections = {}
    PROVE  Spec => KeepsItsPromise
<1>1. Init => PInv
  BY InitTypeOK, InitMergeInv, InitSaveKnows DEF PInv, IInv
<1>2. PInv /\ [Next]_vars => PInv'
  BY StepTypeOK, StepMergeInv, StepSaveKnows DEF PInv, IInv
<1>3. Init => Promise!Init
  <2> SUFFICES ASSUME Init PROVE Promise!Init
    OBVIOUS
  <2>1. TypeOK /\ pc = "idle" /\ disk = NoFiles /\ base = NoFiles
    BY InitTypeOK DEF Init
  <2>2. Forfeited \subseteq Paths
    BY <2>1 DEF TypeOK, Forfeited, Kinds
  <2> QED
    BY <2>1, <2>2 DEF Promise!Init, Promise!Nowhere, NoFiles, Pending, SaveSteps, Forfeited
<1>4. PInv /\ PInv' /\ [Next]_vars => [Promise!Next]_(Promise!abstractVars)
  BY StepRefines
<1> QED
  BY <1>1, <1>2, <1>3, <1>4, PTL DEF Spec, KeepsItsPromise, Promise!Spec
=============================================================================
