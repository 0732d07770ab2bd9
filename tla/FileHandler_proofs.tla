------------------------- MODULE FileHandler_proofs -------------------------
(***************************************************************************)
(* Theorems about the file handler, for every set of paths, texts, modes   *)
(* and events: its types, and that a merge run keeps the user's lines in a *)
(* folder no Inject writes to.                                             *)
(***************************************************************************)
EXTENDS FileHandlerProps, TLAPS

(* Lemmas about the operators the steps are built from. *)

\* Moving a fingerprint to the end gives a history of the same fingerprints.
LEMMA NewestInSeq ==
    ASSUME NEW S, NEW seq \in Seq(S), NEW t \in S
    PROVE  Newest(seq, t) \in Seq(S)
<1>1. CASE t \in Range(seq)
  <2> DEFINE i == CHOOSE i \in DOMAIN seq : seq[i] = t
             moved == [j \in 1..Len(seq) |-> IF j < i THEN seq[j]
                                             ELSE IF j < Len(seq) THEN seq[j + 1] ELSE t]
  <2>1. \A j \in 1..Len(seq) : moved[j] \in S
    OBVIOUS
  <2>2. moved \in [1..Len(seq) -> S]
    BY <2>1
  <2>3. moved \in Seq(S)
    BY <2>2
  <2> QED
    BY <1>1, <2>3 DEF Newest
<1>2. CASE t \notin Range(seq)
  BY <1>2 DEF Newest
<1> QED
  BY <1>1, <1>2

\* The history of a file stays a history, and is never longer than History.
LEMMA WithFingerprintInSeq ==
    ASSUME NEW S, NEW seq \in Seq(S), NEW t \in S
    PROVE  /\ WithFingerprint(seq, t) \in Seq(S)
           /\ Len(WithFingerprint(seq, t)) <= History
<1> DEFINE all == Newest(seq, t)
<1>1. all \in Seq(S)
  BY NewestInSeq
<1>2. History \in Nat \ {0}
  BY HandlerAssumption
<1> HIDE DEF all
<1>3. CASE Len(all) > History
  <2>1. /\ Len(all) - History + 1 \in 1..Len(all)
        /\ Len(all) \in Nat
    BY <1>1, <1>2, <1>3
  <2>2. /\ SubSeq(all, Len(all) - History + 1, Len(all)) \in Seq(S)
        /\ Len(SubSeq(all, Len(all) - History + 1, Len(all))) = History
    BY <1>1, <1>2, <2>1
  <2> QED
    BY <1>2, <1>3, <2>2 DEF WithFingerprint, all
<1>4. CASE ~(Len(all) > History)
  BY <1>1, <1>2, <1>4 DEF WithFingerprint, all
<1> QED
  BY <1>3, <1>4

\* What a merge leaves is a text.
LEMMA MergeIsText ==
    ASSUME NEW gen \in Text, NEW bas \in Text, NEW exist \in Text
    PROVE  /\ Merge(gen, bas, exist).content \in Text
           /\ Merge(gen, bas, exist).conflict \in BOOLEAN
<1>1. \A r \in Regions : MergeRegion(gen[r], bas[r], exist[r]) \in SUBSET Lines
  BY DEF MergeRegion, Conflict, Text, Lines
<1> QED
  BY <1>1 DEF Merge, Text

\* What a diff leaves, and what an Inject makes of a file, is a text.
LEMMA RenderIsText ==
    ASSUME NEW gen \in Text, NEW exist \in Text
    PROVE  DiffRender(gen, exist) \in Text
BY DEF DiffRender, Conflict, Text, Lines

LEMMA InjectedIsText ==
    ASSUME NEW t \in Text, NEW body \in Injections
    PROVE  Injected(t, body) \in Text
BY HandlerAssumption, LinesAssumption DEF Injected, Text, Lines

\* What a component generates is a text.
LEMMA GenerateIsText ==
    ASSUME NEW g \in Generates
    PROVE  g \in Text
BY HandlerAssumption DEF Text, Lines

-----------------------------------------------------------------------------
(* Type correctness. *)

LEMMA InitTypeOK == Init => TypeOK
<1> SUFFICES ASSUME Init PROVE TypeOK
  OBVIOUS
<1>1. \A S : <<>> \in Seq(S)
  OBVIOUS
<1>2. NoFiles \in [Paths -> File] /\ NoTraces \in [Paths -> Seq(Text)]
  BY <1>1 DEF NoFiles, NoTraces, File
<1>3. opt \in Options
  BY HandlerAssumption DEF Init
<1> QED
  BY <1>2, <1>3, HandlerAssumption
     DEF Init, TypeOK, NoLists, NoTraces, SaveSteps

\* Deciding on the write leaves the rest of the save as it is.
LEMMA DecidedIsJob ==
    ASSUME job \in Jobs, NEW w \in BOOLEAN, NEW l \in BOOLEAN
    PROVE  /\ Decided(w, l) \in Jobs
           /\ Decided(w, l).path = job.path
           /\ Decided(w, l).content = job.content
           /\ Decided(w, l).existing = job.existing
           /\ Decided(w, l).write = w /\ Decided(w, l).landed = l
BY DEF Decided, Jobs

\* Whatever a step lists, the lists stay sets of paths.
LEMMA ListedIsLists ==
    ASSUME files \in [Kinds -> SUBSET Paths], job \in Jobs, NEW kinds
    PROVE  Listed(kinds) \in [Kinds -> SUBSET Paths]
BY DEF Listed, Jobs

LEMMA PutIsFiles ==
    ASSUME NEW S, NEW f \in [Paths -> S], NEW t \in S, job \in Jobs
    PROVE  Put(f, t) \in [Paths -> S]
BY DEF Put, Jobs

\* A landing leaves texts, and remembers texts.
LEMMA LandTypes ==
    ASSUME TypeOK, job \in Jobs, NEW t \in Text, Land(t)
    PROVE  /\ disk' \in [Paths -> File]
           /\ landings' \in [Paths -> SUBSET (Text \X Text)]
<1>1. t \in File
  BY DEF File
<1>2. landings[job.path] \cup {<<job.content, t>>} \in SUBSET (Text \X Text)
  BY DEF TypeOK, Jobs
<1> QED
  BY <1>1, <1>2, PutIsFiles DEF Land, TypeOK

LEMMA StepTypeOK == TypeOK /\ [Next]_vars => TypeOK'
<1> SUFFICES ASSUME TypeOK, [Next]_vars PROVE TypeOK'
  OBVIOUS
<1> USE HandlerAssumption
<1>1. ASSUME NEW o \in OptionSets, StartRun(o) PROVE TypeOK'
  <2>1. o \in Options
    OBVIOUS
  <2>2. NoTraces \in [Paths -> Seq(Text)]
    BY DEF NoTraces
  <2> QED
    BY <1>1, <2>1, <2>2 DEF StartRun, TypeOK, provider, NoLists, NoTraces, SaveSteps
<1>2. ASSUME NEW p \in Paths, NEW content \in Text, BeginSave(p, content) PROVE TypeOK'
  <2>1. disk[p] \in File
    BY DEF TypeOK
  <2>2. job' \in Jobs
    BY <1>2, <2>1 DEF BeginSave, Jobs
  <2>4. pc' # "write" => disk[p] \in Text
    BY <1>2, <2>1 DEF BeginSave, File
  <2>3. landings' \in [Paths -> SUBSET (Text \X Text)]
    BY <1>2 DEF BeginSave, TypeOK
  <2> QED
    BY <1>2, <2>2, <2>3, <2>4 DEF BeginSave, TypeOK, provider, SaveSteps
<1>3. pc \in SaveSteps => job \in Jobs
  BY DEF TypeOK
<1>4. CASE Preserve
  <2>1. job \in Jobs /\ Backup \in File
    BY <1>3, <1>4 DEF Preserve, SaveSteps, Backup, TypeOK, Jobs
  <2>2. Put(old, Backup) \in [Paths -> File]
    BY <2>1, PutIsFiles DEF TypeOK
  <2> QED
    BY <1>4, <2>1, <2>2, ListedIsLists DEF Preserve, TypeOK, bounds, SaveSteps
<1>5. CASE Present
  <2>1. job \in Jobs /\ job.content \in File
    BY <1>3, <1>5 DEF Present, SaveSteps, Jobs, File
  <2> DEFINE write == opt.write /\ ~Protected
  <2>2. write \in BOOLEAN /\ job.landed \in BOOLEAN
    BY <2>1 DEF Jobs
  <2> HIDE DEF write
  <2>3. Decided(write, job.landed) \in Jobs
    BY <2>1, <2>2, DecidedIsJob
  <2>4. job' = Decided(write, job.landed)
    BY <1>5, Zenon DEF Present, write
  <2>5. job' \in Jobs /\ job'.existing = job.existing
    BY <2>1, <2>2, <2>4, DecidedIsJob
  <2>6. Put(fresh, job.content) \in [Paths -> File]
    BY <2>1, PutIsFiles DEF TypeOK
  <2>7. fresh' \in [Paths -> File] /\ files' \in [Kinds -> SUBSET Paths]
    BY <1>5, <2>1, <2>6, ListedIsLists DEF Present, TypeOK
  <2>8. pc' \in SaveSteps /\ job.existing \in Text
    BY <1>5 DEF Present, SaveSteps, TypeOK
  <2> QED
    BY <1>5, <2>5, <2>7, <2>8 DEF Present, TypeOK, bounds
<1>6. CASE Diff
  <2>1. job \in Jobs
    BY <1>3, <1>6 DEF Diff, SaveSteps
  <2>2. job' \in Jobs
    BY <1>6, <2>1, DecidedIsJob DEF Diff
  <2>3. ~Unchanged => DiffRender(job.content, job.existing) \in Text
    BY <1>6, <2>1, RenderIsText DEF Diff, TypeOK, Jobs, SaveSteps
  <2>4. /\ disk' \in [Paths -> File]
        /\ landings' \in [Paths -> SUBSET (Text \X Text)]
    <3>1. CASE Unchanged
      BY <1>6, <3>1 DEF Diff, TypeOK, NotLanded
    <3>2. CASE ~Unchanged
      BY <1>6, <2>1, <2>3, <3>2, LandTypes DEF Diff
    <3> QED
      BY <3>1, <3>2
  <2>5. files' \in [Kinds -> SUBSET Paths]
    BY <1>6, <2>1, ListedIsLists DEF Diff, TypeOK
  <2> QED
    BY <1>6, <2>2, <2>4, <2>5 DEF Diff, TypeOK, bounds, SaveSteps
<1>7. CASE MergeUnchanged
  <2>1. job \in Jobs
    BY <1>3, <1>7 DEF MergeUnchanged, SaveSteps
  <2>2. job' \in Jobs /\ files' \in [Kinds -> SUBSET Paths]
    BY <1>7, <2>1, DecidedIsJob, ListedIsLists DEF MergeUnchanged, TypeOK
  <2> QED
    BY <1>7, <2>2 DEF MergeUnchanged, TypeOK, provider, bounds, SaveSteps
<1>8. CASE SaveMerge
  <2>1. job \in Jobs /\ job.path \in Paths /\ job.content \in Text /\ job.existing \in Text
    BY <1>3, <1>8 DEF SaveMerge, SaveSteps, Jobs, TypeOK
  <2>2. Merged.content \in Text
    <3>1. CASE Earlier
      BY <2>1, <3>1 DEF Merged
    <3>2. CASE ~Earlier
      <4>1. Baseline \in Text
        BY <1>8, <2>1, <3>2 DEF SaveMerge, Mergeable, Baseline, TypeOK, File
      <4> QED
        BY <2>1, <3>2, <4>1, MergeIsText DEF Merged
    <3> QED
      BY <3>1, <3>2
  <2> DEFINE unresolved == Merged.outcome = "unresolved"
             conflict   == Merged.conflict \/ unresolved
             refused    == conflict /\ opt.conflictFail
             landed     == ~unresolved /\ ~refused
  <2>3. landed \in BOOLEAN /\ FALSE \in BOOLEAN
    OBVIOUS
  <2>4. job' = Decided(FALSE, landed) /\ files' = Listed(MergeLists(conflict))
    BY <1>8, Zenon DEF SaveMerge
  <2>5. job' \in Jobs
    <3> HIDE DEF landed
    <3> QED
      BY <2>1, <2>3, <2>4, DecidedIsJob
  <2>6. files' \in [Kinds -> SUBSET Paths]
    BY <2>1, <2>4, ListedIsLists DEF TypeOK
  <2>7. \/ NotLanded
        \/ Land(Merged.content)
    BY <1>8, Zenon DEF SaveMerge
  <2>8. /\ disk' \in [Paths -> File]
        /\ landings' \in [Paths -> SUBSET (Text \X Text)]
    <3>1. CASE NotLanded
      BY <3>1 DEF TypeOK, NotLanded
    <3>2. CASE Land(Merged.content)
      BY <2>1, <2>2, <3>2, LandTypes
    <3> QED
      BY <2>7, <3>1, <3>2
  <2>9. failures' \subseteq Paths \X Reasons
    <3>1. \/ failures' = failures
          \/ failures' = failures \cup {<<job.path, IF unresolved THEN "unresolved" ELSE "conflict">>}
      BY <1>8, Zenon DEF SaveMerge
    <3>2. <<job.path, IF unresolved THEN "unresolved" ELSE "conflict">> \in Paths \X Reasons
      BY <2>1 DEF Reasons
    <3> QED
      BY <3>1, <3>2 DEF TypeOK
  <2>10. /\ pc' = "duplicate"
         /\ UNCHANGED <<old, fresh, base, log, opt, prev, next, saved, again,
                        outcome, bounds, before, adopted>>
    BY <1>8, Zenon DEF SaveMerge
  <2> HIDE DEF unresolved, conflict, refused, landed
  <2> QED
    BY <2>5, <2>6, <2>8, <2>9, <2>10 DEF TypeOK, bounds, SaveSteps
<1>9. CASE MergeNoBase
  <2>1. job \in Jobs
    BY <1>3, <1>9 DEF MergeNoBase, SaveSteps
  <2>2. Decided(FALSE, job.landed) \in Jobs
    BY <2>1, DecidedIsJob DEF Jobs
  <2>3. job' \in Jobs
    BY <1>9, <2>1, <2>2, Zenon DEF MergeNoBase
  <2>4. files' \in [Kinds -> SUBSET Paths]
    BY <1>9, <2>1, ListedIsLists DEF MergeNoBase, TypeOK
  <2>5. failures' = failures \cup {<<job.path, "nobase">>} \/ failures' = failures
    BY <1>9, Zenon DEF MergeNoBase
  <2>6. failures' \subseteq Paths \X Reasons
    BY <2>1, <2>5 DEF TypeOK, Jobs, Reasons
  <2> QED
    BY <1>9, <2>3, <2>4, <2>6 DEF MergeNoBase, TypeOK, provider, bounds, SaveSteps
<1>10. CASE Write
  <2>1. job \in Jobs /\ job.content \in Text
    BY <1>3, <1>10 DEF Write, SaveSteps, Jobs
  <2> DEFINE landed == job.write \/ job.landed
  <2>2. landed \in BOOLEAN /\ job.write \in BOOLEAN
    BY <2>1 DEF Jobs
  <2>3. job' = Decided(job.write, landed) /\ (files' = files \/ \E k \in Kinds : files' = Listed({k}))
    BY <1>10 DEF Write, Kinds
  <2> HIDE DEF landed
  <2>4. job' \in Jobs
    BY <2>1, <2>2, <2>3, DecidedIsJob
  <2>5. files' \in [Kinds -> SUBSET Paths]
    <3>1. files \in [Kinds -> SUBSET Paths]
      BY DEF TypeOK
    <3> QED
      BY <2>1, <2>3, <3>1, ListedIsLists
  <2>6. /\ disk' \in [Paths -> File]
        /\ landings' \in [Paths -> SUBSET (Text \X Text)]
    <3>1. NotLanded \/ Land(job.content)
      BY <1>10, Zenon DEF Write
    <3>2. CASE NotLanded
      BY <3>2 DEF TypeOK, NotLanded
    <3>3. CASE Land(job.content)
      BY <2>1, <3>3, LandTypes
    <3> QED
      BY <3>1, <3>2, <3>3
  <2> QED
    BY <1>10, <2>4, <2>5, <2>6 DEF Write, TypeOK, bounds, SaveSteps
<1>11. ASSUME NEW p \in Paths, NEW t, Adopt(p, t)
       PROVE  adopted' \in [Paths -> SUBSET GenLines]
  BY <1>11 DEF Adopt, Part, TypeOK
<1>12. CASE Duplicate
  <2>1. job \in Jobs /\ job.path \in Paths /\ job.content \in Text
    BY <1>3, <1>12 DEF Duplicate, SaveSteps, Jobs
  <2>2. base' \in [Paths -> File]
    <3>1. Put(base, job.content) \in [Paths -> File]
      BY <2>1, PutIsFiles DEF TypeOK, File
    <3> QED
      BY <1>12, <3>1 DEF Duplicate, TypeOK
  <2>3. next' \in [Paths -> Seq(Text)] /\ \A p \in Paths : Len(next'[p]) <= History
    <3> DEFINE entry == IF ~opt.merge THEN <<>>
                        ELSE IF job.landed THEN WithFingerprint(prev[job.path], job.content)
                        ELSE prev[job.path]
    <3>1. prev[job.path] \in Seq(Text) /\ Len(prev[job.path]) <= History
      BY <2>1 DEF TypeOK
    <3>2. /\ WithFingerprint(prev[job.path], job.content) \in Seq(Text)
          /\ Len(WithFingerprint(prev[job.path], job.content)) <= History
      BY <2>1, <3>1, WithFingerprintInSeq
    <3>3. <<>> \in Seq(Text) /\ Len(<<>>) <= History
      OBVIOUS
    <3>4. entry \in Seq(Text) /\ Len(entry) <= History
      BY <3>1, <3>2, <3>3
    <3>5. next' = [next EXCEPT ![job.path] = entry]
      BY <1>12, Zenon DEF Duplicate
    <3>6. next \in [Paths -> Seq(Text)] /\ \A p \in Paths : Len(next[p]) <= History
      BY DEF TypeOK
    <3> HIDE DEF entry
    <3>7. \A p \in Paths : next'[p] = entry \/ next'[p] = next[p]
      BY <3>5, <3>6
    <3>8. next' \in [Paths -> Seq(Text)]
      BY <3>4, <3>5, <3>6
    <3> QED
      BY <3>4, <3>6, <3>7, <3>8
  <2>4. adopted' \in [Paths -> SUBSET GenLines]
    <3>1. Adopt(job.path, disk[job.path]) \/ adopted' = adopted
      BY <1>12, Zenon DEF Duplicate
    <3>2. adopted \in [Paths -> SUBSET GenLines]
      BY DEF TypeOK
    <3> QED
      BY <1>11, <2>1, <3>1, <3>2
  <2>5. /\ job' = NoJob /\ pc' = "walk"
        /\ UNCHANGED <<disk, old, fresh, log, opt, prev, saved, again, files, failures,
                       outcome, bounds, before, landings>>
    BY <1>12, Zenon DEF Duplicate
  <2> QED
    BY <2>2, <2>3, <2>4, <2>5 DEF TypeOK, bounds, SaveSteps
<1>13. ASSUME NEW how \in {"ok", "conflicts", "error", "crash"}, RunOver(how)
       PROVE  /\ outcome' = how /\ pc' = "idle" /\ job' = NoJob
              /\ prev' \in [Paths -> Seq(Text)] /\ next' \in [Paths -> Seq(Text)]
              /\ \A p \in Paths : Len(prev'[p]) <= History /\ Len(next'[p]) <= History
  BY <1>13 DEF RunOver, NoTraces
<1>14. CASE Finish
  <2>1. \E how \in {"ok", "conflicts", "error", "crash"} : RunOver(how)
    BY <1>14 DEF Finish
  <2>2. /\ outcome' \in {"ok", "conflicts", "error", "crash"} /\ pc' = "idle" /\ job' = NoJob
        /\ prev' \in [Paths -> Seq(Text)] /\ next' \in [Paths -> Seq(Text)]
        /\ \A p \in Paths : Len(prev'[p]) <= History /\ Len(next'[p]) <= History
    BY <1>13, <2>1
  <2> QED
    BY <1>14, <2>2 DEF Finish, TypeOK, report, bounds, SaveSteps
<1>15. ASSUME NEW p \in Paths, InjectMissing(p) PROVE TypeOK'
  <2>1. RunOver("error")
    BY <1>15 DEF InjectMissing
  <2>2. /\ outcome' = "error" /\ pc' = "idle" /\ job' = NoJob
        /\ prev' \in [Paths -> Seq(Text)] /\ next' \in [Paths -> Seq(Text)]
        /\ \A x \in Paths : Len(prev'[x]) <= History /\ Len(next'[x]) <= History
    BY <1>13, <2>1
  <2> QED
    BY <1>15, <2>2 DEF InjectMissing, TypeOK, provider, report, bounds, SaveSteps
<1>16. ASSUME NEW how \in {"error", "crash"}, Stop(how) PROVE TypeOK'
  <2>1. adopted' \in [Paths -> SUBSET GenLines]
    <3>1. adopted' = adopted \/ (pc = "duplicate" /\ Adopt(job.path, disk[job.path]))
      BY <1>16, Zenon DEF Stop
    <3>2. adopted \in [Paths -> SUBSET GenLines] /\ (pc = "duplicate" => job.path \in Paths)
      BY <1>3 DEF TypeOK, SaveSteps, Jobs
    <3> QED
      BY <1>11, <3>1, <3>2
  <2>2. RunOver(how) /\ how \in {"ok", "conflicts", "error", "crash"}
    BY <1>16 DEF Stop
  <2>3. /\ outcome' = how /\ pc' = "idle" /\ job' = NoJob
        /\ prev' \in [Paths -> Seq(Text)] /\ next' \in [Paths -> Seq(Text)]
        /\ \A x \in Paths : Len(prev'[x]) <= History /\ Len(next'[x]) <= History
    BY <1>13, <2>2
  <2> QED
    BY <1>16, <2>1, <2>2, <2>3 DEF Stop, TypeOK, provider, report, bounds, SaveSteps
<1>17. ASSUME NEW kind, Event(kind), disk' \in [Paths -> File], base' \in [Paths -> File],
              log' \in [Paths -> Seq(Text)], \A p \in Paths : Len(log'[p]) <= History,
              adopted' \in [Paths -> SUBSET GenLines]
       PROVE  TypeOK'
  BY <1>17 DEF Event, TypeOK, report, SaveSteps
<1>18. ASSUME NEW p \in Paths, NEW f \in File, Replace(p, f)
       PROVE  /\ disk' \in [Paths -> File] /\ base' \in [Paths -> File]
              /\ log' \in [Paths -> Seq(Text)] /\ \A x \in Paths : Len(log'[x]) <= History
  BY <1>18 DEF Replace, TypeOK
<1>19. ASSUME NEW p \in Paths, UserEdit(p) PROVE TypeOK'
  <2>1. disk[p] \in Text
    BY <1>19 DEF UserEdit, TypeOK, File
  <2>2. \A r \in Regions : \A l \in UserLines \cup {Protect} :
          [disk[p] EXCEPT ![r] = @ \cup {l}] \in Text
    BY <2>1 DEF Text, Lines
  <2>3. \A r \in Regions : \A l \in disk[p][r] : [disk[p] EXCEPT ![r] = @ \ {l}] \in Text
    BY <2>1 DEF Text, Lines
  <2>4. PICK t \in Text : Replace(p, t)
    BY <1>19, <2>2, <2>3 DEF UserEdit
  <2>5. adopted' = adopted \/ \E kept : Adopt(p, kept)
    BY <1>19, Zenon DEF UserEdit
  <2>6. adopted' \in [Paths -> SUBSET GenLines]
    BY <1>11, <2>5 DEF TypeOK
  <2> QED
    BY <1>17, <1>18, <1>19, <2>4, <2>6 DEF UserEdit, File
<1>20. ASSUME NEW p \in Paths, UserDelete(p) PROVE TypeOK'
  <2>1. adopted' \in [Paths -> SUBSET GenLines]
    BY <1>20 DEF UserDelete, TypeOK
  <2> QED
    BY <1>17, <1>18, <1>20, <2>1 DEF UserDelete, File
<1>21. ASSUME NEW p \in Paths, UserCreate(p) PROVE TypeOK'
  <2>1. \A r \in Regions, l \in UserLines : [Empty EXCEPT ![r] = {l}] \in File
    BY DEF Empty, File, Text, Lines
  <2>2. adopted' \in [Paths -> SUBSET GenLines]
    BY <1>21 DEF UserCreate, TypeOK
  <2> QED
    BY <1>17, <1>18, <1>21, <2>1, <2>2 DEF UserCreate
<1>22. ASSUME NEW p \in Paths, Checkout(p) PROVE TypeOK'
  <2>1. PICK made \in landings[p] : Replace(p, made[2]) /\ Adopt(p, made[2])
    BY <1>22 DEF Checkout
  <2>2. made[2] \in File
    BY <2>1 DEF TypeOK, File
  <2> QED
    BY <1>11, <1>17, <1>18, <1>22, <2>1, <2>2 DEF Checkout
<1>23. CASE Clone \/ BadLog
  <2>1. /\ NoTraces \in [Paths -> Seq(Text)] /\ \A p \in Paths : Len(NoTraces[p]) <= History
        /\ NoFiles \in [Paths -> File]
    BY DEF NoTraces, NoFiles, File
  <2> QED
    BY <1>17, <1>23, <2>1 DEF Clone, BadLog, TypeOK
<1>24. CASE UNCHANGED vars
  BY <1>24 DEF vars, TypeOK
<1>25. ASSUME NEW p \in Paths, SaveFile(p) \/ Inject(p) PROVE TypeOK'
  <2>1. \A body \in Injections : disk[p] # NoFile => Injected(disk[p], body) \in Text
    BY InjectedIsText DEF TypeOK, File
  <2> QED
    BY <1>2, <1>25, <2>1, GenerateIsText DEF SaveFile, Inject
<1> QED
  BY <1>1, <1>4, <1>5, <1>6, <1>7, <1>8, <1>9, <1>10, <1>12, <1>14, <1>15, <1>16,
     <1>19, <1>20, <1>21, <1>22, <1>23, <1>24, <1>25
     DEF Next, RunStep, Begin, SaveStep, Between

\* Every run, crash and event leaves the handler's state what its types say,
\* whatever the paths, the texts and the options are: lists of known paths,
\* histories of texts no longer than fingerprintHistory (withFingerprint).
THEOREM TypeCorrect == Spec => []TypeOK
<1>1. Init => TypeOK
  BY InitTypeOK
<1>2. TypeOK /\ [Next]_vars => TypeOK'
  BY StepTypeOK
<1> QED
  BY <1>1, <1>2, PTL DEF Spec

-----------------------------------------------------------------------------
(* A merge run keeps the user's lines: the inductive invariant, and the    *)
(* step argument.                                                          *)

IInv == TypeOK /\ MergeInv

(* What the generators write, and what a merge makes of it. *)

\* No generator writes a user's line.
LEMMA GeneratesHoldNoUserLine ==
    ASSUME NEW g \in Generates, NEW r \in Regions
    PROVE  Held(g, r, UserLines) = {}
<1>1. g[r] \subseteq GenLines \cup {Protect}
  BY HandlerAssumption
<1>2. UserLines \cap (GenLines \cup {Protect}) = {}
  BY LinesAssumption
<1> QED
  BY <1>1, <1>2, HandlerAssumption DEF Held

\* A merge of an existing text against a generate keeps every line of the
\* user's, in its region.
LEMMA MergeKeepsRegion ==
    ASSUME NEW gen \in Text, NEW bas \in Generates, NEW exist \in Text, NEW r \in Regions
    PROVE  Held(exist, r, UserLines) \subseteq Held(Merge(gen, bas, exist).content, r, UserLines)
<1> DEFINE kept == Merge(gen, bas, exist).content
<1>1. kept \in Text /\ kept # NoFile /\ exist # NoFile /\ bas \in Text
  BY MergeIsText, GenerateIsText, HandlerAssumption
<1>2. exist[r] \cap UserLines \subseteq kept[r] \cap UserLines
  <2>1. CASE gen = exist
    BY <2>1 DEF Merge
  <2>2. CASE gen # exist /\ exist = bas
    BY <2>2, GeneratesHoldNoUserLine, <1>1 DEF Held
  <2>3. CASE gen # exist /\ exist # bas /\ Unresolved(exist)
    BY <2>3 DEF Merge
  <2>4. CASE gen # exist /\ exist # bas /\ ~Unresolved(exist)
    <3>1. kept[r] = MergeRegion(gen[r], bas[r], exist[r])
      BY <2>4 DEF Merge
    <3>2. bas[r] \cap UserLines = {}
      BY GeneratesHoldNoUserLine, <1>1, HandlerAssumption DEF Held
    <3> HIDE DEF kept
    <3> QED
      BY <3>1, <3>2 DEF MergeRegion, Conflict
  <2> QED
    BY <2>1, <2>2, <2>3, <2>4
<1> QED
  BY <1>1, <1>2 DEF Held

\* So does a diff.
LEMMA DiffKeepsRegion ==
    ASSUME NEW gen \in Text, NEW exist \in Text, NEW r \in Regions
    PROVE  Held(exist, r, UserLines) \subseteq Held(DiffRender(gen, exist), r, UserLines)
<1>1. DiffRender(gen, exist) # NoFile /\ exist # NoFile
  BY RenderIsText, HandlerAssumption
<1>2. exist[r] \subseteq DiffRender(gen, exist)[r]
  BY DEF DiffRender, Conflict
<1> QED
  BY <1>1, <1>2 DEF Held

\* A history of texts all taken from one set is a history over that set.
LEMMA RangeIsSeq ==
    ASSUME NEW S, NEW T, NEW seq \in Seq(T)
    PROVE  Range(seq) \subseteq S <=> seq \in Seq(S)
BY DEF Range

LEMMA WithFingerprintRange ==
    ASSUME NEW S, NEW seq \in Seq(Text), Range(seq) \subseteq S, NEW t \in S
    PROVE  Range(WithFingerprint(seq, t)) \subseteq S
<1>1. seq \in Seq(S)
  BY RangeIsSeq
<1>2. WithFingerprint(seq, t) \in Seq(S)
  BY <1>1, WithFingerprintInSeq
<1> QED
  BY <1>2, RangeIsSeq

LEMMA EmptyRange == \A p \in Paths : Range(NoTraces[p]) = {}
BY DEF NoTraces, Range

-----------------------------------------------------------------------------
(* The invariant. *)

LEMMA InitMergeInv == Init => MergeInv
BY EmptyRange DEF Init, MergeInv, RememberedAreGenerates, SaveSeesTheFile,
   OverwriteIsListed, NoFiles, SaveSteps

LEMMA StepMergeInv ==
    ASSUME Injections = {}
    PROVE  IInv /\ [Next]_vars => MergeInv'
<1> SUFFICES ASSUME IInv, [Next]_vars PROVE MergeInv'
  OBVIOUS
<1> USE DEF MergeInv
<1>1. TypeOK /\ RememberedAreGenerates /\ SaveSeesTheFile /\ OverwriteIsListed
  BY DEF IInv
<1>2. pc \in SaveSteps => job \in Jobs
  BY <1>1 DEF TypeOK
<1>3. ASSUME NEW o \in OptionSets, StartRun(o) PROVE MergeInv'
  BY <1>1, <1>3, EmptyRange DEF StartRun, RememberedAreGenerates, SaveSeesTheFile,
     OverwriteIsListed, SaveSteps, provider
<1>4. ASSUME NEW p \in Paths, NEW g \in Generates, BeginSave(p, g) PROVE MergeInv'
  BY <1>1, <1>4 DEF BeginSave, RememberedAreGenerates, SaveSeesTheFile,
     OverwriteIsListed, SaveSteps, provider
<1>5. CASE Preserve
  BY <1>1, <1>5 DEF Preserve, RememberedAreGenerates, SaveSeesTheFile,
     OverwriteIsListed, SaveSteps
<1>6. CASE Present
  <2> DEFINE write == opt.write /\ ~Protected
  <2>1. job \in Jobs /\ write \in BOOLEAN /\ job.landed \in BOOLEAN
    BY <1>2, <1>6 DEF Present, SaveSteps, Jobs
  <2>2. job' = Decided(write, job.landed)
    BY <1>6, Zenon DEF Present
  <2>3. pc' = "write" /\ MergeRun => ~write
    BY <1>6 DEF Present, MergeRun
  <2> HIDE DEF write
  <2>4. job'.write = write /\ job'.existing = job.existing /\ job'.path = job.path
        /\ job'.content = job.content
    BY <2>1, <2>2, DecidedIsJob
  <2> QED
    BY <1>1, <1>6, <2>3, <2>4 DEF Present, RememberedAreGenerates, SaveSeesTheFile,
       OverwriteIsListed, SaveSteps, MergeRun
<1>7. ASSUME pc \in SaveSteps, pc' = "duplicate", job'.content = job.content,
             UNCHANGED <<base, log, prev, next>>
      PROVE  MergeInv'
  BY <1>1, <1>7 DEF RememberedAreGenerates, SaveSeesTheFile, OverwriteIsListed, SaveSteps
<1>8. CASE Diff
  <2>1. job \in Jobs
    BY <1>2, <1>8 DEF Diff, SaveSteps
  <2> QED
    BY <1>7, <1>8, <2>1, DecidedIsJob DEF Diff, SaveSteps
<1>9. CASE MergeUnchanged
  <2>1. job \in Jobs
    BY <1>2, <1>9 DEF MergeUnchanged, SaveSteps
  <2> QED
    BY <1>7, <1>9, <2>1, DecidedIsJob DEF MergeUnchanged, SaveSteps, provider
<1>10. CASE SaveMerge
  <2> DEFINE unresolved == Merged.outcome = "unresolved"
             refused    == (Merged.conflict \/ unresolved) /\ opt.conflictFail
             landed     == ~unresolved /\ ~refused
  <2>1. job \in Jobs /\ landed \in BOOLEAN
    BY <1>2, <1>10 DEF SaveMerge, SaveSteps
  <2>2. job' = Decided(FALSE, landed) /\ pc' = "duplicate"
        /\ UNCHANGED <<base, log, prev, next>>
    BY <1>10, Zenon DEF SaveMerge
  <2>3. pc \in SaveSteps
    BY <1>10 DEF SaveMerge, SaveSteps
  <2> HIDE DEF landed
  <2> QED
    BY <1>7, <2>1, <2>2, <2>3, DecidedIsJob
<1>11. CASE MergeNoBase
  <2>1. job \in Jobs
    BY <1>2, <1>11 DEF MergeNoBase, SaveSteps
  <2> DEFINE skipped == Decided(FALSE, job.landed)
  <2>2. /\ skipped.path = job.path /\ skipped.content = job.content
        /\ skipped.existing = job.existing /\ skipped.write = FALSE
    BY <2>1, DecidedIsJob DEF Jobs
  <2>4. job' = skipped \/ job' = job
    BY <1>11, Zenon DEF MergeNoBase
  <2> HIDE DEF skipped
  <2>5. job'.path = job.path /\ job'.content = job.content /\ job'.existing = job.existing
    BY <2>2, <2>4
  <2>3. job.path \in files'.unmerged
    BY <1>1, <1>11 DEF MergeNoBase, Listed, TypeOK, Kinds
  <2> QED
    BY <1>1, <1>11, <2>5, <2>3 DEF MergeNoBase, RememberedAreGenerates,
       SaveSeesTheFile, OverwriteIsListed, SaveSteps, provider
<1>12. CASE Write
  <2> DEFINE landed == job.write \/ job.landed
  <2>1. job \in Jobs /\ landed \in BOOLEAN /\ job.write \in BOOLEAN
    BY <1>2, <1>12 DEF Write, SaveSteps, Jobs
  <2>2. job' = Decided(job.write, landed)
    BY <1>12, Zenon DEF Write
  <2> HIDE DEF landed
  <2>3. job'.content = job.content
    BY <2>1, <2>2, DecidedIsJob
  <2> QED
    BY <1>7, <1>12, <2>3 DEF Write, SaveSteps
<1>13. CASE Duplicate
  <2>1. job \in Jobs /\ job.path \in Paths /\ job.content \in Generates
    BY <1>1, <1>2, <1>13 DEF Duplicate, SaveSteps, Jobs, RememberedAreGenerates
  <2>2. base' = base \/ base' = [base EXCEPT ![job.path] = job.content]
    BY <1>13, Zenon DEF Duplicate, Put
  <2>3. \A p \in Paths : base'[p] \in Generates \cup {NoFile}
    BY <1>1, <2>1, <2>2 DEF TypeOK, RememberedAreGenerates
  <2> DEFINE entry == IF ~opt.merge THEN <<>>
                      ELSE IF job.landed THEN WithFingerprint(prev[job.path], job.content)
                      ELSE prev[job.path]
  <2>4. Range(entry) \subseteq Generates
    <3>1. prev[job.path] \in Seq(Text) /\ Range(prev[job.path]) \subseteq Generates
      BY <1>1, <2>1 DEF TypeOK, RememberedAreGenerates
    <3>2. Range(WithFingerprint(prev[job.path], job.content)) \subseteq Generates
      BY <2>1, <3>1, WithFingerprintRange
    <3>3. Range(<<>>) = {}
      BY DEF Range
    <3> QED
      BY <3>1, <3>2, <3>3
  <2>5. next' = [next EXCEPT ![job.path] = entry]
    BY <1>13, Zenon DEF Duplicate
  <2> HIDE DEF entry
  <2>6. \A p \in Paths : Range(next'[p]) \subseteq Generates
    BY <1>1, <2>1, <2>4, <2>5 DEF TypeOK, RememberedAreGenerates
  <2>7. pc' = "walk" /\ UNCHANGED <<log, prev>>
    BY <1>13, Zenon DEF Duplicate
  <2> QED
    BY <1>1, <2>3, <2>6, <2>7 DEF RememberedAreGenerates, SaveSeesTheFile,
       OverwriteIsListed, SaveSteps
<1>14. ASSUME pc' = "idle", \A p \in Paths : base'[p] \in {base[p], NoFile},
              \A p \in Paths : log'[p] \in {log[p], next[p], <<>>},
              \A p \in Paths : prev'[p] \in {prev[p], <<>>} /\ next'[p] \in {next[p], <<>>}
       PROVE  MergeInv'
  <2>1. Range(<<>>) = {}
    BY DEF Range
  <2> QED
    BY <1>1, <1>14, <2>1 DEF RememberedAreGenerates, SaveSeesTheFile,
       OverwriteIsListed, SaveSteps
<1>15. CASE Finish
  BY <1>14, <1>15 DEF Finish, RunOver, NoTraces
<1>16. ASSUME NEW p \in Paths, InjectMissing(p) PROVE MergeInv'
  BY <1>14, <1>16 DEF InjectMissing, RunOver, NoTraces, provider
<1>17. ASSUME NEW how, Stop(how) PROVE MergeInv'
  BY <1>14, <1>17 DEF Stop, RunOver, NoTraces, provider
<1>18. ASSUME NEW kind, Event(kind), \A p \in Paths : base'[p] \in {base[p], NoFile},
              \A p \in Paths : log'[p] \in {log[p], <<>>}
       PROVE  MergeInv'
  BY <1>14, <1>18 DEF Event
<1>19. ASSUME NEW p \in Paths, UserEdit(p) \/ UserDelete(p) \/ UserCreate(p) \/ Checkout(p)
       PROVE  MergeInv'
  <2>1. (\E kind : Event(kind)) /\ (\E f : Replace(p, f))
    BY <1>19 DEF UserEdit, UserDelete, UserCreate, Checkout
  <2>2. UNCHANGED <<base, log>>
    BY <2>1 DEF Replace
  <2> QED
    BY <1>18, <2>1, <2>2
<1>20. CASE Clone \/ BadLog
  BY <1>18, <1>20 DEF Clone, BadLog, NoTraces, NoFiles
<1>21. CASE UNCHANGED vars
  BY <1>1, <1>21 DEF vars, RememberedAreGenerates, SaveSeesTheFile, OverwriteIsListed, MergeRun
<1>22. ASSUME NEW p \in Paths, SaveFile(p) \/ Inject(p) PROVE MergeInv'
  BY <1>4, <1>22 DEF SaveFile, Inject
<1> QED
  BY <1>3, <1>5, <1>6, <1>8, <1>9, <1>10, <1>11, <1>12, <1>13, <1>15, <1>16, <1>17,
     <1>19, <1>20, <1>21, <1>22
     DEF Next, RunStep, Begin, SaveStep, Between

-----------------------------------------------------------------------------
(* The steps. *)

LEMMA StepKeepsUserLines ==
    IInv /\ [Next]_vars => [Running /\ MergeRun => UserLinesKept]_vars
<1> SUFFICES ASSUME IInv, Next, Running, MergeRun PROVE UserLinesKept
  BY DEF vars
<1>1. /\ TypeOK /\ RememberedAreGenerates /\ SaveSeesTheFile /\ OverwriteIsListed
      /\ pc \in SaveSteps => job \in Jobs
  BY DEF IInv, MergeInv, TypeOK
<1>2. CASE UNCHANGED disk
  BY <1>2 DEF UserLinesKept
<1>3. ASSUME NEW t, Land(t), pc \in SaveSteps \ {"duplicate"},
             \/ job.path \in files.unmerged
             \/ \A r \in Regions :
                  Held(job.existing, r, UserLines) \subseteq Held(t, r, UserLines)
      PROVE  UserLinesKept
  <2>1. job \in Jobs /\ job.path \in Paths /\ job.existing = disk[job.path]
    BY <1>1, <1>3 DEF SaveSeesTheFile, Jobs
  <2>2. disk' = disk \/ disk' = [disk EXCEPT ![job.path] = t]
    BY <1>3 DEF Land, Put
  <2>3. ASSUME NEW p \in Paths, NEW r \in Regions
        PROVE  \/ Held(disk[p], r, UserLines) \subseteq Held(disk'[p], r, UserLines)
               \/ p \in files.unmerged
    <3>1. CASE disk'[p] = disk[p]
      BY <3>1
    <3>2. CASE p = job.path /\ disk'[p] = t
      BY <1>3, <2>1, <3>2
    <3> QED
      BY <1>1, <2>1, <2>2, <3>1, <3>2 DEF TypeOK
  <2> QED
    BY <2>3 DEF UserLinesKept
<1>4. CASE Diff
  <2>1. job \in Jobs /\ job.content \in Text /\ job.existing \in Text /\ pc \in SaveSteps \ {"duplicate"}
    BY <1>1, <1>4 DEF Diff, SaveSteps, Jobs, TypeOK
  <2>2. UNCHANGED disk \/ Land(DiffRender(job.content, job.existing))
    BY <1>4 DEF Diff, NotLanded
  <2> QED
    BY <1>2, <1>3, <2>1, <2>2, DiffKeepsRegion
<1>5. CASE SaveMerge
  <2>1. /\ job \in Jobs /\ job.path \in Paths /\ job.content \in Text
        /\ job.existing \in Text /\ pc \in SaveSteps \ {"duplicate"}
    BY <1>1, <1>5 DEF SaveMerge, SaveSteps, Jobs, TypeOK
  <2>2. UNCHANGED disk \/ Land(Merged.content)
    BY <1>5, Zenon DEF SaveMerge, NotLanded
  <2>3. ASSUME NEW r \in Regions
        PROVE  Held(job.existing, r, UserLines) \subseteq Held(Merged.content, r, UserLines)
    <3>1. CASE Earlier
      <4>1. job.existing \in Generates
        BY <1>1, <2>1, <3>1 DEF Earlier, RememberedAreGenerates
      <4> QED
        BY <4>1, GeneratesHoldNoUserLine
    <3>2. CASE ~Earlier
      <4>1. Baseline \in Generates
        BY <1>1, <1>5, <2>1, <3>2 DEF SaveMerge, Mergeable, Baseline, RememberedAreGenerates
      <4> QED
        BY <2>1, <3>2, <4>1, MergeKeepsRegion DEF Merged
    <3> QED
      BY <3>1, <3>2
  <2> QED
    BY <1>2, <1>3, <2>1, <2>2, <2>3
<1>6. CASE Write
  <2>1. job \in Jobs /\ pc \in SaveSteps \ {"duplicate"} /\ pc = "write"
    BY <1>1, <1>6 DEF Write, SaveSteps
  <2>2. UNCHANGED disk \/ (Land(job.content) /\ job.write)
    BY <1>6, Zenon DEF Write, NotLanded
  <2>3. CASE Land(job.content) /\ job.write /\ job.existing = NoFile
    BY <1>3, <2>1, <2>3 DEF Held
  <2>4. CASE Land(job.content) /\ job.write /\ job.existing # NoFile
    BY <1>1, <1>3, <2>1, <2>4 DEF OverwriteIsListed
  <2> QED
    BY <1>2, <2>2, <2>3, <2>4
<1>7. CASE ~(Diff \/ SaveMerge \/ Write)
  <2>1. UNCHANGED disk
    BY <1>7 DEF Next, RunStep, Begin, SaveFile, Inject, BeginSave, SaveStep, Preserve, Present,
       MergeUnchanged, MergeNoBase, Duplicate, Finish, InjectMissing, Stop, provider,
       Between, StartRun, UserEdit, UserDelete, UserCreate, Checkout, Clone, BadLog,
       Event, Running
  <2> QED
    BY <1>2, <2>1
<1> QED
  BY <1>4, <1>5, <1>6, <1>7

\* A merge run never takes a line of the user's out of a file it does not
\* list as unmerged, whatever crashes, failed runs, edits, checkouts and
\* clones came before, in a folder no Inject writes to (saveAs, saveMerge).
THEOREM UserLinesSurvive ==
    ASSUME Injections = {}
    PROVE  Spec => MergeKeepsUserLines
<1>1. Init => IInv
  BY InitTypeOK, InitMergeInv DEF IInv
<1>2. IInv /\ [Next]_vars => IInv'
  BY StepTypeOK, StepMergeInv DEF IInv
<1>3. IInv /\ [Next]_vars => [Running /\ MergeRun => UserLinesKept]_vars
  BY StepKeepsUserLines
<1> QED
  BY <1>1, <1>2, <1>3, PTL DEF Spec, MergeKeepsUserLines

\* The invariant the argument rests on: what is remembered of a file is only
\* ever a generate (writeDuplicate, withFingerprint), and an overwrite of an
\* existing file in a merge run is listed first.
THEOREM MergeInvHolds ==
    ASSUME Injections = {}
    PROVE  Spec => []MergeInv
<1>1. Init => IInv
  BY InitTypeOK, InitMergeInv DEF IInv
<1>2. IInv /\ [Next]_vars => IInv'
  BY StepTypeOK, StepMergeInv DEF IInv
<1>3. IInv => MergeInv
  BY DEF IInv
<1> QED
  BY <1>1, <1>2, <1>3, PTL DEF Spec
=============================================================================
