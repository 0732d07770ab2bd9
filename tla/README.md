# Jostraca in TLA+

Jostraca generates files. A generator describes a tree of components (Project,
Folder, File, Content, Fragment, Slot, Inject, Copy, List); the build phase walks
the tree and writes an output folder. The folder is not the generator's alone: users
edit the files, version control moves them, and the next run has to bring the new
output in without losing anybody's work. Most of what can go wrong in this program
goes wrong there, over several runs, so that is what these modules are about.

The repository holds one system in three languages. The modules translate the Go
implementation, `go/*.go`; paths below are relative to the repository.

## The system

| part | state | operations | modelled |
|---|---|---|---|
| Generate (`jostraca.go`, `options.go`) | instance and call options, the call's provider | `Generate`, `generate`, `mergeOptions`, `replayWarnings` | yes, but for the flags of existing files |
| Define phase (`builder.go`, `tree.go`, `node.go`) | the node tree, the current node | the component closures, `CmpTree` | yes, for trees given as data |
| Fragments (`fragment.go`) | the filter and the slot names of a node | `renderFragment` | yes |
| Build walk (`build.go`, `buildctx.go`) | `filepaths` (claimed outputs), current folder, stashed texts | `step`, `before`/`after` of each kind, `claimFile`, `injectAfter` | yes |
| Copy walk (`build.go`) | `visited`, depth | `copyBefore`, `copyAfter`, `walkCopyDepth` | yes |
| File handler (`filehandler.go`) | `savedPaths`, `createdDirs`, result lists, failures | `saveAs`, `saveMerge`, `writeDuplicate`, the low-level calls | yes |
| Atomic writer (`filehandler.go`) | the temp file | `tmppathFor`, `writeAtomicMode`, `removeTemp` | yes |
| Build meta (`buildmeta.go`) | `prev`, `next`; on disk the meta log | `load`, `last`, `priorFingerprints`, `add`, `done` | fingerprints, stamp |
| Diff engine (`diff.go`) | none | `Merge`, `Diff`, `LCS`, `AlignLCS`, `Hunks`, `HasConflicts` | yes |
| Exclude window (`build.go`, `buildmeta.go`) | the stamp against the file times | `fileAfter`, `load`, `done` | yes |
| Providers (`fs.go`) | the files | `OsFS`, `MemFS` | what the calls of the program do to them |
| Check (`check.go`) | a shadow volume, the modes it was told | `Check`, `shadowFS` | yes |
| Templates, values (`template.go`, `jsvalue.go`, `getx.go`) | caches of expressions and of paths | `Template`, `Getx` | the caches; substitution by token |
| Logs (`dlog.go`, `log.go`) | a bounded list of entries, the call's warnings | `record`, `DLogSnapshot`, `replayWarnings` | yes |
| Helpers (`util.go`, `errors.go`) | none | | no |
| TypeScript and Rust implementations (`ts/`, `rs/`) | the same | the same | no |

How they interact. `generate` runs the user's closures, which build the tree; then
`newBuild` makes the file handler and loads the meta log; `runBuild` calls `step`, which
walks the tree depth first and calls each kind's hooks; a File, a Copy and an Inject
call the file handler with a path and a text. `saveAs` reads the file that is there,
decides by the options, the protect marker, the baseline under `.jostraca/generated` and
the fingerprints of the meta log, and writes through the atomic writer: possibly a
`.old` and a `.new` sidecar, the file, the baseline. After the walk `done` writes the new
meta log. A call is synchronous in one goroutine. What is concurrent is the world outside
(the user, version control, another process, the death of this one) and the other calls of
the same instance, which share its volume in memory, the package log and the caches. A Check
is a Generate whose provider is a shadow of the folder, followed by a comparison.

What is hard, and the property that makes each part correct:

* *File handler*. Five mode flags, protect marker, dry run and `conflict: 'fail'`
  combine; a file is reconciled against what earlier runs remembered of it. A run can
  stop between any two writes. Correct when user lines are only lost in a file listed
  as unmerged, the baseline is exactly the generate that last landed, the report names
  what changed, and a refused or protected file is not touched.
* *Atomic writer*. Two processes, failures at each call, leftovers of dead processes.
  Correct when the target only ever changes to one writer's whole output, together
  with that writer's success, and files that sit at temp paths are safe.
* *Build meta*. Bookkeeping that is rebuilt by every run and may be absent, stale or
  unreadable. Correct when it never makes the file handler take an edit for its own.
* *Exclude window*. A time stamp against file times, read some steps before the file is
  replaced, and gone when the log is. Correct when a run that found the stamp keeps what was
  edited after it and before the run looked, and the generator's finished output is not taken
  for an edit.
* *Diff engine*. The regions a merge reconciles depend on the tie-breaks of a longest
  common subsequence. Correct when every region follows the three-way rule and nothing
  of either side is lost without a conflict.
* *Define phase, Fragments*. A Fragment runs its body several times, with a filter on its
  node; lists repeat their children under bindings; the first error must leave nothing
  built. Correct when the node tree is what the components mean and no pass leaves a trace.
* *Build walk*. Hooks share one mutable context: the folder, the claims, the stashed texts.
  Correct when each text lands at the path its enclosing components declare, operation by
  operation, up to the first refusal.
* *Copy walk*. Links make the source a graph. Correct when the visited set is the way to
  the current directory: no cycle is entered, and no subtree dropped.
* *Check*. Its provider reads in one place and writes in another. Correct when it changes
  nothing and lists what a Generate would change.
* *Calls that share an instance*. Correct when warnings and volumes do not mix, and a cache
  answers as if it were not there.

The lines where each of these bites are in `PROJECT.json` under "hazards".

## The modules

| module | what it is |
|---|---|
| `Contents` | texts, protect and conflict markers, `Merge`, `Diff` and Inject on them |
| `DiffLines` | `LCS`, `AlignLCS`, `Merge`, `Hunks`, `Diff` and the markers on texts that are sequences of lines |
| `MergeRounds`, `MCMergeRounds` | one file under merge over several runs, on those texts, with its properties; instance for TLC |
| `DiffLines_proofs`, `MergeRounds_proofs` | what the engine makes of any texts, as lemmas; the theorems about the rounds |
| `FileHandler` | a run's saves over an output folder, the meta log, and what happens between runs |
| `FileHandlerProps`, `MCFileHandler` | its properties; instances for TLC |
| `MergeBase` | the abstract promise about files and baselines; `FileHandler` implements it |
| `FileHandler_proofs`, `Saves_proofs` | the theorems about it |
| `AtomicWrite`, `MCAtomicWrite` | `writeAtomicMode`, with its properties; instance |
| `AtomicStore` | what an atomic write is; `AtomicWrite` implements it |
| `AtomicWrite_proofs` | its theorems |
| `ExcludeWindow`, `MCExcludeWindow`, `ExcludeWindow_proofs` | the exclude option and the stamp, with its properties; instance; theorems |
| `Components` | a component tree as data, and the helpers on texts, names and paths |
| `Define` | the define phase: reading a tree, the components, Fragments |
| `Build` | the build phase over the nodes that `Define` made |
| `OutputPlan` | the output operations a tree stands for; `Build` implements it |
| `Generate`, `MCGenerate` | both phases and the plan side by side, with the properties; families of programs for TLC |
| `Generate_proofs` | theorems about the walk |
| `MemFS` | a volume of files and directories |
| `Shared` | the package log and the caches that all calls share |
| `Runs`, `MCRuns`, `Runs_proofs` | several Generates and Checks of one instance, with the properties; instances; theorems |

`Build` extends `Define`, which extends `Components`; `Generate` puts `Build` beside an
instance of `OutputPlan`. `Runs` extends `Shared` and `MemFS`. What a save does to a file
that is already there is `FileHandler`'s; `Build` and `Runs` take the default, a plain write.

### Contents

A text is a function from regions to sets of lines: a region is a stretch between two
lines that all sides of a merge kept. That is the grain at which `Merge` decides, and
whether a line of the user's is still there, whether a text has markers and whether two
texts are equal can all be asked of it. What it cannot see is the order of lines within
a region and how the regions are cut: that is `DiffLines`. Generated lines, user lines, the marker line and the
protect line are kept apart, so a property can speak of the user's lines.
`MergeRegion` is the switch in the loop of `Merge`; an insertion before an anchor is the
case of an empty baseline region. `Diff` writes both sides of every changed region out.

### DiffLines and MergeRounds

A text is what `Lines` cuts it into: a sequence of lines, each with its newline or, the
last, perhaps without. What a line says is a model value; two lines that differ in their
newline are different lines, as in the code. A marker is a line with its side and the
time stamp of its label. The pieces the code joins into a text are the lines of that text
as long as only the last lacks a newline (`WellCut`), which is itself the property
`NoGluedLines`.

`LCS` trims the common ends and calls `Hirschberg`, which cuts the second text at the largest of
the best splits of `lcsRow`'s two rows. `AlignLCS` walks both texts for the common lines.
`MergeRegions` is the loop of `Merge`: the switch on insertions before an anchor, the switch
on a region and the tail after the last anchor are one rule (`Reconcile`), the first and the
last with an empty baseline region. `Merge` puts the fast paths before it.
`Hunks` and `Diff` are the two-way view.

`MergeRounds` starts in any generate, baseline and edited file, and takes `saveMerge`
(`SaveMerge`, with the earlier generates), a save in diff mode (`SaveDiff`, after which the
behaviour ends), a user who takes all the markers of a conflict out or forgets one
(`ClearMarks`), and another generate (`Regenerate`).

Where the code recurses or walks, `DiffLines` has a recursive function (`Hirschberg`, the table
of `LCSRow`, the walk of `Found`, the hunks of `HunksTo`), which a theorem may rest on.

### FileHandler

One save is the sequence of steps

    BeginSave - Preserve - Present - (Diff | MergeUnchanged | SaveMerge | MergeNoBase) - Write - Duplicate

each the block of `saveAs` of the same name, in its order. The cuts are where the provider
is written, so `Stop`, which stands for an error of any call and for the death of the
process, may fall between any two writes. `pc` is the next block, `job` what `saveAs` holds in
locals (`existing`, `write`, `landed`).

| variable | code |
|---|---|
| `disk`, `old`, `fresh` | the file, its `.old` and `.new` sidecars (`annotatedPath`) |
| `base` | `.jostraca/generated/<path>` |
| `log`, `prev`, `next` | fingerprints in the meta log on disk, as loaded, as collected by `add` |
| `saved`, `again` | `savedPaths`; the paths the "duplicate save" warning named |
| `files`, `failures` | the result lists of `filelog`; `fh.failures` |
| `opt` | `modesFor` and the `control` options |
| `outcome` | how the last run ended: `ok`, `conflicts` (a `MergeConflictError`), `error`, `crash` |
| `before`, `landings`, `adopted` | history: the folder when the run began; which generate made which file; generated lines that became the user's |

`StartRun` loads the meta log into `prev`; `Finish` writes `next`, also when files were
refused, since `generate` reports that only after `done`. `Inject` reads the file as it is on
disk and saves what it makes of it; `InjectMissing` is the error of a missing target.
A fingerprint is the text itself: 64 bits of a hash tell a file's few generates apart.
`writeDuplicate` and `bmeta.add` are one step: nothing is written to the provider
between them.

Between runs the user adds or removes a line (a marker, or a protect line, too), deletes
or creates a file, checks an earlier output out, or clones the folder without its
git-ignored `.jostraca`; the meta log may become unreadable. These are external. They do
not happen during a run: `saveAs` reads the file once and replaces it later, takes no
lock, and an edit in between is lost by its design. That hazard is in the list, without a
property.

`MergeBase` says the same with four variables: a generate lands in a file and keeps the
user's lines unless the path was given up before; the baseline moves only to what has just
landed; the user acts only while nothing is pending. `KeepsItsPromise` maps `landing` to
the save in progress once it has `landed`, and `forfeited` to `files.unmerged` in a merge
run and to everything in a run that does not merge.

### AtomicWrite

Each writer runs the loop of `writeAtomicMode`: a candidate temp path is taken
(`Occupied`) or free (`Choose`). A writer in `Exclusive` has a provider with `WriteFileExcl`,
which creates the file in the same step; for the others `Exists` and `WriteFile` are two
steps (`Choose`, `Open`). Then the bytes are written (`Fill`, or `FillFails` with part of the
file there), the file is renamed, or removed again when something fails. `Die` is a process
death and a restart. `NamesOf` says which temp paths `tmppathFor` can give to whom: the pid in
the name keeps live processes apart, and one that is started again may meet its leftovers.
`Appear` puts foreign files at temp paths or replaces the target. `AtomicStore` has one
value and three actions that matter: publish, fail, restart.

### ExcludeWindow

The file times, the stamp of the meta log and a clock in whole milliseconds. `job` is where
the run is: `fileAfter` looks at the window and leaves the file alone (`Skip`) or goes on
(`Begin`; a directory copy, `Copied`, does not look), `saveAs` reads the file (`Read`), the
temp file is written and has the time of that (`WriteTemp`), the rename brings it to the path
(`Rename`). `TakeStamp` and `Finish` are the two steps of `done`: the stamp, and the log with
it. `Abort` is a failure or a death at any of them. `LoseLog` removes or garbles the log at any
time: `load` then leaves the run without a stamp, and without a window. The user writes and
removes files at any time, between the steps of a save too. The options are write without
merge: with merge the same window applies before `saveAs` is called.

`EditsKept` says what the code can keep: a run with exclude that began with the stamp of the
last finished run does not replace, at a File's path, what the user wrote after that stamp and
before the run looked at the file. What it leaves out the code does lose: the edits of a folder
whose log is gone, and those between the look and the rename (`late`).

### Components, Define, Build and their plan

A program is a component tree handed over as data, the form `tree.go` reads: per
component its props, with one flag for a prop that its shape does not admit. A text is a sequence of tokens; the
ones that mean something (a newline, a `$$ref$$`, `{item}`, a `<[SLOT]>`, an Inject marker)
are apart from the rest, and substitution takes each token once, so that a value which looks
like a reference stays. A path is the sequence of its segments. A directory of the sources is
known by its real path, and what a name in it leads to may be any directory, so links are
entries like others.

`Define` keeps the calls in progress as a stack of frames, `calls`: a body with the
components still to call, and why it runs. `Fragment` reads the source and pushes the
scan of the body, during which the node's filter refuses every child and notes slot names; each
marker pushes a replay, with a filter that accepts what belongs to it (`RenderToken`); the end
of a body takes the filter away (`Return`). Every component is an action, with what it refuses. The first
error ends the run as `refused`.

`Build` walks the nodes with a stack, `hooks`, of node and next child; `before` and `after`
of each kind are actions. `folder`, `claims`, `saved` are the build context; `copying` is the
recursion of `walkCopyDepth` with `visited` kept apart from it, as in the code; `scan` is the
loop of `injectAfter`, one marker pair a step. An error of a hook ends the run as `failed`
with the files written so far.

`OutputPlan` states the same over the tree alone: the meaning of a component is a
sequence of output operations relative to the folder around it, and the text it gives to the
file around it. There are no passes, filters, contexts, stashed texts or visited sets in it. A
refused tree has no operations. A run serves them in order and stops at the first that is
refused: a second File at a claimed path, a name that leaves its folder, a target that is a directory.
`FollowsPlan` says that `Build` implements it, with `disk`, `dirs` and `served` as they are.

### Runs

A scenario is the options of an instance, the calls made of it and the files there are. A call
merges its options (`Merged`), chooses where it reads (`Source`) and writes (`Sink`), renders
its texts through the caches, and performs its output operations; a write is the temp file
(`Write`), its mode (`SetMode`) and the rename (`Publish`), so that the other call may come
between any two. A Check is the same with a shadow for a target: `Source` is the shadow
under the folder and the base elsewhere, `Sink` always the shadow, and `Compare` takes one
file at a time while the folder may change. `LookUp` and `Store` are two steps, since
`getxTokenize` gives its lock up in between; `Render` is one, since the template cache does
not. `Snapshot` is a caller who empties the log.

| variable | code |
|---|---|
| `inst`, `calls` | the options of `New`, those of each `Generate` or `Check` |
| `vols` | the host's files, the caller's provider, the instance's volume, and a volume for each call that has its own |
| `run` | of each call: the operations left, `savedPaths`, modes the shadow was told, warnings and the log they are replayed to, the drift found |
| `templates`, `tokens`, `dlog` | the package's caches and its log |
| `history`, `cleared` | history: all entries, and how many there were when the log was cleared |

## What is checked

| run | instance | shows |
|---|---|---|
| `merge` | one path, two generates, one user line, 3 runs, 3 events of every kind, history 2, markers and `conflict: 'fail'` | `MergeKeepsUserLines`, `NoStaleLines`, `BaseNeverAhead`, `BaseFollowsReport`, `UnresolvedLeftAlone`, and the inductive `MergeInv` |
| `modes` | one path saved twice in a run by File or Inject; every combination of write, present, diff, merge with preserve; dry run, no duplicates; 2 runs | `ReportNamesEveryChange`, `ProtectedUntouched`, `PreservedOnceHoldsBefore` |
| `folder` | two paths, 2 runs of two saves, history 1, one event | `TypeOK`, `RefusedKeepsFileAndBase`, `LandedIsRemembered`, `KeepsItsPromise` |
| `write` | two writers, one exclusive; three temp paths, two attempts; every fault, one restart each, one foreign event | `WritesAtomically`, `ForeignKept`, `LitterIsWarned`, `EveryWriteEnds`, `TypeOK` |
| `rounds` | one file, 21 texts of up to three lines over two names, six of them without a last newline, as generate, baseline and file in every combination; 2 runs, 3 later generates | `LongestAnchors`, `AdditionsKept`, `FastPathsAgree`, `SettledFileStays`, `OneRunOfMarks`, `NoGluedLines`, `DiffShowsBoth` |
| `exclude` | a File output and a copied one, two generates, 3 runs, 4 milliseconds, the user and the loss of the log at any step | `EditsKept`, `OwnOutputTaken` |
| `build` | some 1,900 programs in six families (nesting and paths; excludes, dry runs, no build; Fragments and Slots; copied directories with links; Injects; lists and refusals), copy depth 2, fairness | `FollowsPlan`, `VisitedIsTheWay`, `PassesLeaveNoTrace`, `OneFilePerPath`, `EveryRunEnds`, `TypeOK` |
| `runs` | two calls at once, Generates and Checks over disk, provider and memory, with warnings, and with three texts or paths through caches of two; a log of two | `CheckForetellsGenerate`, `CheckChangesNothing`, `OwnVolumeHoldsItsRun`, `WarningsAreOwn`, `BufferHoldsTheLast`, `AnswersAreComputed`, `TypeOK` |

Why the bounds are enough. A loss in the merge protocol needs a run that generates,
something that happens to the file or to what is remembered of it, and a run that merges;
three runs and three events leave room for one more of each, so that a baseline or a
fingerprint list that is a generate behind, ahead or gone meets an edit. Two generates that
differ in one of two regions give merges that are clean, one-sided and conflicting, and a
file that goes back to an older generate. History 2 (8 in the code) holds
both generates, so that a checkout of either is known again; in `folder` history 1 is full
after one landing and cut at the next. Two
paths are needed only where a run refuses one file and saves another. In the writer, two
attempts and up to two taken paths reach exhaustion, and two writers are the smallest
race. Three runs and four milliseconds allow a finished run, an edit, a failed run and a retry,
each in its own millisecond or sharing one, and the loss of the log between any of them. In `rounds` three
lines over two names make lines repeat, so that common subsequences tie; and
what is left after trimming can be split by `Hirschberg`. Two runs are the conflict and the run that meets what the user left of it.
`LongestAnchors` compares with a reference that tries every pairing of equal lines in order. In `build` a container in a
container before a sibling shows a folder that is not put back; two markers and two
children of different slots show a pass that leaves something; a directory in a directory with a
link back to either, to a sibling or to nothing shows a way that is too long or too short, and depth 2
is exceeded. A hook looks no further than its node, its children and the context, so deeper
trees repeat these cases. In `runs` two calls are the smallest race; the caches and the log
are overrun by three entries. The bounds `MaxRuns`, `MaxSaves`, `MaxEvents`, `MaxDeaths`,
`MaxForeign` and `MaxTime` stand in guards; a state in which they are used up has no
successor, which is why the runs say `CHECK_DEADLOCK FALSE`; `build` and `runs` stop when the calls
have ended. That nothing is stuck before is what `EveryRunEnds` and `EveryWriteEnds` say.

Fairness. `FairSpec` of `AtomicWrite` has weak fairness on the steps of each writer, and `GSpec`
of `Generate` on those of a call: they are synchronous code in one goroutine, with no wait in
it, so a process that lives takes the next one. Neither has any on the outside; a restart that is
always possible is not fair, and the number of restarts is bounded. The other modules need
none: a save in `FileHandler` is straight-line code.

Each property of a passing run has a mutant in `PROJECT.json`: a definition of the model
replaced by a faulty form that stands beside it (`..._Always`, `..._Unchecked` and so on,
under the word "Fault"), under which the run fails.

What `rounds` taught about the merge: a run leaves the file alone when it generates what its
*baseline* is, and not when it generates what the last run did, for the last run may have met
an unresolved file, over which the baseline does not move (`SettledFileStays`).

### Where the code and its documents disagree

These runs are expected to find a violation, and each checks one property.

* `inject` (`MergeKeepsUserLines`). `injectAfter` saves a text made from the existing file,
  with the user's lines in it, also when the markers are not there. Under merge that text
  becomes the baseline. A File save of the same path finds the file equal to its baseline
  and replaces it: the lines go without a conflict. The comment of `Merge` calls everything
  that is not in the baseline the user's; here the user's lines are in it.
* `backup` (`PreservedHoldsBefore`). The second save of a path in a run copies the first
  save's output over the `.old` file. For paths saved once, `PreservedOnceHoldsBefore` holds.
* `checkInject` (`SilentFileIsHeldToNothing`). A File without a mode and an Inject into it are
  generated and then checked. The second save finds the file in the shadow, copies the mode
  the shadow reports for it, and the Check lists that as drift. The comment of `Chmod`
  (`check.go:208`) says that a File which states no mode does not reach it.
* `cacheKey` (`AnswersAreComputed`). `sortedKeysJoin` gives one string for a replace map with
  an empty key only and for one with none, and their expressions differ; whoever comes first
  decides what the other gets.

Smaller disagreements, met while translating and without a run of their own:

* `done` writes the fingerprints of the files this run saved only (`buildmeta.go:156`), so a
  file that one run leaves out has none in the next; `docs/reference-options.md:390` says that
  a file whose bytes are an earlier generate takes the new one whole.
* A dry run of a File and an Inject into it fails at the Inject (`build.go:757`), where the
  real run succeeds; `docs/reference-options.md:520` says that `dryrun` guards mutations and lets
  everything else run. The plan of a tree has the rule of the code, so `FollowsPlan` does not
  see this.
* A directory Copy does not look at the exclude window (`build.go:643`), so it replaces an edit
  at its paths; `docs/reference-options.md:814` says that exclude skips any output file later than
  the stamp, and names Inject as the one limit.
* A Slot without a name is not accepted at the unnamed marker, although `builder.go:235` says
  that empty means that marker.
* With equal start and end markers, the end of one pair is the start of the next
  (`build.go:792`), against the comment at 769-772.
* `MemFS.Rename` may put a file where a directory is (`fs.go:436-454`), against the comment at
  242-244.
* `Check` of an instance in memory compares with the host's files, not with its volume.

## What is proved

For every value of the constants that meets the named assumptions, with TLAPS:

| theorem | module |
|---|---|
| `TypeCorrect`: `Spec => []TypeOK` | `FileHandler_proofs` |
| `MergeInvHolds`: `Spec => []MergeInv`, if `Injections = {}` | `FileHandler_proofs` |
| `UserLinesSurvive`: `Spec => MergeKeepsUserLines`, if `Injections = {}` | `FileHandler_proofs` |
| `PromiseKept`: `Spec => KeepsItsPromise`, if `Injections = {}` | `Saves_proofs` |
| `ProtectionHolds`: `Spec => ProtectedUntouched` | `Saves_proofs` |
| `BaselineHasLanded`: `Spec => []BaseNeverAhead` | `Saves_proofs` |
| `RefusalsAreHarmless`: `Spec => []RefusedKeepsFileAndBase` | `Saves_proofs` |
| `MarkersAreLeftAlone`: `Spec => []UnresolvedLeftAlone`, if `Injections = {}` | `Saves_proofs` |
| `BackupsAreOfBefore`: `Spec => []PreservedOnceHoldsBefore` | `Saves_proofs` |
| `TheReportIsTrue`: `Spec => []BaseFollowsReport` | `Saves_proofs` |
| `TheReportIsComplete`: `Spec => []ReportNamesEveryChange` | `Saves_proofs` |
| `NoLineIsStale`: `Spec => []NoStaleLines` | `Saves_proofs` |
| `TypeCorrect`: `Spec => []TypeOK` | `AtomicWrite_proofs` |
| `AtomicallyReplaced`: `Spec => WritesAtomically` | `AtomicWrite_proofs` |
| `ForeignFilesKept`: `Spec => ForeignKept` | `AtomicWrite_proofs` |
| `LitterHasItsWarning`: `Spec => []LitterIsWarned` | `AtomicWrite_proofs` |
| `EditsAreKept`: `Spec => EditsKept` | `ExcludeWindow_proofs` |
| `OwnOutputIsTaken`: `Spec => OwnOutputTaken` | `ExcludeWindow_proofs` |
| `TheWayIsKnown`: `GSpec => []VisitedIsTheWay` | `Generate_proofs` |
| `EveryFileItsPath`: `GSpec => []OneFilePerPath` | `Generate_proofs` |
| `NoFilterIsLeft`: `GSpec => []PassesLeaveNoTrace` | `Generate_proofs` |
| `TypeCorrect`: `GSpec => []TypeOK` | `Generate_proofs` |
| `RefusedOrDryWritesNothing`: a refused or a dry run leaves every file as it was | `Generate_proofs` |
| `ChecksAreHarmless`: `Spec => CheckChangesNothing` | `Runs_proofs` |
| `TheLogIsTheLast`: `Spec => []BufferHoldsTheLast` | `Runs_proofs` |
| `WarningsStayWithTheirCall`: `Spec => []WarningsAreOwn` | `Runs_proofs` |
| `CachesAnswerTrue`: `Spec => []AnswersAreComputed`, if keys tell texts apart | `Runs_proofs` |
| `TypeCorrect`: `Spec => []TypeOK` | `Runs_proofs` |
| `OwnVolumeIsKept`: `Spec => []OwnVolumeHoldsItsRun` | `Runs_proofs` |
| `AlignIs`: `AlignLCS` of any two texts pairs equal lines, in their order | `DiffLines_proofs` |
| `LCSIsLongest`: `LCS` of any two texts is a longest common subsequence of them | `DiffLines_proofs` |
| `RoundsInvHolds`: `Spec => []RoundsInv` | `MergeRounds_proofs` |
| `LinesStayWhole`: `Spec => []NoGluedLines` | `MergeRounds_proofs` |
| `MarksAreOfOneRun`: `Spec => []OneRunOfMarks` | `MergeRounds_proofs` |
| `ShortcutsAgree`: `Spec => []FastPathsAgree` | `MergeRounds_proofs` |
| `NoAdditionIsLost`: `Spec => AdditionsKept` | `MergeRounds_proofs` |
| `SettledStays`: `Spec => SettledFileStays` | `MergeRounds_proofs` |
| `AnchorsAreLongest`: `Spec => []LongestAnchors` | `MergeRounds_proofs` |
| `BothTextsShown`: `Spec => DiffShowsBoth` | `MergeRounds_proofs` |

The assumptions are named in the modules, and TLC evaluates them in every run:

- `LinesAssumption`, `HandlerAssumption`: the kinds of line are disjoint, the protect line
  and the markers are neither generated nor the user's; generators write no user lines and no
  markers; the history has room for one.
- `WriteAssumption`, `OutsideAssumption`: live processes have disjoint temp paths, the values
  are distinct. `WindowAssumption` likewise for the exclude window.
- `ProgramsAssumption`: in the folder a program starts with, no file is below another.
- `RunsAssumption`, `ScenariosAssumption`, `PathsAssumption`: a call is none of the lasting
  volumes; what a scenario renders and writes are sequences; no path ends in the name of a
  call, which is what its temp file ends in.
- `RoundsAssumption`: what a generate, or a user before the first run, writes is a text without
  markers in which only the last line may lack its newline, as any text is that `Lines` cuts.
- `SharedAssumption`: the limits of the log and of the caches are positive.

`CachesAnswerTrue` has a hypothesis that is not an assumption, `KeysTellTextsApart`: two texts
of one key compile alike. The code does not guarantee it, as the run `cacheKey` shows; the
theorem says that nothing else can make a cache answer wrongly.

*A merge run keeps the user's lines.* That a step keeps them is not inductive: it holds
because of what the handler remembers. A region of the file loses a user line only if the
baseline had it too, or if the file was taken for an earlier generate. So the invariant says
that baselines and fingerprints are generates (`RememberedAreGenerates`), which hold no
user lines, since `writeDuplicate` and `withFingerprint` are given the content and never
the file; that the bytes a save decided on are still the file's (`SaveSeesTheFile`); and
that a plain write over an existing file in a merge run comes after the listing
(`OverwriteIsListed`). `IInv` is that and `TypeOK`. With an Inject the first part is false,
which is why the theorem assumes there is none and what the run `inject` shows.

*What a save knows.* The theorems of `Saves_proofs` share `SaveKnows`: the file a save
decided on is still there, with or without Injects, since nothing else writes during a run.
`BaselineHasLanded` then needs that not only the baseline but every copy of the fingerprints
(the log, the loaded one, the collected one) holds only what landed (`RememberedLanded`), for
a run copies one into the other. For a refused file the invariant says, of each path with a
failure, that it was saved once and nothing landed in it (`RefusedStays`); for a marked one,
that it waits, at every step of a save, unless listed (`MarkedWaits`). A backup is of what the
run found (`BackupInv`), because a path's first save is at its file before anything has
changed it, which `RefusedStays` says too. `ReportInv` says of each reported
path that the file and its baseline are a recorded landing, or that its save is about to make
them one.

*No stale line.* A generated line of a file without markers is of its baseline, or is one
the user wrote or an Inject put there. `AccountInv` says so of the file, of the text that is
about to land and of the content of the job, each against the baseline it will have: a merge
drops a line that the baseline has and the new generate lacks, so what is left over is
accounted for by the new baseline. It needs no restriction on Injects.

*The report is complete.* What a run changed is in one of its lists. `TellInv` says so at
every step, and why a file listed as in conflict holds markers: only a run that diffs, or that merges
against a baseline, lists a conflict, and a save adds no marker to the text it has read. There
is one exception, which the property names (`InjectedOver`). Let one run save a path three
times: a File whose merge is in conflict, an Inject that changes nothing in it, and a File
again. The Inject records the marked file as the baseline, so the third save finds the file
as it was generated and replaces it by a clean text, and the listing as in conflict stays. TLC finds this
with three saves of a path; the run `modes` has two.

*The promise.* With these, every step of `FileHandler` maps to a landing, a record, a
drop, a forfeit, an act from outside or a stutter of `MergeBase`. A landing keeps the user's
lines because of `UserLinesSurvive`'s invariant; a record moves the baseline to what landed
because `Duplicate` is given the content of the job in progress.

*The copy walk.* `visited` is the set of the directories in `copying`, each once, and empty
outside of a copy (`WayInv`): a directory is entered only when it is not in the set, and
leaving removes the one that was entered last.

*One File per path.* A File that has a path has claimed it (`ClaimInv`), and only a step that
finds no claim gives a path; what other hooks do to nodes leaves kinds and paths alone.

*The passes of a Fragment.* A scan sets a filter on the shared walk and takes it off again.
`DefineInv` says what the stack of calls looks like: every scan and every replay sits right
above the template of its Fragment (`PassInv`), so a node filters exactly while one pass over
it goes on. `TypeCorrect` of
`Generate` is by the same stack, with `TreeInv` for the tree, `ScanInv` for what a scan has
collected and `DiskInv` for the volume, on which a path is a file or a folder and its parents
are folders.

*Warnings and caches.* A call has a warning exactly when it raised one: `WarningInv` keeps, for
each call, the entries of the history with its name, whatever the bounded log has dropped and
whoever logged in between. `AnswerInv` says that a cached template is what some text with
that key compiles to, also while two calls fill the same entry. `TypeCorrect` of `Runs` needs
that what a call has still to do is part of its scenario (`TodoInv`), that a temp file is its
own call's (`TempInv`) and that the caches are within their limits (`CacheInv`).

*A volume of one's own.* No other call writes it (`OthersWrite`), but the call itself comes to its
result by detours: a temp file beside each target, a baseline after each save, an Inject that
becomes a File of the text it has read, a file left alone because it holds the text. `OwnOK` says
that at every step what is left to do leads from the volume to a stage of the plan (`Ongoing`). The
stages are what `Made` goes through, one operation after another (`StagesAre`). Volumes are compared with
temp files and bookkeeping left out (`Alike`), and with them the directories on the way to the log,
which are bare or unknown until the log, the last thing of every plan, has been written. The volume of
the instance is written only by calls that bring no files, and what those have left to do is of their
components (`SharedHolds`).

*A Check* writes only through `Sink`, which is its own volume, and that is not among the
lasting ones; the volumes that last are all there from the start (`VolumesAreThere`). *The log*
holds a suffix of the history; recording drops the oldest exactly at the limit (`LogInv`).

*An atomic write.* The file at the candidate path of a writer that is about to rename is
its own, of this life, and whole (`ReadyIsWhole`): no other writer's paths include it, and
foreign files appear at free paths only. And a writer has been answered exactly when it is
done. With both, every step maps to a step of `AtomicStore` or to a stutter. A foreign
file that a writer faces got there after it had looked (`FacesLate`); a temp file of no life that still
writes has been warned about (`WarnedOrHeld`).

*The merge of lines.* The theorems are about texts of any length, so they need what the
recursive functions compute. The library's induction takes an operator and cannot be used; the
proofs take the least counterexample instead. `RecursionHolds` and `RecursionIsTyped` say once
that a function whose definition looks only at arguments of a smaller rank exists and follows
it, and `Hirschberg`, the table, the walk and `FlattenSeq` follow theirs by it. Of `LCS` most
theorems need little: its lines are lines of the first text (`LCSTakes`), in the same order up to what
the walk of `AlignLCS` finds (`AlignIs`), a text has itself in common with itself (`LCSOfSame`),
and the last line alone may lack its newline (`LCSEnds`). They hold whatever `LCS` leaves out.

That it leaves out nothing is `LCSIsLongest`. An entry of the table is the most lines that two heads
can pair (by cases on their last lines: a pairing that uses neither loses nothing by taking them when
they are equal). Any pairing crosses the split of `hirschberg` at one place of the second
text, so the place with the best sum loses nothing; and a pairing that leaves a common first or last
line unused can be moved to use it. `AnchorsAreLongest` then says that the greedy walk
of `AlignLCS` finds every one of these lines in both texts.

From there the regions of `Cut`, with the anchors, put together are each of the three texts
(`Reassembled`, `FullMerge`). Where two of the texts are the same, so are their sides of every
region, which gives the fast paths and the settled file (`MergeOfTwo`). A region reconciled has
what either side adds to its baseline (`CountRegion`), and counts add up (`CountJoins`), which
gives `NoAdditionIsLost`. `RoundsInv` says that a file has markers of at most one run for each
side and is well cut: a merge starts from a file without markers, for one with any is left as
it is; no line follows a side that lacks its newline, for such a line is the last of its text, so
that if it is an anchor there is nothing after it (`BetweenEnds`), and if it is in a conflict it
is closed. For a diff the same is said of its hunks (`HunksAre`).

*What a diff shows.* The lines of the hunks that either side has are, put together, that side's text
(`HunksRead`). Each hunk is written as plain lines or as blocks that are opened and closed within it
(`Settled`), so no block of one hunk hides a line of the next, and what a reader sees of the parts,
joined, is what the reader sees of the whole (`InBlockJoins`, `ShowsAll`). The visible lines are listed in
the order they stand in (`IsView`), which is the order `ReadBack` takes them in; what is left is the
newline that closing a side adds to its last line, which `DiffShowsBoth` leaves out on both.

*The exclude window.* The log and the run have the newest stamp that reached the disk or none;
a file the generator wrote is no newer than that stamp, nor than one just taken, unless the run
that wrote it has not finished (`Stamped`). From the look to the rename, the file of a save
that began with a stamp holds no edit made after it, or the user has come in between
(`Looked`). Neither the loss of the log nor a failure between stamp and log breaks this, since
a run without a stamp is outside of the second and leaves a new stamp behind it.

Only model-checked: `FollowsPlan`, since the meaning of a tree is a recursive function of it;
and `CheckForetellsGenerate` of `Runs`, which is not true of every scenario: where a path is saved
a second time without a mode, as in the run `checkInject`, a Check and a Generate differ, so it is
checked on scenarios in which each path is saved once; and `LandedIsRemembered`. The liveness
properties, `EveryRunEnds` and `EveryWriteEnds`, rest on fairness, which the prover does not reason about; they stay with
TLC.

## Not modelled

* The audit trail, the `why` breadcrumbs, the formatting of labels and of the meta log: no
  decision of the modelled code depends on them. Permission modes are in `Runs`, where a
  Check compares them, and not in `FileHandler`.
* Paths outside the output folder, which get no baseline, and a file named like the meta
  log. The `.gitignore` beside the log is left out with it.
* The text of templates: the expression of a spec is a record of its parts, a cache key a
  sequence of characters, a value its token. How values are formatted, the walk of a model
  path and eject are pure. The eject cache works as the template cache does.
* Inject markers that are regular expressions, the `replace` prop of a single component, mode and
  extra props, components that a caller overrides or writes as Go closures with effects of their
  own. `ListItems` binds the item and the indent.
* Template errors in the define walk of `Define`; in `Runs` a refused expression fails the call.
* Modes for existing files in `Build` and `Runs`, and the exclude window there: `FileHandler`
  and `ExcludeWindow` have them. `Runs` also leaves out protected files, a directory at a
  file's path and failing renames, so `Remove` of the shadow is not reached.
* Binary against text files in `FileHandler`: `modesFor` picks one of two sets of flags, and
  a run there has one set.
* In `FileHandler`, an edit while a run is between reading and writing a file; `ExcludeWindow`
  has it. Two runs over one folder with one meta log, a clock that goes back, a user who puts
  back an older meta log or gives a file an older time.
* `OneRunOfMarks` is about the markers that open and close a side: a middle marker the user left
  behind alone is a line like any other, there as in the code. `LookUp` has no short cut for the
  paths that `getxTokenizePlain` takes apart without the cache (`getx.go:183`): every path goes
  through the cache.
* `util.go`, `errors.go` and `doc.go`, which are pure helpers; the TypeScript and Rust
  implementations; the scripts under `tools/`.

## Plan

In order of what a failure there would cost:

1. That `Contents` abstracts `DiffLines`: the regions of a merge of lines, read as sets of
   lines, are what the merge by regions makes of them.
2. Two runs over one folder: `FileHandler` with two processes and one meta log, and what a
   user can rely on when they overlap.
3. The flags for existing files in `mergeOptions`, text and binary, so that `FileHandler`'s
   options are those of a call of `Runs`.
4. `CheckForetellsGenerate` as a theorem about the scenarios that save each path once: the
   stages of the Check's plan and of the Generate's agree on the texts and the declared modes.
5. Components that are Go closures, with effects during the passes of a Fragment.
