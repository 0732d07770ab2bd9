--------------------------- MODULE ExcludeWindow ---------------------------
(***************************************************************************)
(* The exclude option (fileAfter of go/build.go; load, last and done of    *)
(* go/buildmeta.go): a run leaves alone the files changed on disk since    *)
(* the stamp that the meta log holds. The files are written outright, with *)
(* no merge; the clock is the file system's and the stamp's alike, in      *)
(* whole milliseconds. The user acts at any time, between the steps of a   *)
(* save as well.                                                           *)
(***************************************************************************)
EXTENDS Naturals

CONSTANTS
    Outputs,    \* the output paths
    Copied,     \* those a directory copy writes; File components write the others
    Generates,  \* what the components produce
    UserText,   \* a file as the user left it
    None,       \* no file, no path, no text
    MaxTime, MaxRuns   \* bounds of the exploration

ASSUME WindowAssumption ==
    /\ Copied \subseteq Outputs /\ None \notin Outputs
    /\ UserText \notin Generates /\ None \notin Generates \cup {UserText}
    /\ MaxTime \in Nat \ {0} /\ MaxRuns \in Nat

VARIABLES
    content,   \* the file at each path
    mtime,     \* when it was last written
    last,      \* the stamp in the meta log; 0 when no log can be read
    now,       \* the clock
    job,       \* where the run is: the step, and the save it is at
    loaded,    \* the stamp as the run found it
    exclude,   \* the run's exclude option
    walked,    \* the outputs this run has dealt with
    runs,
    finished,    \* history: the newest stamp that reached the meta log
    unfinished,  \* history: outputs the generator wrote since
    late         \* history: the user wrote the file of this save since it began

disk == <<content, mtime>>
options == <<loaded, exclude, runs>>
history == <<finished, unfinished, late>>
vars == <<content, mtime, last, now, job, loaded, exclude, walked, runs,
          finished, unfinished, late>>

\* The save of text at a path; dated is the time of its temp file, or the stamp.
Job(step, path, text, dated) ==
    [step |-> step, path |-> path, text |-> text, dated |-> dated]

Idle == Job("idle", None, None, 0)
Walking == Job("walk", None, None, 0)

Tick == /\ now < MaxTime /\ now' = now + 1
        /\ UNCHANGED <<disk, last, job, walked, options, history>>

\* load: a log that is absent or cannot be read leaves the run without a stamp.
StartRun ==
    /\ job = Idle /\ runs < MaxRuns
    /\ job' = Walking /\ loaded' = last /\ exclude' \in BOOLEAN /\ walked' = {}
    /\ runs' = runs + 1
    /\ UNCHANGED <<disk, last, now, history>>

\* The file exists and was modified since the stamp; without one nothing was.
InWindow(p) == content[p] # None /\ loaded > 0 /\ mtime[p] > loaded

\* Only File components look at the window.
Skipped(p) == exclude /\ p \notin Copied /\ InWindow(p)

\* fileAfter leaves the file alone.
Skip(p) ==
    /\ job = Walking /\ p \notin walked /\ Skipped(p)
    /\ walked' = walked \cup {p}
    /\ UNCHANGED <<disk, last, now, job, options, history>>

\* fileAfter has looked at the file and goes on to the save.
Begin(p, g) ==
    /\ job = Walking /\ p \notin walked /\ ~Skipped(p)
    /\ job' = Job("read", p, g, 0) /\ walked' = walked \cup {p}
    /\ late' = FALSE
    /\ UNCHANGED <<disk, last, now, options, finished, unfinished>>

\* saveAs reads the file: equal bytes are not written again.
Read ==
    /\ job.step = "read"
    /\ job' = IF content[job.path] = job.text THEN Walking
              ELSE [job EXCEPT !.step = "write"]
    /\ UNCHANGED <<disk, last, now, walked, options, history>>

\* The temp file is written, and has the time of that.
WriteTemp ==
    /\ job.step = "write"
    /\ job' = [job EXCEPT !.step = "rename", !.dated = now]
    /\ UNCHANGED <<disk, last, now, walked, options, history>>

\* The rename brings text and time to the path, whatever is there by now.
Rename ==
    /\ job.step = "rename"
    /\ content' = [content EXCEPT ![job.path] = job.text]
    /\ mtime' = [mtime EXCEPT ![job.path] = job.dated]
    /\ unfinished' = unfinished \cup {job.path}
    /\ job' = Walking
    /\ UNCHANGED <<last, now, walked, options, finished, late>>

\* Fault: a stamp that is there is kept.
Stamp_Kept == IF loaded > 0 THEN loaded ELSE now

\* The stamp is taken when the build is over.
Stamp == now

\* done: a run that walked its tree takes its stamp, also when it then fails
\* over refused merges.
TakeStamp ==
    /\ job = Walking
    /\ job' = Job("stamp", None, None, Stamp)
    /\ UNCHANGED <<disk, last, now, walked, options, history>>

\* done: the meta log is replaced.
Finish ==
    /\ job.step = "stamp"
    /\ last' = job.dated /\ job' = Idle
    /\ finished' = job.dated /\ unfinished' = {}
    /\ UNCHANGED <<disk, now, walked, options, late>>

\* Fault: a run that fails stamps the meta log too.
Abort_Stamps ==
    /\ job # Idle
    /\ job' = Idle /\ last' = now
    /\ UNCHANGED <<disk, now, walked, options, history>>

\* A component, a write or the meta log fails, or the process dies: the log
\* stays as it is.
Abort ==
    /\ job # Idle
    /\ job' = Idle
    /\ UNCHANGED <<disk, last, now, walked, options, history>>

\* The meta log is removed or garbled.
LoseLog ==
    /\ last > 0 /\ last' = 0
    /\ UNCHANGED <<disk, now, job, walked, options, history>>

\* The user writes a file, or removes it.
UserActs(p) ==
    /\ content' \in {[content EXCEPT ![p] = c] : c \in {UserText, None}}
    /\ mtime' = [mtime EXCEPT ![p] = now]
    /\ unfinished' = unfinished \ {p}
    /\ late' = (late \/ p = job.path)
    /\ UNCHANGED <<last, now, job, walked, options, finished>>

Init ==
    /\ content = [p \in Outputs |-> None] /\ mtime = [p \in Outputs |-> 0]
    /\ last = 0 /\ now = 1 /\ job = Idle
    /\ loaded = 0 /\ exclude = FALSE /\ walked = {} /\ runs = 0
    /\ finished = 0 /\ unfinished = {} /\ late = FALSE

Next == \/ Tick \/ StartRun \/ Read \/ WriteTemp \/ Rename
        \/ TakeStamp \/ Finish \/ Abort \/ LoseLog
        \/ \E p \in Outputs : Skip(p) \/ UserActs(p) \/ \E g \in Generates : Begin(p, g)

Spec == Init /\ [][Next]_vars

-----------------------------------------------------------------------------

\* The user wrote the file after the newest stamp that reached the meta log.
EditedSince(p) == content[p] = UserText /\ finished > 0 /\ mtime[p] > finished

\* A rename at a File's path replaces such an edit only in a run without
\* exclude, in one that found no stamp, or if it came after the run had
\* looked at the file.
Keeps ==
    Rename /\ job.path \notin Copied /\ EditedSince(job.path)
        => ~exclude \/ loaded = 0 \/ late

\* A run with exclude that found the stamp of the last finished run does not
\* replace what the user wrote at a File's path after that stamp and before
\* the run looked at the file, whatever runs failed or died in between
\* (fileAfter, options.go on Exclude).
EditsKept == [][Keeps]_vars

\* The generator's own output is not taken for an edit, once the run that
\* wrote it has finished (exclude_window_test.go, TestExcludeDoesNotSkipOwnOutput).
OwnOutputTaken ==
    [][\A p \in Outputs : Skip(p) /\ content[p] # UserText => p \in unfinished]_vars
=============================================================================
