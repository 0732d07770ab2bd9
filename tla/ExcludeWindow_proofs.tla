------------------------ MODULE ExcludeWindow_proofs ------------------------
(***************************************************************************)
(* Who the exclude window takes for an edit, and which edits a save cannot *)
(* reach, for every set of outputs and any number of runs.                 *)
(***************************************************************************)
EXTENDS ExcludeWindow, TLAPS

Saving == {"read", "write", "rename"}

Types ==
    /\ content \in [Outputs -> Generates \cup {UserText, None}]
    /\ mtime \in [Outputs -> Nat]
    /\ last \in Nat /\ now \in Nat /\ loaded \in Nat
    /\ job \in [step : {"idle", "walk", "stamp"} \cup Saving, path : Outputs \cup {None},
                text : Generates \cup {None}, dated : Nat]
    /\ job.step \in Saving => job.path \in Outputs /\ job.text \in Generates
    /\ exclude \in BOOLEAN /\ late \in BOOLEAN /\ walked \subseteq Outputs
    /\ finished \in Nat /\ unfinished \subseteq Outputs

Generated(p) == content[p] \notin {UserText, None}

\* Nothing is dated in the future. The log, and the run, have the newest stamp
\* or none. The generator's output is no newer than that stamp, or than the
\* stamp about to be written, unless the run that wrote it has not finished.
Stamped ==
    /\ last \in {0, finished} /\ finished <= now /\ job.dated <= now
    /\ job.step # "idle" => loaded \in {0, finished}
    /\ \A p \in Outputs : /\ mtime[p] <= now
                          /\ Generated(p) /\ p \notin unfinished => mtime[p] <= finished
    /\ job.step = "stamp" => /\ finished <= job.dated
                             /\ \A p \in Outputs : Generated(p) => mtime[p] <= job.dated

\* Under exclude, the file of a save that began with a stamp is no edit, as
\* long as the user has not come in between.
Looked ==
    job.step \in Saving /\ job.path \notin Copied /\ EditedSince(job.path)
        => ~exclude \/ loaded = 0 \/ late

IInv == Types /\ Stamped /\ Looked

LEMMA InitIInv == Init => IInv
<1> SUFFICES ASSUME Init PROVE IInv
  OBVIOUS
<1>1. Types
  BY WindowAssumption DEF Init, Types, Idle, Job, Saving
<1>2. Stamped /\ Looked
  BY DEF Init, Stamped, Looked, Generated, Idle, Job, Saving
<1> QED
  BY <1>1, <1>2 DEF IInv

\* Between two steps of a save no file changes under the generator.
LEMMA QuietStep ==
    ASSUME IInv, UNCHANGED <<content, mtime, last, finished, unfinished, walked>>,
           UNCHANGED <<loaded, exclude, late>>, now' \in Nat, now <= now', job' = job
    PROVE  IInv'
<1> USE DEF IInv
<1>1. Types'
  BY DEF Types
<1>2. Stamped'
  BY DEF Types, Stamped, Generated
<1>3. Looked'
  BY DEF Looked, EditedSince
<1> QED
  BY <1>1, <1>2, <1>3

LEMMA StepIInv == IInv /\ [Next]_vars => IInv'
<1> SUFFICES ASSUME IInv, [Next]_vars PROVE IInv'
  OBVIOUS
<1> USE WindowAssumption DEF IInv, disk, options, history
<1>1. CASE Tick
  BY <1>1, QuietStep DEF Tick, Types
<1>2. CASE StartRun
  <2>1. Types'
    BY <1>2 DEF StartRun, Types, Walking, Job, Saving
  <2>2. Stamped'
    BY <1>2 DEF StartRun, Stamped, Generated, Walking, Job, Types
  <2>3. Looked'
    BY <1>2 DEF StartRun, Looked, Walking, Job, Saving
  <2> QED
    BY <2>1, <2>2, <2>3
<1>3. ASSUME NEW p \in Outputs, Skip(p) PROVE IInv'
  <2>1. Types'
    BY <1>3 DEF Skip, Types
  <2>2. Stamped' /\ Looked'
    BY <1>3 DEF Skip, Stamped, Looked, Generated, EditedSince
  <2> QED
    BY <2>1, <2>2
<1>4. ASSUME NEW p \in Outputs, NEW g \in Generates, Begin(p, g) PROVE IInv'
  <2>0. job' = [step |-> "read", path |-> p, text |-> g, dated |-> 0] /\ job.step = "walk"
    BY <1>4 DEF Begin, Walking, Job
  <2>1. Types'
    <3>1. job'.step \in Saving /\ job'.path \in Outputs /\ job'.text \in Generates
      BY <2>0 DEF Saving
    <3>2. job' \in [step : {"idle", "walk", "stamp"} \cup Saving, path : Outputs \cup {None},
                    text : Generates \cup {None}, dated : Nat]
      BY <2>0 DEF Saving
    <3> QED
      BY <1>4, <3>1, <3>2 DEF Begin, Types
  <2>2. Stamped'
    BY <1>4, <2>0 DEF Begin, Stamped, Generated, Types
  <2>3. Looked'
    <3>1. loaded \in {0, finished}
      BY <2>0 DEF Stamped
    <3> QED
      BY <1>4, <2>0, <3>1 DEF Begin, Looked, Skipped, InWindow, EditedSince, Types
  <2> QED
    BY <2>1, <2>2, <2>3
<1>5. CASE Read
  <2>0. job.step \in Saving
    BY <1>5 DEF Read, Saving
  <2>1. CASE job' = Walking
    <3>1. Types'
      BY <1>5, <2>1 DEF Read, Types, Walking, Job, Saving
    <3>2. Stamped'
      BY <1>5, <2>1 DEF Read, Stamped, Generated, Walking, Job, Types
    <3>3. Looked'
      BY <1>5, <2>1 DEF Read, Looked, Walking, Job, Saving
    <3> QED
      BY <3>1, <3>2, <3>3
  <2>2. CASE job' = [job EXCEPT !.step = "write"]
    <3>1. Types'
      BY <1>5, <2>0, <2>2 DEF Read, Types, Saving
    <3>2. job'.step = "write" /\ job'.path = job.path /\ job'.dated = job.dated
      BY <2>2 DEF Types
    <3>3. Stamped'
      BY <1>5, <3>2 DEF Read, Stamped, Generated
    <3>4. Looked'
      BY <1>5, <2>0, <3>2 DEF Read, Looked, EditedSince, Saving
    <3> QED
      BY <3>1, <3>3, <3>4
  <2> QED
    BY <1>5, <2>1, <2>2 DEF Read
<1>6. CASE WriteTemp
  <2>1. Types'
    BY <1>6 DEF WriteTemp, Types, Saving
  <2>2. /\ job'.step = "rename" /\ job'.path = job.path /\ job'.dated = now
        /\ job.step \in Saving
    BY <1>6 DEF WriteTemp, Types, Saving
  <2>3. Stamped'
    BY <1>6, <2>2 DEF WriteTemp, Stamped, Generated, Types
  <2>4. Looked'
    BY <1>6, <2>2 DEF WriteTemp, Looked, EditedSince, Saving
  <2> QED
    BY <2>1, <2>3, <2>4
<1>7. CASE Rename
  <2>1. job.path \in Outputs /\ job.text \in Generates
    BY <1>7 DEF Rename, Types, Saving
  <2>2. job' = [step |-> "walk", path |-> None, text |-> None, dated |-> 0]
    BY <1>7 DEF Rename, Walking, Job
  <2>3. Types'
    BY <1>7, <2>1, <2>2 DEF Rename, Types, Saving
  <2>4. Stamped'
    <3>1. ASSUME NEW p \in Outputs
          PROVE  mtime'[p] <= now' /\ (Generated(p)' /\ p \notin unfinished' => mtime'[p] <= finished')
      <4>1. CASE p = job.path
        BY <1>7, <4>1 DEF Rename, Stamped, Types
      <4>2. CASE p # job.path
        BY <1>7, <4>2 DEF Rename, Stamped, Types, Generated
      <4> QED
        BY <4>1, <4>2
    <3>2. loaded' \in {0, finished'} /\ last' \in {0, finished'} /\ finished' <= now'
      BY <1>7 DEF Rename, Stamped
    <3> QED
      BY <2>2, <2>3, <3>1, <3>2 DEF Stamped, Types
  <2>5. Looked'
    BY <2>2 DEF Looked, Saving
  <2> QED
    BY <2>3, <2>4, <2>5
<1>8. CASE TakeStamp
  <2>1. job' = [step |-> "stamp", path |-> None, text |-> None, dated |-> now] /\ job.step = "walk"
    BY <1>8 DEF TakeStamp, Stamp, Walking, Job
  <2>2. Types'
    BY <1>8, <2>1 DEF TakeStamp, Types, Saving
  <2>3. Stamped'
    BY <1>8, <2>1 DEF TakeStamp, Stamped, Generated, Types
  <2>4. Looked'
    BY <2>1 DEF Looked, Saving
  <2> QED
    BY <2>2, <2>3, <2>4
<1>9. CASE Finish
  <2>1. job' = [step |-> "idle", path |-> None, text |-> None, dated |-> 0] /\ job.dated \in Nat
    BY <1>9 DEF Finish, Idle, Job, Types
  <2>2. Types'
    BY <1>9, <2>1 DEF Finish, Types, Saving
  <2>3. Stamped'
    BY <1>9, <2>1 DEF Finish, Stamped, Generated, Types
  <2>4. Looked'
    BY <2>1 DEF Looked, Saving
  <2> QED
    BY <2>2, <2>3, <2>4
<1>10. CASE Abort
  <2>1. job' = [step |-> "idle", path |-> None, text |-> None, dated |-> 0]
    BY <1>10 DEF Abort, Idle, Job
  <2>2. Types'
    BY <1>10, <2>1 DEF Abort, Types, Saving
  <2>3. Stamped'
    BY <1>10, <2>1 DEF Abort, Stamped, Generated, Types
  <2>4. Looked'
    BY <2>1 DEF Looked, Saving
  <2> QED
    BY <2>2, <2>3, <2>4
<1>11. CASE LoseLog
  <2>1. Types' /\ Looked'
    BY <1>11 DEF LoseLog, Types, Looked, EditedSince
  <2>2. Stamped'
    BY <1>11 DEF LoseLog, Stamped, Generated
  <2> QED
    BY <2>1, <2>2
<1>12. ASSUME NEW p \in Outputs, UserActs(p) PROVE IInv'
  <2>1. PICK c \in {UserText, None} : content' = [content EXCEPT ![p] = c]
    BY <1>12 DEF UserActs
  <2>2. /\ mtime' = [mtime EXCEPT ![p] = now] /\ unfinished' = unfinished \ {p}
        /\ late' = (late \/ p = job.path)
        /\ UNCHANGED <<last, now, job, walked, loaded, exclude, finished>>
    BY <1>12 DEF UserActs
  <2>3. Types'
    BY <2>1, <2>2 DEF Types
  <2>4. ASSUME NEW q \in Outputs
        PROVE  /\ q = p => mtime'[q] = now /\ ~Generated(q)'
               /\ q # p => mtime'[q] = mtime[q] /\ content'[q] = content[q]
    BY <2>1, <2>2 DEF Types, Generated
  <2>5. Stamped'
    BY <2>2, <2>4 DEF Stamped, Generated, Types
  <2>6. Looked'
    BY <2>2, <2>4 DEF Looked, EditedSince, Types
  <2> QED
    BY <2>3, <2>5, <2>6
<1>13. CASE UNCHANGED vars
  BY <1>13, QuietStep DEF vars, Types
<1> QED
  BY <1>1, <1>2, <1>3, <1>4, <1>5, <1>6, <1>7, <1>8, <1>9, <1>10, <1>11, <1>12, <1>13 DEF Next

\* What a run takes for an edit is one, or the output of a run that did not
\* finish: the stamp is no older than the files the finished run wrote
\* (done of buildmeta.go, fileAfter of build.go).
THEOREM OwnOutputIsTaken == Spec => OwnOutputTaken
<1>1. Init => IInv
  BY InitIInv
<1>2. IInv /\ [Next]_vars => IInv'
  BY StepIInv
<1>3. IInv => \A p \in Outputs : Skip(p) /\ content[p] # UserText => p \in unfinished
  BY DEF IInv, Types, Stamped, Generated, Skip, Skipped, InWindow, Walking, Job
<1>4. IInv /\ [Next]_vars
        => [\A p \in Outputs : Skip(p) /\ content[p] # UserText => p \in unfinished]_vars
  BY <1>3
<1> QED
  BY <1>1, <1>2, <1>4, PTL DEF Spec, OwnOutputTaken

\* A run with exclude that found the stamp of the last finished run does not
\* replace, at a File's path, what the user wrote after that stamp and before
\* the run looked at the file, whatever failed in between (fileAfter of
\* build.go, load and done of buildmeta.go).
THEOREM EditsAreKept == Spec => EditsKept
<1>1. Init => IInv
  BY InitIInv
<1>2. IInv /\ [Next]_vars => IInv'
  BY StepIInv
<1>3. IInv => Keeps
  BY DEF IInv, Looked, Keeps, Rename, Saving
<1>4. IInv /\ [Next]_vars => [Keeps]_vars
  BY <1>3
<1> QED
  BY <1>1, <1>2, <1>4, PTL DEF Spec, EditsKept
=============================================================================
