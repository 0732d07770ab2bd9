---------------------------- MODULE Runs_proofs ----------------------------
(***************************************************************************)
(* Theorems about the calls of an instance, for every set of calls, of     *)
(* scenarios and of limits: a Check changes nothing that outlives it, the  *)
(* package log is the end of what was recorded, a call replays its own     *)
(* warnings, the caches answer as if there were none, temp files come and  *)
(* go, and a volume of a call's own holds what the call made of it.        *)
(***************************************************************************)
EXTENDS Runs, SequenceTheorems, FiniteSetTheorems, WellFoundedInduction, TLAPS

(* A Check writes its own volume only. *)

\* The volumes that outlive a call are there.
VolumesAreThere == Lasting \subseteq DOMAIN vols

\* Whatever step a Check takes, at most its own volume changes.
LEMMA CheckWritesItsShadow ==
    ASSUME VolumesAreThere, NEW r \in Runs, IsCheck(r), Step(r)
    PROVE  \A v \in Lasting : vols'[v] = vols[v]
<1>1. r \notin Lasting
  BY RunsAssumption
<1>2. Target(r) = r
  BY DEF Target
<1>3. \A path : Sink(r, path) = r
  BY <1>2 DEF Sink
<1>4. ~Keeps(Target(r))
  BY <1>1, <1>2 DEF Keeps, Lasting
<1>5. \A path, mode : Modes(r, path, mode) = vols
  BY <1>4 DEF Modes
<1>6. ASSUME NEW w, vols' = [vols EXCEPT ![r] = w]
      PROVE  \A v \in Lasting : vols'[v] = vols[v]
  BY <1>1, <1>6 DEF VolumesAreThere
<1>7. CASE UNCHANGED vols
  BY <1>7
<1>8. CASE Begin(r)
  BY <1>7, <1>8 DEF Begin
<1>9. CASE Folder(r)
  <2>1. vols' = vols \/ \E w : vols' = [vols EXCEPT ![r] = w]
    BY <1>3, <1>9 DEF Folder
  <2> QED
    BY <1>6, <1>7, <2>1
<1>10. CASE Save(r)
  BY <1>5, <1>7, <1>10 DEF Save
<1>11. CASE Write(r)
  <2>1. \E w : vols' = [vols EXCEPT ![r] = w]
    BY <1>3, <1>11 DEF Write
  <2> QED
    BY <1>6, <2>1
<1>12. CASE SetMode(r)
  BY <1>5, <1>7, <1>12 DEF SetMode
<1>13. CASE Publish(r)
  <2>1. \E w : vols' = [vols EXCEPT ![r] = w]
    BY <1>3, <1>13 DEF Publish
  <2> QED
    BY <1>6, <2>1
<1>14. CASE Render(r) \/ LookUp(r) \/ Store(r) \/ Defined(r) \/ Inject(r) \/ SaveRaw(r)
            \/ Finish(r) \/ Compare(r)
  BY <1>7, <1>14 DEF Render, LookUp, Store, Defined, Inject, SaveRaw, Finish, Compare
<1> QED
  BY <1>8, <1>9, <1>10, <1>11, <1>12, <1>13, <1>14 DEF Step

\* No step takes a volume away.
LEMMA StepKeepsVolumes == VolumesAreThere /\ [Next]_vars => VolumesAreThere'
<1> SUFFICES ASSUME VolumesAreThere, [Next]_vars PROVE VolumesAreThere'
  OBVIOUS
<1>1. CASE UNCHANGED vols
  BY <1>1 DEF VolumesAreThere
<1>2. ASSUME NEW x, NEW w, vols' = [vols EXCEPT ![x] = w] PROVE VolumesAreThere'
  BY <1>2 DEF VolumesAreThere
<1>3. ASSUME NEW r \in Runs, Step(r) PROVE VolumesAreThere'
  <2>1. \A path, mode : \/ Modes(r, path, mode) = vols
                        \/ \E x, w : Modes(r, path, mode) = [vols EXCEPT ![x] = w]
    BY DEF Modes
  <2>2. CASE Begin(r)
    <3>1. vols' = vols \/ vols' = [vols EXCEPT ![r] = Seed(Merged(r).vol)]
      BY <2>2, Zenon DEF Begin
    <3> QED
      BY <1>1, <1>2, <3>1
  <2>3. CASE Folder(r)
    <3>1. vols' = vols \/ \E x, w : vols' = [vols EXCEPT ![x] = w]
      BY <2>3 DEF Folder
    <3> QED
      BY <1>1, <1>2, <3>1
  <2>4. CASE Save(r)
    <3> DEFINE op == Head(run[r].todo)
    <3>2. vols' = IF Unchanged(r, op) /\ Differs(r, op.path, op.mode)
                  THEN Modes(r, op.path, op.mode) ELSE vols
      BY <2>4, Zenon DEF Save
    <3> HIDE DEF op
    <3>1. vols' = vols \/ vols' = Modes(r, op.path, op.mode)
      BY <3>2
    <3> QED
      BY <1>1, <1>2, <2>1, <3>1
  <2>5. CASE Write(r)
    <3>1. \E x, w : vols' = [vols EXCEPT ![x] = w]
      BY <2>5 DEF Write
    <3> QED
      BY <1>2, <3>1
  <2>6. CASE SetMode(r)
    <3>1. vols' = Modes(r, TempOf(r, Writing(r).path), ModeFor(r))
      BY <2>6 DEF SetMode
    <3> QED
      BY <1>1, <1>2, <2>1, <3>1
  <2>7. CASE Publish(r)
    <3>1. \E x, w : vols' = [vols EXCEPT ![x] = w]
      BY <2>7 DEF Publish
    <3> QED
      BY <1>2, <3>1
  <2>8. CASE Render(r) \/ LookUp(r) \/ Store(r) \/ Defined(r) \/ Inject(r) \/ SaveRaw(r)
             \/ Finish(r) \/ Compare(r)
    BY <1>1, <2>8 DEF Render, LookUp, Store, Defined, Inject, SaveRaw, Finish, Compare
  <2> QED
    BY <1>3, <2>2, <2>3, <2>4, <2>5, <2>6, <2>7, <2>8 DEF Step
<1>4. CASE Snapshot \/ UNCHANGED vars
  BY <1>1, <1>4 DEF Snapshot, vars
<1> QED
  BY <1>3, <1>4 DEF Next

\* A Check, whatever it is told to generate and whatever other calls do in
\* the meantime, changes no file of the host, of the caller's provider or of
\* the instance's volume (shadowFS, go/check.go:180).
THEOREM ChecksAreHarmless == Spec => CheckChangesNothing
<1>1. Init => VolumesAreThere
  BY DEF Init, VolumesAreThere
<1>2. VolumesAreThere /\ [Next]_vars => VolumesAreThere'
  BY StepKeepsVolumes
<1>3. VolumesAreThere =>
        [\A r \in Runs : IsCheck(r) /\ Step(r) => \A v \in Lasting : vols'[v] = vols[v]]_vars
  BY CheckWritesItsShadow
<1> QED
  BY <1>1, <1>2, <1>3, PTL DEF Spec, CheckChangesNothing
-----------------------------------------------------------------------------
(* The package log is the end of the history. *)

\* What the log is part of: every entry since the process began.
HistoryIsKept ==
    /\ history \in Seq(ToSet(history))
    /\ cleared \in 0..Len(history)

LogInv == HistoryIsKept /\ BufferHoldsTheLast

\* The end of a sequence with one more element.
LEMMA EndOfAppend ==
    ASSUME NEW S, NEW h \in Seq(S), NEW e \in S, NEW k \in 0..Len(h)
    PROVE  Append(SubSeq(h, Len(h) + 1 - k, Len(h)), e)
             = SubSeq(Append(h, e), Len(h) + 1 - k, Len(h) + 1)
<1> DEFINE n == Len(h)
           left == Append(SubSeq(h, n + 1 - k, n), e)
           right == SubSeq(Append(h, e), n + 1 - k, n + 1)
<1>1. n \in Nat /\ k \in Nat /\ k <= n
  OBVIOUS
<1>2. /\ SubSeq(h, n + 1 - k, n) \in Seq(S) /\ Len(SubSeq(h, n + 1 - k, n)) = k
      /\ \A i \in 1..k : SubSeq(h, n + 1 - k, n)[i] = h[n - k + i]
  BY <1>1, SubSeqProperties
<1>3. /\ left \in Seq(S) /\ Len(left) = k + 1 /\ left[k + 1] = e
      /\ \A i \in 1..k : left[i] = h[n - k + i]
  BY <1>1, <1>2, AppendProperties
<1>4. /\ Append(h, e) \in Seq(S) /\ Len(Append(h, e)) = n + 1 /\ Append(h, e)[n + 1] = e
      /\ \A i \in 1..n : Append(h, e)[i] = h[i]
  BY AppendProperties
<1>5. /\ right \in Seq(S) /\ Len(right) = k + 1
      /\ \A i \in 1..(k + 1) : right[i] = Append(h, e)[n - k + i]
  BY <1>1, <1>4, SubSeqProperties
<1> HIDE DEF left, right
<1>6. \A i \in 1..(k + 1) : left[i] = right[i]
  <2> SUFFICES ASSUME NEW i \in 1..(k + 1) PROVE left[i] = right[i]
    OBVIOUS
  <2>1. CASE i = k + 1
    BY <1>1, <1>3, <1>4, <1>5, <2>1
  <2>2. CASE i # k + 1
    <3>1. i \in 1..k /\ n - k + i \in 1..n
      BY <1>1, <2>2
    <3> QED
      BY <1>3, <1>4, <1>5, <3>1
  <2> QED
    BY <2>1, <2>2
<1>7. left = right
  BY <1>1, <1>3, <1>5, <1>6, SeqEqual
<1> QED
  BY <1>7 DEF left, right

\* Taking an entry in: what is kept of the log, and the entry, are the end
\* of the longer history.
LEMMA RecordKeepsTheLast ==
    ASSUME LogInv, NEW entry, Record(entry)
    PROVE  LogInv'
<1> DEFINE S == ToSet(history) \cup {entry}
           n == Len(history)
           size == Smaller(DLogMax, n - cleared)
           keep == Smaller(DLogMax - 1, size)
<1>1. /\ DLogMax \in Nat \ {0} /\ history \in Seq(S) /\ entry \in S /\ n \in Nat
      /\ cleared \in 0..n
  BY SharedAssumption DEF LogInv, HistoryIsKept
<1>2. /\ history' = Append(history, entry) /\ cleared' = cleared
      /\ dlog' = Append(Kept(dlog), entry)
  BY DEF Record
<1>3. history' \in Seq(S) /\ Len(history') = n + 1
  BY <1>1, <1>2
<1>4. history' \in Seq(ToSet(history'))
  <2>1. \A k \in 1..Len(history') : history'[k] \in ToSet(history')
    BY <1>3 DEF ToSet
  <2> QED
    BY <1>3, <2>1
<1>5. /\ size \in 0..n /\ size <= DLogMax
      /\ keep \in 0..n /\ keep <= size
      /\ size >= DLogMax => size = DLogMax /\ keep = size - 1
      /\ ~(size >= DLogMax) => keep = size
      /\ Smaller(DLogMax, n + 1 - cleared) = keep + 1
  BY <1>1 DEF Smaller
<1>6. dlog = SubSeq(history, n + 1 - size, n)
  BY DEF LogInv, BufferHoldsTheLast
<1> HIDE DEF S, size, keep
<1>7. dlog \in Seq(S) /\ Len(dlog) = size
  BY <1>1, <1>5, <1>6, SubSeqProperties
<1>8. Kept(dlog) = SubSeq(history, n + 1 - keep, n)
  <2>1. CASE size >= DLogMax
    <3>1. Kept(dlog) = SubSeq(dlog, 2, size)
      BY <1>1, <1>5, <1>7, <2>1 DEF Kept
    <3>2. SubSeq(SubSeq(history, n + 1 - size, n), 2, size) = SubSeq(history, n + 2 - size, n)
      <4>1. CASE size = 1
        BY <1>1, <4>1, SubSeqEmpty
      <4>2. CASE size # 1
        <5>1. /\ n + 1 - size \in 1..n /\ n \in 1..n /\ 2 \in 1..size /\ size \in 1..size
              /\ size = n - (n + 1 - size) + 1
              /\ n + 1 - size + 2 - 1 = n + 2 - size /\ n + 1 - size + size - 1 = n
          BY <1>1, <1>5, <2>1, <4>2
        <5> DEFINE m == n + 1 - size
        <5>2. m \in 1..Len(history) /\ n \in 1..Len(history)
              /\ 2 \in 1..n - m + 1 /\ size \in 1..n - m + 1
          BY <1>1, <5>1
        <5> HIDE DEF m
        <5>3. SubSeq(SubSeq(history, m, n), 2, size) = SubSeq(history, m + 2 - 1, m + size - 1)
          BY <1>1, <5>2, SubSeqOfSubSeq
        <5> QED
          BY <5>1, <5>3 DEF m
      <4> QED
        BY <4>1, <4>2
    <3>3. n + 2 - size = n + 1 - keep
      BY <1>1, <1>5, <2>1
    <3> QED
      BY <1>6, <3>1, <3>2, <3>3
  <2>2. CASE ~(size >= DLogMax)
    BY <1>5, <1>6, <1>7, <2>2 DEF Kept
  <2> QED
    BY <2>1, <2>2
<1>9. dlog' = SubSeq(history', n + 1 - keep, n + 1)
  BY <1>1, <1>2, <1>5, <1>8, EndOfAppend
<1>10. n + 1 - keep = Len(history') + 1 - (keep + 1)
  BY <1>1, <1>3, <1>5
<1>11. BufferHoldsTheLast'
  <2>1. Len(history') - cleared' = n + 1 - cleared /\ n + 1 = Len(history')
    BY <1>1, <1>2, <1>3
  <2>2. Smaller(DLogMax, Len(history') - cleared') = keep + 1
    BY <1>5, <2>1
  <2>3. dlog' = SubSeq(history', Len(history') + 1 - (keep + 1), Len(history'))
    BY <1>9, <1>10, <2>1
  <2> QED
    BY <2>2, <2>3 DEF BufferHoldsTheLast
<1> QED
  BY <1>1, <1>2, <1>3, <1>4, <1>11 DEF LogInv, HistoryIsKept

\* A caller that clears the log starts it over.
LEMMA ClearKeepsTheLast ==
    ASSUME LogInv, ClearLog
    PROVE  LogInv'
<1>1. /\ history' = history /\ Len(history) \in Nat /\ cleared' = Len(history) /\ dlog' = <<>>
      /\ history \in Seq(ToSet(history))
  BY DEF ClearLog, LogInv, HistoryIsKept
<1>2. Smaller(DLogMax, Len(history) - Len(history)) = 0
  BY <1>1, SharedAssumption DEF Smaller
<1>3. SubSeq(history, Len(history) + 1 - 0, Len(history)) = <<>>
  BY <1>1
<1> QED
  BY <1>1, <1>2, <1>3 DEF LogInv, HistoryIsKept, BufferHoldsTheLast

LEMMA StepLogInv == LogInv /\ [Next]_vars => LogInv'
<1> SUFFICES ASSUME LogInv, [Next]_vars PROVE LogInv'
  OBVIOUS
<1>1. CASE UNCHANGED <<dlog, history, cleared>>
  BY <1>1 DEF LogInv, HistoryIsKept, BufferHoldsTheLast
<1>2. ASSUME NEW r \in Runs, Step(r) PROVE LogInv'
  <2>1. CASE Inject(r)
    <3> DEFINE op == Head(run[r].todo)
    <3>1. \/ UNCHANGED sharedVars
          \/ Record([by |-> r, at |-> op.path, why |-> "no markers"])
      BY <2>1, Zenon DEF Inject, Warn, SameShared
    <3> QED
      BY <1>1, <3>1, RecordKeepsTheLast DEF sharedVars
  <2>2. CASE Save(r)
    <3> DEFINE op == Head(run[r].todo)
    <3>1. \/ UNCHANGED sharedVars
          \/ Record([by |-> r, at |-> op.path, why |-> "saved again"])
      BY <2>2, Zenon DEF Save, Warn, SameShared
    <3> QED
      BY <1>1, <3>1, RecordKeepsTheLast DEF sharedVars
  <2>3. CASE ~Inject(r) /\ ~Save(r)
    <3>1. UNCHANGED <<dlog, history, cleared>>
      BY <1>2, <2>3, Zenon DEF Step, Begin, Render, LookUp, Store, Defined, Folder, SaveRaw,
         Write, SetMode, Publish, Finish, Compare, SameShared, sharedVars
    <3> QED
      BY <1>1, <3>1
  <2> QED
    BY <2>1, <2>2, <2>3
<1>3. CASE Snapshot
  BY <1>3, ClearKeepsTheLast DEF Snapshot
<1>4. CASE UNCHANGED vars
  BY <1>1, <1>4 DEF vars, sharedVars
<1> QED
  BY <1>2, <1>3, <1>4 DEF Next

LEMMA InitLogInv == Init => LogInv
<1> SUFFICES ASSUME Init PROVE LogInv
  OBVIOUS
<1>1. history = <<>> /\ dlog = <<>> /\ cleared = 0
  BY DEF Init, SharedInit
<1>2. <<>> \in Seq(ToSet(<<>>)) /\ Len(<<>>) = 0 /\ SubSeq(<<>>, 1, 0) = <<>>
  OBVIOUS
<1>3. Smaller(DLogMax, 0) = 0
  BY SharedAssumption DEF Smaller
<1> QED
  BY <1>1, <1>2, <1>3 DEF LogInv, HistoryIsKept, BufferHoldsTheLast

\* The package log holds the newest entries since it was last cleared, in
\* order and without a gap, whichever calls record at once (record,
\* go/dlog.go:62).
THEOREM TheLogIsTheLast == Spec => []BufferHoldsTheLast
<1>1. Init => LogInv
  BY InitLogInv
<1>2. LogInv /\ [Next]_vars => LogInv'
  BY StepLogInv
<1>3. LogInv => BufferHoldsTheLast
  BY DEF LogInv
<1> QED
  BY <1>1, <1>2, <1>3, PTL DEF Spec
-----------------------------------------------------------------------------
(* The record of a call. *)

\* The fields of a call that the proofs are about.
IsRun(x) ==
    {"pc", "render", "todo", "warnings", "log", "answers", "modes", "saved", "since", "before",
     "left", "drift"} \subseteq DOMAIN x

RunsOK == DOMAIN run = Runs /\ \A r \in Runs : IsRun(run[r])

\* What most steps leave of a call as it was.
SameLogs(x, y) == y.warnings = x.warnings /\ y.log = x.log
SameAnswers(x, y) == y.render = x.render /\ y.answers = x.answers

LEMMA SetPc ==
    ASSUME NEW x, IsRun(x), NEW a
    PROVE  LET y == [x EXCEPT !.pc = a]
           IN  IsRun(y) /\ y.pc = a /\ y.todo = x.todo /\ SameLogs(x, y) /\ SameAnswers(x, y)
BY DEF IsRun, SameLogs, SameAnswers

\* A step changes the record of its own call only.
LEMMA RunSet ==
    ASSUME RunsOK, NEW r \in Runs, NEW x, IsRun(x), Goes(r, x)
    PROVE  RunsOK' /\ run'[r] = x /\ \A s \in Runs \ {r} : run'[s] = run[s]
BY DEF RunsOK, Goes

-----------------------------------------------------------------------------
(* What each step does to the fields of its call. *)

\* A step of a call from one place to another, with what is left to do.
Moves(r, a, b, todo) ==
    /\ RunsOK' /\ \A s \in Runs \ {r} : run'[s] = run[s]
    /\ SameAnswers(run[r], run'[r])
    /\ run[r].pc = a /\ run'[r].pc = b /\ run'[r].todo = todo

\* One that leaves its logs, and what all calls share, as they were.
Plain(r, a, b, todo) ==
    Moves(r, a, b, todo) /\ SameLogs(run[r], run'[r]) /\ UNCHANGED sharedVars

\* One that warns.
Warns(r, a, b, todo, entry) ==
    /\ Moves(r, a, b, todo)
    /\ run'[r].warnings = Append(run[r].warnings, entry) /\ run'[r].log = run[r].log
    /\ entry.by = r /\ Record(entry) /\ UNCHANGED <<templates, tokens>>

\* A record that differs from that of a call in nothing else.
At(r, y, b, todo) ==
    /\ IsRun(y) /\ y.pc = b /\ y.todo = todo
    /\ SameLogs(run[r], y) /\ SameAnswers(run[r], y)

LEMMA PlainStep ==
    ASSUME RunsOK, NEW r \in Runs, NEW y, NEW b, NEW todo, At(r, y, b, todo), Goes(r, y), SameShared
    PROVE  Plain(r, run[r].pc, b, todo)
<1>1. RunsOK' /\ run'[r] = y /\ \A s \in Runs \ {r} : run'[s] = run[s]
  BY RunSet DEF At
<1> QED
  BY <1>1 DEF Plain, Moves, At, SameShared

LEMMA WarnStep ==
    ASSUME RunsOK, NEW r \in Runs, NEW x, NEW b, NEW todo, At(r, x, b, todo),
           NEW e, e.by = r, Warn(r, x, e)
    PROVE  Warns(r, run[r].pc, b, todo, e)
<1> DEFINE w == Append(x.warnings, e)
           y == [x EXCEPT !.warnings = w]
<1>1. Goes(r, y) /\ Record(e) /\ UNCHANGED <<templates, tokens>>
  BY Zenon DEF Warn
<1>2. IsRun(x)
  BY DEF At
<1> HIDE DEF w
<1>3. IsRun(y) /\ y.pc = x.pc /\ y.todo = x.todo /\ y.warnings = w /\ y.log = x.log
      /\ SameAnswers(x, y)
  BY <1>2 DEF IsRun, SameAnswers
<1> HIDE DEF y
<1>4. RunsOK' /\ run'[r] = y /\ \A s \in Runs \ {r} : run'[s] = run[s]
  BY <1>1, <1>3, RunSet
<1> QED
  BY <1>1, <1>3, <1>4 DEF Warns, Moves, At, SameLogs, SameAnswers, w

LEMMA BeginDoes ==
    ASSUME RunsOK, NEW r \in Runs, Begin(r)
    PROVE  /\ RunsOK' /\ \A s \in Runs \ {r} : run'[s] = run[s]
           /\ SameLogs(run[r], run'[r]) /\ run'[r].answers = run[r].answers
           /\ run[r].pc = "idle" /\ run'[r].pc = "define" /\ run'[r].todo = run[r].todo
           /\ run'[r].render = calls[r].render
<1> DEFINE c == {s \in Runs : run[s].pc \in Ended}
           d == vols[Target(r)]
           b == calls[r].render
           x == run[r]
           y == [x EXCEPT !.pc = "define", !.render = b, !.since = c, !.before = d]
<1>1. Goes(r, y) /\ x.pc = "idle"
  BY Zenon DEF Begin, Here
<1>2. IsRun(x)
  BY DEF RunsOK
<1> HIDE DEF c, d, b, x
<1>3. /\ IsRun(y) /\ y.pc = "define" /\ y.render = b /\ y.todo = x.todo
      /\ SameLogs(x, y) /\ y.answers = x.answers
  BY <1>2 DEF IsRun, SameLogs
<1> HIDE DEF y
<1>4. RunsOK' /\ run'[r] = y /\ \A s \in Runs \ {r} : run'[s] = run[s]
  BY <1>1, <1>3, RunSet
<1> QED
  BY <1>1, <1>3, <1>4 DEF b, x

\* The next thing to render is answered.
Answers(r, answer) ==
    /\ RunsOK' /\ \A s \in Runs \ {r} : run'[s] = run[s]
    /\ SameLogs(run[r], run'[r]) /\ run'[r].todo = run[r].todo
    /\ run'[r].render = Tail(run[r].render)
    /\ run'[r].answers = Append(run[r].answers, answer)

LEMMA AnsweredDoes ==
    ASSUME RunsOK, NEW r \in Runs, NEW e
    PROVE  LET y == Answered(r, e)
           IN  /\ IsRun(y) /\ y.pc = "define" /\ y.todo = run[r].todo /\ SameLogs(run[r], y)
               /\ y.render = Tail(run[r].render) /\ y.answers = Append(run[r].answers, e)
<1> DEFINE x == run[r]
           t == Tail(x.render)
           a == Append(x.answers, e)
           y == [x EXCEPT !.render = t, !.pc = "define", !.answers = a]
<1>1. IsRun(x)
  BY DEF RunsOK
<1>2. Answered(r, e) = y
  BY DEF Answered
<1> HIDE DEF x, t, a
<1>3. IsRun(y) /\ y.pc = "define" /\ y.render = t /\ y.todo = x.todo /\ SameLogs(x, y) /\ y.answers = a
  BY <1>1 DEF IsRun, SameLogs
<1> HIDE DEF y
<1> QED
  BY <1>2, <1>3 DEF x, t, a

LEMMA RenderDoes ==
    ASSUME RunsOK, NEW r \in Runs, Render(r)
    PROVE  LET spec == Head(run[r].render)
           IN  /\ run[r].pc = "define" /\ run[r].render # <<>> /\ spec.what = "text"
               /\ run'[r].pc \in {"define", "failed"}
               /\ templates' = Cached(spec)
               /\ Answers(r, Cached(spec)[KeyOf(spec)])
<1> DEFINE spec == Head(run[r].render)
           e == Cached(spec)[KeyOf(spec)]
           z == Answered(r, e)
           p == IF e.ok THEN "define" ELSE "failed"
           y == [z EXCEPT !.pc = p]
<1>1. /\ run[r].pc = "define" /\ run[r].render # <<>> /\ spec.what = "text"
      /\ templates' = Cached(spec) /\ Goes(r, y)
  BY Zenon DEF Render, Rendering, Here
<1>2. p \in {"define", "failed"}
  OBVIOUS
<1> HIDE DEF e, p
<1>3. /\ IsRun(z) /\ z.pc = "define" /\ z.todo = run[r].todo /\ SameLogs(run[r], z)
      /\ z.render = Tail(run[r].render) /\ z.answers = Append(run[r].answers, e)
  BY AnsweredDoes
<1> HIDE DEF z
<1>4. IsRun(y) /\ y.pc = p /\ y.todo = z.todo /\ SameLogs(z, y) /\ SameAnswers(z, y)
  BY <1>3, SetPc
<1> HIDE DEF y
<1>5. RunsOK' /\ run'[r] = y /\ \A s \in Runs \ {r} : run'[s] = run[s]
  BY <1>1, <1>4, RunSet
<1>6. Answers(r, e)
  BY <1>3, <1>4, <1>5 DEF Answers, SameLogs, SameAnswers
<1> QED
  BY <1>1, <1>2, <1>4, <1>5, <1>6 DEF e

LEMMA LookUpDoes ==
    ASSUME RunsOK, NEW r \in Runs, LookUp(r)
    PROVE  LET path == Head(run[r].render).path
           IN  /\ run[r].pc = "define" /\ run[r].render # <<>> /\ Head(run[r].render).what = "ref"
               /\ \/ path \in DOMAIN tokens /\ run'[r].pc = "define" /\ Answers(r, tokens[path])
                  \/ Plain(r, "define", "tokenize", run[r].todo)
<1> DEFINE path == Head(run[r].render).path
           e == tokens[path]
           z == Answered(r, e)
           x == run[r]
           y == [x EXCEPT !.pc = "tokenize"]
<1>1. /\ run[r].pc = "define" /\ run[r].render # <<>> /\ Head(run[r].render).what = "ref"
      /\ (path \in DOMAIN tokens /\ Goes(r, z)) \/ Goes(r, y)
      /\ SameShared
  BY Zenon DEF LookUp, Rendering, Here
<1>2. IsRun(x)
  BY DEF RunsOK
<1>3. /\ IsRun(z) /\ z.pc = "define" /\ z.todo = run[r].todo /\ SameLogs(run[r], z)
      /\ z.render = Tail(run[r].render) /\ z.answers = Append(run[r].answers, e)
  BY AnsweredDoes
<1> HIDE DEF e, z
<1>4. IsRun(y) /\ y.pc = "tokenize" /\ y.todo = x.todo /\ SameLogs(x, y) /\ SameAnswers(x, y)
  BY <1>2, SetPc
<1> HIDE DEF y
<1>5. CASE Goes(r, y)
  BY <1>1, <1>4, <1>5, PlainStep DEF At
<1>6. CASE path \in DOMAIN tokens /\ Goes(r, z)
  <2>1. RunsOK' /\ run'[r] = z /\ \A s \in Runs \ {r} : run'[s] = run[s]
    BY <1>3, <1>6, RunSet
  <2> QED
    BY <1>1, <1>3, <1>6, <2>1 DEF Answers, e
<1> QED
  BY <1>1, <1>5, <1>6

LEMMA StoreDoes ==
    ASSUME RunsOK, NEW r \in Runs, Store(r)
    PROVE  LET path == Head(run[r].render).path
           IN  /\ run[r].pc = "tokenize" /\ run'[r].pc = "define"
               /\ tokens' = Stored(Room(tokens, MaxTokens), path, Tokenize(path))
               /\ Answers(r, Tokenize(path))
<1> DEFINE path == Head(run[r].render).path
           e == Tokenize(path)
           z == Answered(r, e)
<1>1. /\ run[r].pc = "tokenize" /\ Goes(r, z)
      /\ tokens' = Stored(Room(tokens, MaxTokens), path, Tokenize(path))
  BY Zenon DEF Store, Here
<1>2. /\ IsRun(z) /\ z.pc = "define" /\ z.todo = run[r].todo /\ SameLogs(run[r], z)
      /\ z.render = Tail(run[r].render) /\ z.answers = Append(run[r].answers, e)
  BY AnsweredDoes
<1> HIDE DEF e, z
<1>3. RunsOK' /\ run'[r] = z /\ \A s \in Runs \ {r} : run'[s] = run[s]
  BY <1>1, <1>2, RunSet
<1> QED
  BY <1>1, <1>2, <1>3 DEF Answers, e

LEMMA DefinedDoes ==
    ASSUME RunsOK, NEW r \in Runs, Defined(r)
    PROVE  /\ run[r].render = <<>>
           /\ \/ Plain(r, "define", "failed", run[r].todo)
              \/ Plain(r, "define", "build", Planned(r))
<1> DEFINE x == run[r]
           t == Planned(r)
           y == [x EXCEPT !.pc = "build", !.todo = t]
           z == [x EXCEPT !.pc = "failed"]
<1>1. /\ x.pc = "define" /\ x.render = <<>> /\ (Goes(r, y) \/ Goes(r, z))
      /\ SameShared
  BY Zenon DEF Defined, Here, Fail
<1>2. IsRun(x)
  BY DEF RunsOK
<1>3. At(r, y, "build", t) /\ At(r, z, "failed", x.todo)
  <2> HIDE DEF t, x
  <2>1. /\ IsRun(y) /\ y.pc = "build" /\ y.todo = t /\ SameLogs(x, y) /\ SameAnswers(x, y)
        /\ IsRun(z) /\ z.pc = "failed" /\ z.todo = x.todo /\ SameLogs(x, z) /\ SameAnswers(x, z)
    BY <1>2 DEF IsRun, SameLogs, SameAnswers
  <2> QED
    BY <2>1 DEF At, x
<1> HIDE DEF y, z, t
<1>4. Plain(r, x.pc, "build", t) \/ Plain(r, x.pc, "failed", x.todo)
  BY <1>1, <1>3, PlainStep
<1>5. Plain(r, "define", "build", t) \/ Plain(r, "define", "failed", x.todo)
  BY <1>1, <1>4
<1> QED
  BY <1>1, <1>5, Zenon DEF t

LEMMA FolderDoes ==
    ASSUME RunsOK, NEW r \in Runs, Folder(r)
    PROVE  run[r].todo # <<>> /\ Plain(r, "build", "build", Tail(run[r].todo))
<1> DEFINE x == run[r]
           t == Tail(x.todo)
           y == [x EXCEPT !.todo = t]
<1>1. x.pc = "build" /\ x.todo # <<>> /\ Goes(r, y) /\ SameShared
  BY Zenon DEF Folder, Building, Here
<1>2. IsRun(x)
  BY DEF RunsOK
<1>3. At(r, y, "build", t)
  <2>1. x.pc = "build"
    BY <1>1
  <2> HIDE DEF t, x
  <2>2. IsRun(y) /\ y.pc = "build" /\ y.todo = t /\ SameLogs(x, y) /\ SameAnswers(x, y)
    BY <1>2, <2>1 DEF IsRun, SameLogs, SameAnswers
  <2> QED
    BY <2>2 DEF At, x
<1> HIDE DEF y, t
<1>4. Plain(r, x.pc, "build", t)
  BY <1>1, <1>3, PlainStep
<1> QED
  BY <1>1, <1>4 DEF t

LEMMA InjectDoes ==
    ASSUME RunsOK, NEW r \in Runs, Inject(r)
    PROVE  LET op == Head(run[r].todo)
               e == [by |-> r, at |-> op.path, why |-> "no markers"]
           IN  /\ run[r].todo # <<>>
               /\ \/ Plain(r, "build", "failed", run[r].todo)
                  \/ \E text : LET todo == <<[op EXCEPT !.act = "file", !.text = text]>> \o Rest(r)
                               IN  \/ Plain(r, "build", "build", todo)
                                   \/ Warns(r, "build", "build", todo, e)
<1> DEFINE x == run[r]
           op == Head(x.todo)
           e == [by |-> r, at |-> op.path, why |-> "no markers"]
           new(text) == <<[op EXCEPT !.act = "file", !.text = text]>> \o Rest(r)
           y(text) == [x EXCEPT !.todo = new(text)]
           z == [x EXCEPT !.pc = "failed"]
           t1 == Injected[TextAt(r, op.path)]
           t2 == TextAt(r, op.path)
<1>1. /\ x.pc = "build" /\ x.todo # <<>>
      /\ \/ Goes(r, z) /\ SameShared
         \/ Goes(r, y(t1)) /\ SameShared
         \/ Warn(r, y(t2), e)
  BY Zenon DEF Inject, Building, Here, Fail
<1>2. IsRun(x)
  BY DEF RunsOK
<1>3. At(r, z, "failed", x.todo)
  <2> HIDE DEF x
  <2>1. IsRun(z) /\ z.pc = "failed" /\ z.todo = x.todo /\ SameLogs(x, z) /\ SameAnswers(x, z)
    BY <1>2 DEF IsRun, SameLogs, SameAnswers
  <2> QED
    BY <2>1 DEF At, x
<1>4. ASSUME NEW text PROVE At(r, y(text), "build", new(text))
  <2> DEFINE n == new(text)
             yy == [x EXCEPT !.todo = n]
  <2>1. x.pc = "build"
    BY <1>1
  <2> HIDE DEF n, x
  <2>2. IsRun(yy) /\ yy.pc = "build" /\ yy.todo = n /\ SameLogs(x, yy) /\ SameAnswers(x, yy)
    BY <1>2, <2>1 DEF IsRun, SameLogs, SameAnswers
  <2> QED
    BY <2>2 DEF At, x, n
<1>5. e.by = r
  OBVIOUS
<1> HIDE DEF y, z, t1, t2, e, op, new
<1>6. CASE Goes(r, z) /\ SameShared
  BY <1>1, <1>3, <1>6, PlainStep
<1>7. CASE Goes(r, y(t1)) /\ SameShared
  <2>1. Plain(r, "build", "build", new(t1))
    BY <1>1, <1>4, <1>7, PlainStep
  <2> QED
    BY <1>1, <2>1 DEF new, op
<1>8. CASE Warn(r, y(t2), e)
  <2>1. Warns(r, "build", "build", new(t2), e)
    BY <1>1, <1>4, <1>5, <1>8, WarnStep
  <2> QED
    BY <1>1, <2>1 DEF new, op, e
<1> QED
  BY <1>1, <1>6, <1>7, <1>8

\* What is left to do after a save that finds the text in place.
LEMMA SaveDoes ==
    ASSUME RunsOK, NEW r \in Runs, Save(r)
    PROVE  LET op == Head(run[r].todo)
               e == [by |-> r, at |-> op.path, why |-> "saved again"]
           IN  /\ run[r].todo # <<>> /\ op.act = "file"
               /\ \E todo \in {Baseline(r, op) \o Rest(r), Rest(r)} :
                     \/ Plain(r, "build", "build", todo) \/ Warns(r, "build", "build", todo, e)
                  \/ Plain(r, "build", "write", run[r].todo)
                  \/ Warns(r, "build", "write", run[r].todo, e)
<1> DEFINE x == run[r]
           op == Head(x.todo)
           e == [by |-> r, at |-> op.path, why |-> "saved again"]
           s == x.saved \cup {op.path}
           b == [x EXCEPT !.saved = s]
           t1 == Baseline(r, op) \o Rest(r)
           m == IF Differs(r, op.path, op.mode) THEN Noted(r, b.modes, op.path, op.mode) ELSE b.modes
           y1 == [b EXCEPT !.todo = t1, !.modes = m]
           y2 == [b EXCEPT !.todo = Rest(r)]
           y3 == [b EXCEPT !.pc = "write"]
           next == IF Unchanged(r, op) THEN y1 ELSE IF Opts(r).dry THEN y2 ELSE y3
<1>1. /\ x.pc = "build" /\ x.todo # <<>> /\ op.act = "file"
      /\ IF op.path \in x.saved THEN Warn(r, next, e) ELSE Goes(r, next) /\ SameShared
  BY Zenon DEF Save, Building, Here
<1>2. IsRun(x)
  BY DEF RunsOK
<1>3. IsRun(b) /\ b.pc = "build" /\ b.todo = x.todo /\ SameLogs(x, b) /\ SameAnswers(x, b)
  <2>1. x.pc = "build"
    BY <1>1
  <2> HIDE DEF s, x
  <2> QED
    BY <1>2, <2>1 DEF IsRun, SameLogs, SameAnswers
<1>4. At(r, y1, "build", t1)
  <2> HIDE DEF t1, m, b
  <2>1. IsRun(y1) /\ y1.pc = b.pc /\ y1.todo = t1 /\ SameLogs(b, y1) /\ SameAnswers(b, y1)
    BY <1>3 DEF IsRun, SameLogs, SameAnswers
  <2> QED
    BY <1>3, <2>1 DEF At, SameLogs, SameAnswers
<1>5. At(r, y2, "build", Rest(r))
  <2> HIDE DEF b
  <2>1. IsRun(y2) /\ y2.pc = b.pc /\ y2.todo = Rest(r) /\ SameLogs(b, y2) /\ SameAnswers(b, y2)
    BY <1>3 DEF IsRun, SameLogs, SameAnswers
  <2> QED
    BY <1>3, <2>1 DEF At, SameLogs, SameAnswers
<1>6. At(r, y3, "write", x.todo)
  <2> HIDE DEF b
  <2>1. IsRun(y3) /\ y3.pc = "write" /\ y3.todo = b.todo /\ SameLogs(b, y3) /\ SameAnswers(b, y3)
    BY <1>3 DEF IsRun, SameLogs, SameAnswers
  <2> QED
    BY <1>3, <2>1 DEF At, SameLogs, SameAnswers
<1>7. e.by = r
  OBVIOUS
<1> HIDE DEF y1, y2, y3, t1, e, op
<1>8. next \in {y1, y2, y3}
  OBVIOUS
<1>9. Warn(r, next, e) \/ (Goes(r, next) /\ SameShared)
  BY <1>1, Zenon
<1> HIDE DEF next
<1>10. ASSUME NEW c, NEW todo, At(r, next, c, todo)
       PROVE  Plain(r, "build", c, todo) \/ Warns(r, "build", c, todo, e)
  BY <1>1, <1>7, <1>9, <1>10, PlainStep, WarnStep
<1>11. \E todo \in {t1, Rest(r)} : \/ Plain(r, "build", "build", todo)
                                  \/ Warns(r, "build", "build", todo, e)
       \/ Plain(r, "build", "write", x.todo) \/ Warns(r, "build", "write", x.todo, e)
  BY <1>4, <1>5, <1>6, <1>8, <1>10
<1> QED
  BY <1>1, <1>11, Zenon DEF e, op, t1

LEMMA SaveRawDoes ==
    ASSUME RunsOK, NEW r \in Runs, SaveRaw(r)
    PROVE  /\ run[r].todo # <<>>
           /\ \/ Plain(r, "build", "build", Tail(run[r].todo))
              \/ Plain(r, "build", "write", run[r].todo)
<1> DEFINE x == run[r]
           t == Tail(x.todo)
           y == [x EXCEPT !.todo = t]
           z == [x EXCEPT !.pc = "write"]
<1>1. x.pc = "build" /\ x.todo # <<>> /\ (Goes(r, y) \/ Goes(r, z)) /\ SameShared
  BY Zenon DEF SaveRaw, Building, Here
<1>2. IsRun(x)
  BY DEF RunsOK
<1>3. At(r, y, "build", t) /\ At(r, z, "write", x.todo)
  <2>1. x.pc = "build"
    BY <1>1
  <2> HIDE DEF t, x
  <2>2. /\ IsRun(y) /\ y.pc = "build" /\ y.todo = t /\ SameLogs(x, y) /\ SameAnswers(x, y)
        /\ IsRun(z) /\ z.pc = "write" /\ z.todo = x.todo /\ SameLogs(x, z) /\ SameAnswers(x, z)
    BY <1>2, <2>1 DEF IsRun, SameLogs, SameAnswers
  <2> QED
    BY <2>2 DEF At, x
<1> HIDE DEF y, z, t
<1>4. Plain(r, x.pc, "build", t) \/ Plain(r, x.pc, "write", x.todo)
  BY <1>1, <1>3, PlainStep
<1> QED
  BY <1>1, <1>4 DEF t

LEMMA WriteDoes ==
    ASSUME RunsOK, NEW r \in Runs, Write(r)
    PROVE  Plain(r, "write", "mode", run[r].todo)
<1> DEFINE x == run[r]
           y == [x EXCEPT !.pc = "mode"]
<1>1. x.pc = "write" /\ Goes(r, y) /\ SameShared
  BY Zenon DEF Write, Here
<1>2. IsRun(x)
  BY DEF RunsOK
<1>3. At(r, y, "mode", x.todo)
  <2> HIDE DEF x
  <2>1. IsRun(y) /\ y.pc = "mode" /\ y.todo = x.todo /\ SameLogs(x, y) /\ SameAnswers(x, y)
    BY <1>2 DEF IsRun, SameLogs, SameAnswers
  <2> QED
    BY <2>1 DEF At, x
<1> HIDE DEF y
<1> QED
  BY <1>1, <1>3, PlainStep

LEMMA SetModeDoes ==
    ASSUME RunsOK, NEW r \in Runs, SetMode(r)
    PROVE  Plain(r, "mode", "rename", run[r].todo)
<1> DEFINE x == run[r]
           m == Noted(r, x.modes, TempOf(r, Writing(r).path), ModeFor(r))
           y == [x EXCEPT !.pc = "rename", !.modes = m]
<1>1. x.pc = "mode" /\ Goes(r, y) /\ SameShared
  BY Zenon DEF SetMode, Here
<1>2. IsRun(x)
  BY DEF RunsOK
<1>3. At(r, y, "rename", x.todo)
  <2> HIDE DEF x, m
  <2>1. IsRun(y) /\ y.pc = "rename" /\ y.todo = x.todo /\ SameLogs(x, y) /\ SameAnswers(x, y)
    BY <1>2 DEF IsRun, SameLogs, SameAnswers
  <2> QED
    BY <2>1 DEF At, x
<1> HIDE DEF y
<1> QED
  BY <1>1, <1>3, PlainStep

LEMMA PublishDoes ==
    ASSUME RunsOK, NEW r \in Runs, Publish(r)
    PROVE  \E todo \in {Baseline(r, Writing(r)) \o Rest(r), <<>> \o Rest(r)} :
              Plain(r, "rename", "build", todo)
<1> DEFINE x == run[r]
           op == Writing(r)
           m == Carried(x.modes, TempOf(r, op.path), op.path)
           t == (IF op.act = "file" THEN Baseline(r, op) ELSE <<>>) \o Rest(r)
           y == [x EXCEPT !.pc = "build", !.modes = m, !.todo = t]
<1>1. x.pc = "rename" /\ Goes(r, y) /\ SameShared
  BY Zenon DEF Publish, Here
<1>2. IsRun(x)
  BY DEF RunsOK
<1>3. At(r, y, "build", t)
  <2> HIDE DEF x, m, t
  <2>1. IsRun(y) /\ y.pc = "build" /\ y.todo = t /\ SameLogs(x, y) /\ SameAnswers(x, y)
    BY <1>2 DEF IsRun, SameLogs, SameAnswers
  <2> QED
    BY <2>1 DEF At, x
<1> HIDE DEF y
<1>4. Plain(r, "rename", "build", t)
  BY <1>1, <1>3, PlainStep
<1>5. t \in {Baseline(r, Writing(r)) \o Rest(r), <<>> \o Rest(r)}
  OBVIOUS
<1> QED
  BY <1>4, <1>5

LEMMA FinishDoes ==
    ASSUME RunsOK, NEW r \in Runs, Finish(r)
    PROVE  \E b \in {"compare", "done"} :
              Moves(r, "build", b, run[r].todo) /\ UNCHANGED sharedVars
              /\ run'[r].warnings = run[r].warnings /\ run'[r].log = run[r].warnings
<1> DEFINE x == run[r]
           b == IF IsCheck(r) THEN "compare" ELSE "done"
           l == IF IsCheck(r) THEN Output(r) ELSE {}
           g == x.warnings
           y == [x EXCEPT !.log = g, !.pc = b, !.left = l]
<1>1. x.pc = "build" /\ Goes(r, y) /\ SameShared
  BY Zenon DEF Finish, Here, Replayed
<1>2. IsRun(x)
  BY DEF RunsOK
<1>3. b \in {"compare", "done"}
  OBVIOUS
<1>4. IsRun(y) /\ y.pc = b /\ y.todo = x.todo /\ y.warnings = x.warnings /\ y.log = g /\ SameAnswers(x, y)
  <2> HIDE DEF x, b, g, l
  <2> QED
    BY <1>2 DEF IsRun, SameAnswers
<1> HIDE DEF y, b
<1>5. RunsOK' /\ run'[r] = y /\ \A s \in Runs \ {r} : run'[s] = run[s]
  BY <1>1, <1>4, RunSet
<1> QED
  BY <1>1, <1>3, <1>4, <1>5 DEF Moves, SameShared

LEMMA CompareDoes ==
    ASSUME RunsOK, NEW r \in Runs, Compare(r)
    PROVE  \E b \in {"compare", "done"} : Plain(r, "compare", b, run[r].todo)
<1> DEFINE x == run[r]
           path == CHOOSE p \in x.left : TRUE
           l == x.left \ {path}
           d == x.drift \cup Difference(r, path)
           y == [x EXCEPT !.left = l, !.drift = d]
           z == [x EXCEPT !.pc = "done"]
<1>1. x.pc = "compare" /\ (Goes(r, y) \/ Goes(r, z)) /\ SameShared
  BY Zenon DEF Compare, Here
<1>2. IsRun(x)
  BY DEF RunsOK
<1>3. At(r, y, "compare", x.todo) /\ At(r, z, "done", x.todo)
  <2>1. x.pc = "compare"
    BY <1>1
  <2> HIDE DEF x, l, d
  <2>2. /\ IsRun(y) /\ y.pc = "compare" /\ y.todo = x.todo /\ SameLogs(x, y) /\ SameAnswers(x, y)
        /\ IsRun(z) /\ z.pc = "done" /\ z.todo = x.todo /\ SameLogs(x, z) /\ SameAnswers(x, z)
    BY <1>2, <2>1 DEF IsRun, SameLogs, SameAnswers
  <2> QED
    BY <2>2 DEF At, x
<1> HIDE DEF y, z
<1> QED
  BY <1>1, <1>3, PlainStep

-----------------------------------------------------------------------------
(* A call replays its own warnings. *)

\* What is recorded for another call leaves the entries of a call as they
\* were.
LEMMA OthersRecord ==
    ASSUME NEW S, NEW h \in Seq(S), NEW e \in S, NEW r, e.by # r,
           NEW log, IsOwnOf(log, h, r)
    PROVE  IsOwnOf(log, Append(h, e), r)
<1> DEFINE g == Append(h, e)
<1>1. g \in Seq(S) /\ Len(g) = Len(h) + 1 /\ g[Len(h) + 1] = e /\ \A i \in 1..Len(h) : g[i] = h[i]
  BY AppendProperties
<1>2. DOMAIN g = 1..(Len(h) + 1) /\ DOMAIN h = 1..Len(h) /\ Len(h) \in Nat
  BY <1>1
<1> HIDE DEF g
<1>3. EntriesOf(g, r) = EntriesOf(h, r)
  BY <1>1, <1>2 DEF EntriesOf
<1>4. \A i \in EntriesOf(h, r) : g[i] = h[i]
  BY <1>1, <1>2 DEF EntriesOf
<1> QED
  BY <1>3, <1>4 DEF IsOwnOf, Place, g

\* An entry of a call is the last of its own.
LEMMA OwnRecord ==
    ASSUME NEW S, NEW h \in Seq(S), NEW e \in S, NEW r, e.by = r,
           NEW log \in Seq(S), IsOwnOf(log, h, r)
    PROVE  IsOwnOf(Append(log, e), Append(h, e), r)
<1> DEFINE g == Append(h, e)
           n == Len(h) + 1
           new == Append(log, e)
<1>1. g \in Seq(S) /\ Len(g) = n /\ g[n] = e /\ \A i \in 1..Len(h) : g[i] = h[i]
  BY AppendProperties
<1>2. DOMAIN g = 1..n /\ DOMAIN h = 1..Len(h) /\ Len(h) \in Nat /\ n \in Nat
  BY <1>1
<1>3. /\ new \in Seq(S) /\ Len(new) = Len(log) + 1 /\ new[Len(log) + 1] = e
      /\ \A k \in 1..Len(log) : new[k] = log[k]
  BY AppendProperties
<1>4. n \notin DOMAIN h /\ \A i \in DOMAIN h : i < n
  BY <1>2
<1> HIDE DEF g, new
<1>5. EntriesOf(g, r) = EntriesOf(h, r) \cup {n} /\ n \notin EntriesOf(h, r)
  BY <1>1, <1>2, <1>4 DEF EntriesOf
<1>6. IsFiniteSet(EntriesOf(h, r)) /\ Cardinality(EntriesOf(h, r)) = Len(log)
  <2>1. IsFiniteSet(1..Len(h))
    BY <1>2, FS_Interval
  <2>2. EntriesOf(h, r) \in SUBSET (1..Len(h))
    BY <1>2 DEF EntriesOf
  <2> QED
    BY <2>1, <2>2, FS_Subset DEF IsOwnOf
<1>7. Cardinality(EntriesOf(g, r)) = Len(log) + 1
  BY <1>5, <1>6, FS_AddElement
<1>8. Len(log) \in Nat
  OBVIOUS
<1>9. ASSUME NEW i \in EntriesOf(g, r) PROVE new[Place(g, r, i)] = g[i]
  <2>1. CASE i = n
    <3>1. {j \in EntriesOf(g, r) : j <= n} = EntriesOf(g, r)
      <4>1. \A j \in EntriesOf(g, r) : j <= n
        BY <1>2 DEF EntriesOf
      <4> QED
        BY <4>1
    <3> QED
      BY <1>1, <1>3, <1>7, <2>1, <3>1 DEF Place
  <2>2. CASE i # n
    <3>1. i \in EntriesOf(h, r) /\ i < n /\ i \in Nat
      BY <1>2, <1>4, <1>5, <2>2 DEF EntriesOf
    <3> DEFINE upto == {j \in EntriesOf(h, r) : j <= i}
    <3>2. {j \in EntriesOf(g, r) : j <= i} = upto
      BY <1>2, <1>5, <3>1
    <3>3. upto \in SUBSET EntriesOf(h, r) /\ upto # {}
      BY <3>1
    <3> HIDE DEF upto
    <3>4. IsFiniteSet(upto) /\ Cardinality(upto) <= Len(log)
      BY <1>6, <3>3, FS_Subset
    <3>5. Cardinality(upto) \in Nat /\ Cardinality(upto) # 0
      BY <3>3, <3>4, FS_CardinalityType, FS_EmptySet
    <3>6. Cardinality(upto) \in 1..Len(log)
      BY <1>8, <3>4, <3>5
    <3>7. new[Cardinality(upto)] = log[Cardinality(upto)]
      BY <1>3, <3>6
    <3>8. log[Cardinality(upto)] = h[i]
      BY <3>1 DEF IsOwnOf, Place, upto
    <3>9. g[i] = h[i]
      BY <1>1, <1>2, <3>1 DEF EntriesOf
    <3> QED
      BY <3>2, <3>7, <3>8, <3>9 DEF Place
  <2> QED
    BY <2>1, <2>2
<1> QED
  BY <1>3, <1>7, <1>9 DEF IsOwnOf, g, new

Closed == {"done", "compare"}

\* A call keeps every warning it has raised, and hands them out at its end.
WarningInv ==
    /\ RunsOK /\ history \in Seq(ToSet(history))
    /\ \A r \in Runs :
          /\ run[r].warnings \in Seq(ToSet(history)) /\ IsOwnOf(run[r].warnings, history, r)
          /\ run[r].pc \in Closed => run[r].log = run[r].warnings
          /\ run[r].pc \notin Closed => run[r].log = <<>>

\* What a step does to the logs of its call.
LEMMA StepLogs ==
    ASSUME RunsOK, NEW r \in Runs, Step(r)
    PROVE  /\ RunsOK' /\ \A s \in Runs \ {r} : run'[s] = run[s]
           /\ \/ /\ history' = history /\ SameLogs(run[r], run'[r])
                 /\ run[r].pc \in Closed <=> run'[r].pc \in Closed
              \/ /\ history' = history /\ run'[r].pc \in Closed
                 /\ run'[r].log = run[r].warnings /\ run'[r].warnings = run[r].warnings
              \/ /\ run[r].pc \notin Closed /\ run'[r].pc \notin Closed
                 /\ \E e : /\ e.by = r /\ history' = Append(history, e)
                          /\ run'[r].warnings = Append(run[r].warnings, e)
                          /\ run'[r].log = run[r].log
<1>1. ASSUME NEW a, NEW b, NEW todo, Plain(r, a, b, todo), a \in Closed <=> b \in Closed
      PROVE  /\ RunsOK' /\ \A s \in Runs \ {r} : run'[s] = run[s]
             /\ history' = history /\ SameLogs(run[r], run'[r])
             /\ run[r].pc \in Closed <=> run'[r].pc \in Closed
  BY <1>1 DEF Plain, Moves, sharedVars
<1>2. ASSUME NEW a, NEW b, NEW todo, NEW e, Warns(r, a, b, todo, e), a \notin Closed, b \notin Closed
      PROVE  /\ RunsOK' /\ \A s \in Runs \ {r} : run'[s] = run[s]
             /\ run[r].pc \notin Closed /\ run'[r].pc \notin Closed
             /\ e.by = r /\ history' = Append(history, e)
             /\ run'[r].warnings = Append(run[r].warnings, e) /\ run'[r].log = run[r].log
  BY <1>2 DEF Warns, Moves, Record
<1>3. CASE Begin(r)
  <2>1. history' = history
    BY <1>3 DEF Begin, SameShared, sharedVars
  <2> QED
    BY <1>3, <2>1, BeginDoes DEF Closed
<1>4. CASE Render(r)
  <2>1. history' = history
    BY <1>4 DEF Render
  <2> QED
    BY <1>4, <2>1, RenderDoes DEF Closed, Answers
<1>5. CASE LookUp(r)
  <2>1. history' = history
    BY <1>5 DEF LookUp, SameShared, sharedVars
  <2>2. CASE Plain(r, "define", "tokenize", run[r].todo)
    BY <1>1, <2>2 DEF Closed
  <2> QED
    BY <1>5, <2>1, <2>2, LookUpDoes DEF Closed, Answers
<1>6. CASE Store(r)
  <2>1. history' = history
    BY <1>6 DEF Store
  <2> QED
    BY <1>6, <2>1, StoreDoes DEF Closed, Answers
<1>7. CASE Defined(r)
  <2>1. \E b \in {"failed", "build"} : \E todo : Plain(r, "define", b, todo)
    BY <1>7, DefinedDoes, Zenon
  <2> QED
    BY <1>1, <2>1 DEF Closed
<1>8. CASE Folder(r)
  BY <1>1, <1>8, FolderDoes DEF Closed
<1>9. CASE Inject(r)
  <2>1. \E b \in {"failed", "build"} : \E todo, e : Plain(r, "build", b, todo) \/ Warns(r, "build", b, todo, e)
    BY <1>9, InjectDoes, Zenon
  <2> QED
    BY <1>1, <1>2, <2>1 DEF Closed
<1>10. CASE Save(r)
  <2>1. \E b \in {"write", "build"} : \E todo, e : Plain(r, "build", b, todo) \/ Warns(r, "build", b, todo, e)
    BY <1>10, SaveDoes, Zenon
  <2> QED
    BY <1>1, <1>2, <2>1 DEF Closed
<1>11. CASE SaveRaw(r)
  BY <1>1, <1>11, SaveRawDoes DEF Closed
<1>12. CASE Write(r)
  BY <1>1, <1>12, WriteDoes DEF Closed
<1>13. CASE SetMode(r)
  BY <1>1, <1>13, SetModeDoes DEF Closed
<1>14. CASE Publish(r)
  <2>1. \E todo : Plain(r, "rename", "build", todo)
    BY <1>14, PublishDoes, Zenon
  <2> QED
    BY <1>1, <2>1 DEF Closed
<1>15. CASE Finish(r)
  BY <1>15, FinishDoes DEF Closed, Moves, sharedVars
<1>16. CASE Compare(r)
  <2>1. \E b \in {"compare", "done"} : \E todo : Plain(r, "compare", b, todo)
    BY <1>16, CompareDoes, Zenon
  <2> QED
    BY <1>1, <2>1 DEF Closed
<1> QED
  BY <1>3, <1>4, <1>5, <1>6, <1>7, <1>8, <1>9, <1>10, <1>11, <1>12, <1>13, <1>14, <1>15, <1>16 DEF Step

LEMMA StepWarningInv == WarningInv /\ [Next]_vars => WarningInv'
<1> SUFFICES ASSUME WarningInv, [Next]_vars PROVE WarningInv'
  OBVIOUS
<1>1. CASE UNCHANGED <<run, history>>
  BY <1>1, Zenon DEF WarningInv, RunsOK
<1>2. ASSUME NEW r \in Runs, Step(r) PROVE WarningInv'
  <2>1. RunsOK
    BY DEF WarningInv
  <2>2. RunsOK' /\ \A s \in Runs \ {r} : run'[s] = run[s]
    BY <1>2, <2>1, StepLogs
  <2>3. CASE history' = history
    <3>1. \/ /\ SameLogs(run[r], run'[r])
             /\ run[r].pc \in Closed <=> run'[r].pc \in Closed
          \/ /\ run'[r].pc \in Closed
             /\ run'[r].log = run[r].warnings /\ run'[r].warnings = run[r].warnings
          \/ \E e : history' = Append(history, e)
      BY <1>2, <2>1, StepLogs, Zenon
    <3>2. ~ \E e : history' = Append(history, e)
      <4> SUFFICES ASSUME NEW e, history' = Append(history, e) PROVE FALSE
        OBVIOUS
      <4> DEFINE S == ToSet(history) \cup {e}
      <4>1. history \in Seq(ToSet(history))
        BY DEF WarningInv
      <4>2. history \in Seq(S) /\ e \in S
        BY <4>1, SeqMonotonic
      <4> HIDE DEF S
      <4>3. Len(Append(history, e)) = Len(history) + 1 /\ Len(history) \in Nat
        BY <4>2, AppendProperties
      <4> QED
        BY <2>3, <4>3
    <3>3. run'[r].warnings = run[r].warnings
      BY <3>1, <3>2 DEF SameLogs
    <3>4. run'[r].pc \in Closed => run'[r].log = run'[r].warnings
      BY <3>1, <3>2 DEF SameLogs, WarningInv
    <3>5. run'[r].pc \notin Closed => run'[r].log = <<>>
      BY <3>1, <3>2 DEF SameLogs, WarningInv
    <3>6. ASSUME NEW s \in Runs
          PROVE  /\ run'[s].warnings \in Seq(ToSet(history)) /\ IsOwnOf(run'[s].warnings, history, s)
                 /\ run'[s].pc \in Closed => run'[s].log = run'[s].warnings
                 /\ run'[s].pc \notin Closed => run'[s].log = <<>>
      BY <2>2, <3>3, <3>4, <3>5 DEF WarningInv
    <3>7. history \in Seq(ToSet(history))
      BY DEF WarningInv
    <3> QED
      BY <2>2, <2>3, <3>6, <3>7 DEF WarningInv
  <2>4. CASE history' # history
    <3>1. PICK e : /\ e.by = r /\ history' = Append(history, e)
                   /\ run'[r].warnings = Append(run[r].warnings, e) /\ run'[r].log = run[r].log
                   /\ run[r].pc \notin Closed /\ run'[r].pc \notin Closed
      BY <1>2, <2>1, <2>4, StepLogs, Zenon
    <3> DEFINE S == ToSet(history) \cup {e}
    <3>2. /\ history \in Seq(ToSet(history))
          /\ \A s \in Runs : run[s].warnings \in Seq(ToSet(history))
          /\ \A s \in Runs : IsOwnOf(run[s].warnings, history, s)
      BY DEF WarningInv
    <3>3. ToSet(history') = S
      <4>1. history \in Seq(S) /\ e \in S /\ Len(history) \in Nat
        BY <3>2, SeqMonotonic
      <4>2. /\ Len(history') = Len(history) + 1 /\ history'[Len(history) + 1] = e
            /\ \A i \in 1..Len(history) : history'[i] = history[i]
            /\ DOMAIN history' = 1..(Len(history) + 1) /\ DOMAIN history = 1..Len(history)
        BY <3>1, <4>1, AppendProperties
      <4> QED
        BY <4>1, <4>2 DEF ToSet
    <3>4. history \in Seq(S) /\ e \in S /\ history' \in Seq(S)
      BY <3>1, <3>2, SeqMonotonic
    <3>5. \A s \in Runs : run[s].warnings \in Seq(S)
      BY <3>2, SeqMonotonic
    <3> HIDE DEF S
    <3>6. run'[r].warnings \in Seq(S) /\ IsOwnOf(run'[r].warnings, history', r)
      <4>1. IsOwnOf(Append(run[r].warnings, e), Append(history, e), r)
        BY <3>1, <3>2, <3>4, <3>5, OwnRecord
      <4> QED
        BY <3>1, <3>4, <3>5, <4>1
    <3>7. ASSUME NEW s \in Runs, s # r
          PROVE  IsOwnOf(run[s].warnings, history', s)
      <4>1. e.by # s
        BY <3>1, <3>7
      <4>2. IsOwnOf(run[s].warnings, Append(history, e), s)
        BY <3>2, <3>4, <4>1, OthersRecord
      <4> QED
        BY <3>1, <4>2
    <3>8. run[r].log = <<>>
      BY <3>1 DEF WarningInv
    <3>9. ASSUME NEW s \in Runs
          PROVE  /\ run'[s].warnings \in Seq(S) /\ IsOwnOf(run'[s].warnings, history', s)
                 /\ run'[s].pc \in Closed => run'[s].log = run'[s].warnings
                 /\ run'[s].pc \notin Closed => run'[s].log = <<>>
      <4>1. CASE s = r
        BY <3>1, <3>6, <3>8, <4>1
      <4>2. CASE s # r
        BY <2>2, <3>5, <3>7, <4>2 DEF WarningInv
      <4> QED
        BY <4>1, <4>2
    <3> QED
      BY <2>2, <3>3, <3>4, <3>9 DEF WarningInv
  <2> QED
    BY <2>3, <2>4
<1>3. CASE Snapshot
  BY <1>1, <1>3 DEF Snapshot, ClearLog
<1>4. CASE UNCHANGED vars
  BY <1>1, <1>4 DEF vars, sharedVars
<1> QED
  BY <1>2, <1>3, <1>4 DEF Next

\* A call that succeeded has replayed the warnings it raised, all of them, in
\* order and no other's, whatever else is recorded or cleared in between
\* (replayWarnings, go/jostraca.go:114).
THEOREM WarningsStayWithTheirCall == Spec => []WarningsAreOwn
<1>1. Init => WarningInv
  <2> SUFFICES ASSUME Init PROVE WarningInv
    OBVIOUS
  <2>1. history = <<>> /\ run = [r \in Runs |-> Idle]
    BY DEF Init, SharedInit
  <2>2. <<>> \in Seq(ToSet(<<>>)) /\ Len(<<>>) = 0
    OBVIOUS
  <2>3. \A r : IsOwnOf(<<>>, <<>>, r)
    <3>1. \A r : EntriesOf(<<>>, r) = {}
      BY DEF EntriesOf
    <3> QED
      BY <2>2, <3>1, FS_EmptySet DEF IsOwnOf
  <2>4. IsRun(Idle) /\ Idle.pc = "idle" /\ Idle.log = <<>> /\ Idle.warnings = <<>>
    BY DEF Idle, IsRun
  <2> QED
    BY <2>1, <2>2, <2>3, <2>4 DEF WarningInv, RunsOK, Closed
<1>2. WarningInv /\ [Next]_vars => WarningInv'
  BY StepWarningInv
<1>3. WarningInv => WarningsAreOwn
  BY DEF WarningInv, WarningsAreOwn, Closed
<1> QED
  BY <1>1, <1>2, <1>3, PTL DEF Spec

-----------------------------------------------------------------------------
(* An answer is what its text or its path gives by itself. *)

\* The texts that the calls of a scenario render.
Texts == {t \in UNION {ToSet(s.calls[r].render) : s \in Scenarios, r \in Runs} : t.what = "text"}

\* Two texts of one key are compiled to one expression.  A ref or a
\* replacement that is empty, or that holds a NUL, can break it.
KeysTellTextsApart == \A t, u \in Texts : KeyOf(t) = KeyOf(u) => Compile(t) = Compile(u)

\* The answer that an item asks for.
Answer(item) == IF item.what = "text" THEN Compile(item) ELSE Tokenize(item.path)

\* What has been rendered, and what is left of it.
IsRendering(all, answers, left) ==
    /\ answers \in Seq(ToSet(answers)) /\ left \in Seq(ToSet(all))
    /\ Len(answers) + Len(left) = Len(all)
    /\ \A k \in 1..Len(left) : left[k] = all[Len(answers) + k]
    /\ \A k \in 1..Len(answers) : answers[k] = Answer(all[k])

TemplatesOK == \A key \in DOMAIN templates :
                  \E t \in Texts : key = KeyOf(t) /\ templates[key] = Compile(t)

TokensOK == \A path \in DOMAIN tokens : tokens[path] = Tokenize(path)

AnswerInv ==
    /\ RunsOK /\ TemplatesOK /\ TokensOK
    /\ \E s \in Scenarios : calls = s.calls
    /\ \A r \in Runs :
          /\ run[r].pc = "idle" => run[r].answers = <<>>
          /\ run[r].pc # "idle" => IsRendering(calls[r].render, run[r].answers, run[r].render)
          /\ run[r].pc = "tokenize" => run[r].render # <<>> /\ Head(run[r].render).what = "ref"

\* One more answer.
LEMMA NextAnswer ==
    ASSUME NEW all, all \in Seq(ToSet(all)), NEW answers, NEW left,
           IsRendering(all, answers, left), left # <<>>,
           NEW a, a = Answer(Head(left))
    PROVE  IsRendering(all, Append(answers, a), Tail(left))
<1> DEFINE S == ToSet(answers) \cup {a}
           new == Append(answers, a)
           rest == Tail(left)
           n == Len(answers)
<1>1. /\ answers \in Seq(ToSet(answers)) /\ left \in Seq(ToSet(all)) /\ n + Len(left) = Len(all)
      /\ \A k \in 1..Len(left) : left[k] = all[n + k]
      /\ \A k \in 1..n : answers[k] = Answer(all[k])
  BY DEF IsRendering
<1>2. answers \in Seq(S) /\ a \in S
  BY <1>1, SeqMonotonic
<1> HIDE DEF S
<1>3. /\ new \in Seq(S) /\ Len(new) = n + 1 /\ new[n + 1] = a /\ \A k \in 1..n : new[k] = answers[k]
      /\ n \in Nat
  BY <1>2, AppendProperties
<1>4. /\ rest \in Seq(ToSet(all)) /\ Len(rest) = Len(left) - 1 /\ Len(left) \in Nat \ {0}
      /\ \A k \in 1..(Len(left) - 1) : rest[k] = left[k + 1]
  BY <1>1, HeadTailProperties
<1>5. Head(left) = all[n + 1]
  BY <1>1, <1>4
<1> HIDE DEF new, rest
<1>6. new \in Seq(ToSet(new))
  <2>1. \A k \in 1..Len(new) : new[k] \in ToSet(new)
    BY <1>3 DEF ToSet
  <2> QED
    BY <1>3, <2>1
<1>7. ASSUME NEW k \in 1..Len(rest) PROVE rest[k] = all[Len(new) + k]
  <2>1. k + 1 \in 1..Len(left) /\ k \in 1..(Len(left) - 1) /\ n + (k + 1) = Len(new) + k
    BY <1>3, <1>4
  <2>2. left[k + 1] = all[n + (k + 1)]
    BY <1>1, <2>1
  <2> QED
    BY <1>4, <2>1, <2>2
<1>8. ASSUME NEW k \in 1..Len(new) PROVE new[k] = Answer(all[k])
  BY <1>1, <1>3, <1>5
<1>9. Len(new) + Len(rest) = Len(all)
  <2>1. n \in Nat /\ Len(left) \in Nat /\ n + Len(left) = Len(all)
    BY <1>1, <1>3, <1>4
  <2>2. Len(new) = n + 1 /\ Len(rest) = Len(left) - 1
    BY <1>3, <1>4
  <2> QED
    BY <2>1, <2>2
<1>10. IsRendering(all, new, rest)
  BY <1>4, <1>6, <1>7, <1>8, <1>9 DEF IsRendering
<1> QED
  BY <1>10 DEF new, rest

\* A full cache is emptied, never half.
LEMMA RoomKeeps ==
    ASSUME NEW cache, NEW max
    PROVE  Room(cache, max) = cache \/ DOMAIN Room(cache, max) = {}
BY DEF Room

\* What Cached returns and leaves in the cache.
LEMMA CachedIsCompiled ==
    ASSUME KeysTellTextsApart, TemplatesOK, NEW t \in Texts
    PROVE  /\ Cached(t)[KeyOf(t)] = Compile(t)
           /\ \A key \in DOMAIN Cached(t) :
                 \E u \in Texts : key = KeyOf(u) /\ Cached(t)[key] = Compile(u)
<1>1. CASE KeyOf(t) \in DOMAIN templates
  <2>1. Cached(t) = templates
    BY <1>1 DEF Cached
  <2>2. PICK u \in Texts : KeyOf(t) = KeyOf(u) /\ templates[KeyOf(t)] = Compile(u)
    BY <1>1 DEF TemplatesOK
  <2>3. Compile(u) = Compile(t)
    BY <2>2 DEF KeysTellTextsApart
  <2> QED
    BY <2>1, <2>2, <2>3 DEF TemplatesOK
<1>2. CASE KeyOf(t) \notin DOMAIN templates
  <2> DEFINE c == Room(templates, MaxTemplates)
             k == KeyOf(t)
             v == Compile(t)
  <2>1. Cached(t) = [x \in DOMAIN c \cup {k} |-> IF x = k THEN v ELSE c[x]]
    BY <1>2 DEF Cached, Stored
  <2>2. c = templates \/ DOMAIN c = {}
    BY RoomKeeps
  <2>3. \A x \in DOMAIN c : \E u \in Texts : x = KeyOf(u) /\ c[x] = Compile(u)
    BY <2>2 DEF TemplatesOK
  <2> DEFINE d == Cached(t)
  <2> HIDE DEF c, d
  <2>4. d = [x \in DOMAIN c \cup {k} |-> IF x = k THEN v ELSE c[x]]
    BY <2>1 DEF d
  <2>5. d[k] = v
    BY <2>4
  <2>6. \A x \in DOMAIN d : \E u \in Texts : x = KeyOf(u) /\ d[x] = Compile(u)
    BY <2>3, <2>4
  <2> QED
    BY <2>5, <2>6 DEF d
<1> QED
  BY <1>1, <1>2

\* What is left to render is of the call, so a text of it is one of Texts.
LEMMA RendersItsTexts ==
    ASSUME AnswerInv, NEW r \in Runs, run[r].pc # "idle", run[r].render # <<>>
    PROVE  /\ calls[r].render \in Seq(ToSet(calls[r].render))
           /\ Head(run[r].render).what = "text" => Head(run[r].render) \in Texts
<1>1. PICK s \in Scenarios : calls = s.calls
  BY DEF AnswerInv
<1>2. calls[r].render \in Seq(ToSet(calls[r].render))
  BY <1>1, ScenariosAssumption
<1>3. run[r].render \in Seq(ToSet(calls[r].render))
  BY DEF AnswerInv, IsRendering
<1>4. Head(run[r].render) \in ToSet(calls[r].render)
  BY <1>3, HeadTailProperties
<1>5. ToSet(calls[r].render) \in {ToSet(z.calls[q].render) : z \in Scenarios, q \in Runs}
  BY <1>1
<1> QED
  BY <1>2, <1>4, <1>5 DEF Texts

LEMMA StepAnswerInv ==
    ASSUME KeysTellTextsApart
    PROVE  AnswerInv /\ [Next]_vars => AnswerInv'
<1> SUFFICES ASSUME AnswerInv, [Next]_vars PROVE AnswerInv'
  OBVIOUS
<1> DEFINE Good(r, x) ==
             /\ x.pc = "idle" => x.answers = <<>>
             /\ x.pc # "idle" => IsRendering(calls[r].render, x.answers, x.render)
             /\ x.pc = "tokenize" => x.render # <<>> /\ Head(x.render).what = "ref"
<1>1. calls' = calls
  BY Zenon DEF Next, Snapshot, vars, Step, Begin, Render, LookUp, Store, Defined, Folder, Inject, Save,
     SaveRaw, Write, SetMode, Publish, Finish, Compare, Same
<1>2. CASE UNCHANGED <<run, templates, tokens>>
  BY <1>1, <1>2, Zenon DEF AnswerInv, RunsOK, TemplatesOK, TokensOK
<1>3. ASSUME NEW r \in Runs, Step(r) PROVE AnswerInv'
  <2>1. /\ RunsOK /\ TemplatesOK /\ TokensOK /\ \A s \in Runs : Good(s, run[s])
        /\ \E s \in Scenarios : calls = s.calls
    BY DEF AnswerInv
  <2> HIDE DEF Good
  <2>2. ASSUME RunsOK', \A s \in Runs \ {r} : run'[s] = run[s], Good(r, run'[r]), TemplatesOK', TokensOK'
        PROVE  AnswerInv'
    <3>1. \A s \in Runs : Good(s, run'[s])
      BY <2>1, <2>2
    <3> QED
      BY <1>1, <2>1, <2>2, <3>1 DEF AnswerInv, Good
  <2>3. ASSUME UNCHANGED <<templates, tokens>> PROVE TemplatesOK' /\ TokensOK'
    BY <2>1, <2>3 DEF TemplatesOK, TokensOK
  <2>4. CASE Begin(r)
    <3>1. UNCHANGED <<templates, tokens>>
      BY <2>4 DEF Begin, SameShared, sharedVars
    <3>2. /\ RunsOK' /\ \A s \in Runs \ {r} : run'[s] = run[s]
          /\ run'[r].answers = run[r].answers /\ run[r].pc = "idle" /\ run'[r].pc = "define"
          /\ run'[r].render = calls[r].render
      BY <2>1, <2>4, BeginDoes
    <3>3. run'[r].answers = <<>>
      BY <2>1, <3>2 DEF Good
    <3>4. calls[r].render \in Seq(ToSet(calls[r].render))
      BY <2>1, ScenariosAssumption
    <3>5. <<>> \in Seq(ToSet(<<>>)) /\ Len(<<>>) = 0
      OBVIOUS
    <3>6. IsRendering(calls[r].render, <<>>, calls[r].render)
      BY <3>4, <3>5 DEF IsRendering
    <3> QED
      BY <2>2, <2>3, <3>1, <3>2, <3>3, <3>6 DEF Good
  <2>5. ASSUME NEW a, Answers(r, a), run[r].pc # "idle", run[r].render # <<>>,
               a = Answer(Head(run[r].render)), run'[r].pc \in {"define", "failed"},
               TemplatesOK', TokensOK'
        PROVE  AnswerInv'
    <3>1. calls[r].render \in Seq(ToSet(calls[r].render))
      BY <2>5, RendersItsTexts
    <3>2. IsRendering(calls[r].render, run[r].answers, run[r].render)
      BY <2>1, <2>5 DEF Good
    <3>3. IsRendering(calls[r].render, run'[r].answers, run'[r].render)
      BY <2>5, <3>1, <3>2, NextAnswer DEF Answers
    <3> QED
      BY <2>2, <2>5, <3>3 DEF Answers, Good
  <2>6. CASE Render(r)
    <3> DEFINE spec == Head(run[r].render)
    <3>1. /\ run[r].pc = "define" /\ run[r].render # <<>> /\ spec.what = "text"
          /\ run'[r].pc \in {"define", "failed"} /\ templates' = Cached(spec)
          /\ Answers(r, Cached(spec)[KeyOf(spec)])
      BY <2>1, <2>6, RenderDoes
    <3>2. spec \in Texts
      BY <3>1, RendersItsTexts
    <3>3. tokens' = tokens
      BY <2>6 DEF Render
    <3> HIDE DEF spec
    <3>4. /\ Cached(spec)[KeyOf(spec)] = Compile(spec)
          /\ \A key \in DOMAIN Cached(spec) :
                \E u \in Texts : key = KeyOf(u) /\ Cached(spec)[key] = Compile(u)
      BY <2>1, <3>2, CachedIsCompiled
    <3>5. TemplatesOK'
      BY <3>1, <3>4 DEF TemplatesOK
    <3>6. TokensOK'
      BY <2>1, <3>3 DEF TokensOK
    <3>7. Compile(spec) = Answer(spec)
      BY <3>1 DEF Answer
    <3> QED
      BY <2>5, <3>1, <3>4, <3>5, <3>6, <3>7 DEF spec
  <2>7. CASE LookUp(r)
    <3> DEFINE item == Head(run[r].render)
    <3>1. UNCHANGED <<templates, tokens>>
      BY <2>7 DEF LookUp, SameShared, sharedVars
    <3>2. run[r].pc = "define" /\ run[r].render # <<>> /\ item.what = "ref"
      BY <2>1, <2>7, LookUpDoes
    <3>3. CASE Plain(r, "define", "tokenize", run[r].todo)
      <4>1. /\ RunsOK' /\ \A s \in Runs \ {r} : run'[s] = run[s]
            /\ run'[r].pc = "tokenize" /\ run'[r].render = run[r].render /\ run'[r].answers = run[r].answers
        BY <3>3 DEF Plain, Moves, SameAnswers
      <4>2. Good(r, run'[r])
        BY <2>1, <3>2, <4>1 DEF Good
      <4> QED
        BY <2>2, <2>3, <3>1, <4>1, <4>2
    <3>4. CASE ~Plain(r, "define", "tokenize", run[r].todo)
      <4>1. item.path \in DOMAIN tokens /\ run'[r].pc = "define" /\ Answers(r, tokens[item.path])
        BY <2>1, <2>7, <3>4, LookUpDoes
      <4>2. tokens[item.path] = Answer(item)
        BY <2>1, <3>2, <4>1 DEF TokensOK, Answer
      <4> QED
        BY <2>3, <2>5, <3>1, <3>2, <4>1, <4>2
    <3> QED
      BY <3>3, <3>4
  <2>8. CASE Store(r)
    <3> DEFINE item == Head(run[r].render)
               c == Room(tokens, MaxTokens)
               p == item.path
               v == Tokenize(p)
    <3>1. /\ run[r].pc = "tokenize" /\ run'[r].pc = "define" /\ tokens' = Stored(c, p, v) /\ Answers(r, v)
      BY <2>1, <2>8, StoreDoes
    <3>2. run[r].render # <<>> /\ item.what = "ref"
      BY <2>1, <3>1 DEF Good
    <3>3. templates' = templates
      BY <2>8 DEF Store
    <3>4. v = Answer(item)
      BY <3>2 DEF Answer
    <3>5. c = tokens \/ DOMAIN c = {}
      BY RoomKeeps
    <3>6. TokensOK'
      <4>1. \A x \in DOMAIN c : c[x] = Tokenize(x)
        BY <2>1, <3>5 DEF TokensOK
      <4>2. v = Tokenize(p)
        OBVIOUS
      <4> HIDE DEF c, p, v
      <4>3. tokens' = [x \in DOMAIN c \cup {p} |-> IF x = p THEN v ELSE c[x]]
        BY <3>1 DEF Stored
      <4>4. \A x \in DOMAIN tokens' : tokens'[x] = Tokenize(x)
        BY <4>1, <4>2, <4>3
      <4> QED
        BY <4>4 DEF TokensOK
    <3>7. TemplatesOK'
      BY <2>1, <3>3 DEF TemplatesOK
    <3> HIDE DEF v
    <3> QED
      BY <2>5, <3>1, <3>2, <3>4, <3>6, <3>7
  <2>9. ASSUME ~Begin(r), ~Render(r), ~LookUp(r), ~Store(r) PROVE AnswerInv'
    <3>1. \E a, b, todo : /\ Moves(r, a, b, todo) /\ UNCHANGED <<templates, tokens>>
                          /\ a # "idle" /\ b \notin {"idle", "tokenize"}
      <4>1. CASE Defined(r)
        <5>1. \E b \in {"failed", "build"} : \E todo : Plain(r, "define", b, todo)
          BY <2>1, <4>1, DefinedDoes, Zenon
        <5> QED
          BY <5>1 DEF Plain, sharedVars
      <4>2. CASE Folder(r)
        BY <2>1, <4>2, FolderDoes DEF Plain, sharedVars
      <4>3. CASE Inject(r)
        <5>1. \E b \in {"failed", "build"} : \E todo, e :
                  Plain(r, "build", b, todo) \/ Warns(r, "build", b, todo, e)
          BY <2>1, <4>3, InjectDoes, Zenon
        <5> QED
          BY <5>1 DEF Plain, Warns, sharedVars
      <4>4. CASE Save(r)
        <5>1. \E b \in {"write", "build"} : \E todo, e :
                  Plain(r, "build", b, todo) \/ Warns(r, "build", b, todo, e)
          BY <2>1, <4>4, SaveDoes, Zenon
        <5> QED
          BY <5>1 DEF Plain, Warns, sharedVars
      <4>5. CASE SaveRaw(r)
        BY <2>1, <4>5, SaveRawDoes DEF Plain, sharedVars
      <4>6. CASE Write(r)
        BY <2>1, <4>6, WriteDoes DEF Plain, sharedVars
      <4>7. CASE SetMode(r)
        BY <2>1, <4>7, SetModeDoes DEF Plain, sharedVars
      <4>8. CASE Publish(r)
        <5>1. \E todo : Plain(r, "rename", "build", todo)
          BY <2>1, <4>8, PublishDoes, Zenon
        <5> QED
          BY <5>1 DEF Plain, sharedVars
      <4>9. CASE Finish(r)
        BY <2>1, <4>9, FinishDoes DEF sharedVars
      <4>10. CASE Compare(r)
        <5>1. \E b \in {"compare", "done"} : \E todo : Plain(r, "compare", b, todo)
          BY <2>1, <4>10, CompareDoes, Zenon
        <5> QED
          BY <5>1 DEF Plain, sharedVars
      <4> QED
        BY <1>3, <2>9, <4>1, <4>2, <4>3, <4>4, <4>5, <4>6, <4>7, <4>8, <4>9, <4>10 DEF Step
    <3>2. /\ RunsOK' /\ \A s \in Runs \ {r} : run'[s] = run[s]
          /\ SameAnswers(run[r], run'[r])
          /\ UNCHANGED <<templates, tokens>> /\ run[r].pc # "idle" /\ run'[r].pc \notin {"idle", "tokenize"}
      BY <3>1 DEF Moves
    <3>3. Good(r, run'[r])
      <4>1. Good(r, run[r])
        BY <2>1
      <4>2. IsRendering(calls[r].render, run[r].answers, run[r].render)
        BY <3>2, <4>1 DEF Good
      <4>3. run'[r].answers = run[r].answers /\ run'[r].render = run[r].render
        BY <3>2 DEF SameAnswers
      <4> QED
        BY <3>2, <4>2, <4>3 DEF Good
    <3> QED
      BY <2>2, <2>3, <3>2, <3>3
  <2> QED
    BY <2>4, <2>6, <2>7, <2>8, <2>9
<1>4. CASE Snapshot
  BY <1>2, <1>4 DEF Snapshot, ClearLog
<1>5. CASE UNCHANGED vars
  BY <1>2, <1>5 DEF vars, sharedVars
<1> QED
  BY <1>3, <1>4, <1>5 DEF Next

\* Texts that share a key being compiled to the same, a call gets what
\* rendering its text, or tokenizing its path, gives by itself, whatever the
\* caches hold, and with a cache emptied between two steps (Template,
\* go/template.go:138; getxTokenize, go/getx.go:182).
THEOREM CachesAnswerTrue ==
    ASSUME KeysTellTextsApart
    PROVE  Spec => []AnswersAreComputed
<1>1. Init => AnswerInv
  <2> SUFFICES ASSUME Init PROVE AnswerInv
    OBVIOUS
  <2>1. /\ run = [r \in Runs |-> Idle] /\ templates = <<>> /\ tokens = <<>>
        /\ \E s \in Scenarios : calls = s.calls
    BY DEF Init, SharedInit
  <2>2. IsRun(Idle) /\ Idle.pc = "idle" /\ Idle.answers = <<>>
    BY DEF Idle, IsRun
  <2>3. DOMAIN <<>> = {}
    OBVIOUS
  <2> QED
    BY <2>1, <2>2, <2>3 DEF AnswerInv, RunsOK, TemplatesOK, TokensOK
<1>2. AnswerInv /\ [Next]_vars => AnswerInv'
  BY StepAnswerInv
<1>3. AnswerInv => AnswersAreComputed
  <2> SUFFICES ASSUME AnswerInv, NEW r \in Runs, NEW k \in DOMAIN run[r].answers
               PROVE  run[r].answers[k] = Answer(calls[r].render[k])
    BY DEF AnswersAreComputed, Answer
  <2>1. run[r].pc # "idle"
    BY DEF AnswerInv
  <2>2. IsRendering(calls[r].render, run[r].answers, run[r].render)
    BY <2>1 DEF AnswerInv
  <2>3. DOMAIN run[r].answers = 1..Len(run[r].answers)
    BY <2>2 DEF IsRendering
  <2> QED
    BY <2>2, <2>3 DEF IsRendering
<1> QED
  BY <1>1, <1>2, <1>3, PTL DEF Spec
-----------------------------------------------------------------------------
(* The caches keep their limits, and temp files come and go. *)

Bounded(cache, max) == IsFiniteSet(DOMAIN cache) /\ Cardinality(DOMAIN cache) <= max

\* A cache that is emptied before it is one too many stays within its limit.
LEMMA StoredIsBounded ==
    ASSUME NEW cache, NEW max \in Nat \ {0}, Bounded(cache, max), NEW key, NEW entry
    PROVE  Bounded(Stored(Room(cache, max), key, entry), max)
<1> DEFINE c == Room(cache, max)
           d == Stored(c, key, entry)
<1>1. DOMAIN d = DOMAIN c \cup {key}
  BY DEF Stored
<1>2. DOMAIN <<>> = {}
  OBVIOUS
<1>3. IsFiniteSet(DOMAIN c) /\ Cardinality(DOMAIN c) \in Nat /\ Cardinality(DOMAIN c) < max
  <2>1. CASE Cardinality(DOMAIN cache) >= max
    <3>1. DOMAIN c = {}
      BY <1>2, <2>1 DEF Room
    <3> QED
      BY <3>1, FS_EmptySet
  <2>2. CASE ~(Cardinality(DOMAIN cache) >= max)
    <3>1. c = cache
      BY <2>2 DEF Room
    <3>2. Cardinality(DOMAIN cache) \in Nat
      BY FS_CardinalityType DEF Bounded
    <3> QED
      BY <2>2, <3>1, <3>2 DEF Bounded
  <2> QED
    BY <2>1, <2>2
<1> HIDE DEF c, d
<1>4. IsFiniteSet(DOMAIN d) /\ Cardinality(DOMAIN d) <= Cardinality(DOMAIN c) + 1
  BY <1>1, <1>3, FS_AddElement
<1>6. Cardinality(DOMAIN d) \in Nat
  BY <1>4, FS_CardinalityType
<1>5. Bounded(d, max)
  BY <1>3, <1>4, <1>6 DEF Bounded
<1> QED
  BY <1>5 DEF c, d

\* The volumes, and the paths of the instance and of the calls.
VolumesOK ==
    /\ DOMAIN vols = Lasting \cup Runs
    /\ \A v \in DOMAIN vols : {"files", "dirs"} \subseteq DOMAIN vols[v]

ScenarioOK == \E s \in Scenarios : inst = s.inst /\ calls = s.calls

\* What a call has left to do.
IsOp(op) == {"act", "path", "text", "mode"} \subseteq DOMAIN op /\ Named(op.path)

IsTodo(todo) == todo \in Seq(ToSet(todo)) /\ \A k \in 1..Len(todo) : IsOp(todo[k])

PcOK(pc) ==
    pc \in {"idle", "define", "tokenize", "build", "write", "mode", "rename", "compare"} \cup Ended

\* Where the temp file of a call is, when there is one.
Temp(r) == TempOf(r, Writing(r).path)

TodoInv ==
    /\ RunsOK /\ ScenarioOK
    /\ \A r \in Runs : /\ PcOK(run[r].pc) /\ IsTodo(run[r].todo)
                       /\ run[r].pc \in {"write", "mode", "rename"} => run[r].todo # <<>>

TempInv ==
    /\ VolumesOK
    /\ \A r \in Runs :
          /\ run[r].pc \in {"mode", "rename"} => Temp(r) \in DOMAIN vols[Target(r)].files
          /\ \A v \in DOMAIN vols : \A p \in DOMAIN vols[v].files :
                Last(p) = r => run[r].pc \in {"mode", "rename"} /\ v = Target(r) /\ p = Temp(r)

CacheInv == Bounded(templates, MaxTemplates) /\ Bounded(tokens, MaxTokens)

LEMMA StepCacheInv == CacheInv /\ [Next]_vars => CacheInv'
<1> SUFFICES ASSUME CacheInv, [Next]_vars PROVE CacheInv'
  OBVIOUS
<1>1. CASE UNCHANGED <<templates, tokens>>
  BY <1>1 DEF CacheInv
<1>2. ASSUME NEW r \in Runs, Step(r) PROVE CacheInv'
  <2>1. CASE Render(r)
    <3> DEFINE spec == Head(run[r].render)
    <3>1. templates' = Cached(spec) /\ tokens' = tokens
      BY <2>1, Zenon DEF Render
    <3> HIDE DEF spec
    <3>2. Bounded(Cached(spec), MaxTemplates)
      BY SharedAssumption, StoredIsBounded DEF CacheInv, Cached
    <3> QED
      BY <3>1, <3>2 DEF CacheInv
  <2>2. CASE Store(r)
    <3> DEFINE path == Head(run[r].render).path
    <3>1. templates' = templates /\ tokens' = Stored(Room(tokens, MaxTokens), path, Tokenize(path))
      BY <2>2, Zenon DEF Store
    <3> HIDE DEF path
    <3>2. Bounded(Stored(Room(tokens, MaxTokens), path, Tokenize(path)), MaxTokens)
      BY SharedAssumption, StoredIsBounded DEF CacheInv
    <3> QED
      BY <3>1, <3>2 DEF CacheInv
  <2>3. CASE ~Render(r) /\ ~Store(r)
    <3>1. UNCHANGED <<templates, tokens>>
      BY <1>2, <2>3, Zenon DEF Step, Begin, LookUp, Defined, Folder, Inject, Save, SaveRaw, Warn,
         Write, SetMode, Publish, Finish, Compare, SameShared, sharedVars
    <3> QED
      BY <1>1, <3>1
  <2> QED
    BY <2>1, <2>2, <2>3
<1>3. CASE Snapshot
  BY <1>1, <1>3 DEF Snapshot, ClearLog
<1>4. CASE UNCHANGED vars
  BY <1>1, <1>4 DEF vars, sharedVars
<1> QED
  BY <1>2, <1>3, <1>4 DEF Next

-----------------------------------------------------------------------------
(* What is left to do. *)

\* The options and the calls stay those of one scenario.
LEMMA SameScenario == [Next]_vars => inst' = inst /\ calls' = calls
BY Zenon DEF Next, Snapshot, vars, Step, Begin, Render, LookUp, Store, Defined, Folder, Inject, Save,
   SaveRaw, Write, SetMode, Publish, Finish, Compare, Same

\* So a call writes to one volume all along.
LEMMA SameTarget ==
    ASSUME inst' = inst, calls' = calls, NEW r
    PROVE  Target(r)' = Target(r)
BY DEF Target, IsCheck, Merged, OwnVolume, Base

LEMMA TailIsTodo ==
    ASSUME NEW todo, IsTodo(todo), todo # <<>>
    PROVE  /\ IsTodo(Tail(todo)) /\ IsOp(Head(todo))
<1> DEFINE t == Tail(todo)
<1>1. todo \in Seq(ToSet(todo)) /\ \A k \in 1..Len(todo) : IsOp(todo[k])
  BY DEF IsTodo
<1>2. /\ t \in Seq(ToSet(todo)) /\ Len(t) = Len(todo) - 1 /\ Len(todo) \in Nat \ {0}
      /\ \A k \in 1..Len(t) : t[k] = todo[k + 1]
      /\ Head(todo) = todo[1]
  BY <1>1, HeadTailProperties
<1> HIDE DEF t
<1>3. t \in Seq(ToSet(t))
  <2>1. \A k \in 1..Len(t) : t[k] \in ToSet(t)
    BY <1>2 DEF ToSet
  <2> QED
    BY <1>2, <2>1
<1>4. \A k \in 1..Len(t) : IsOp(t[k])
  BY <1>1, <1>2
<1>5. IsOp(todo[1])
  BY <1>1, <1>2
<1> QED
  BY <1>2, <1>3, <1>4, <1>5 DEF IsTodo, t

LEMMA ConcatIsTodo ==
    ASSUME NEW s, NEW t, IsTodo(s), IsTodo(t)
    PROVE  IsTodo(s \o t)
<1> DEFINE S == ToSet(s) \cup ToSet(t)
           u == s \o t
<1>1. s \in Seq(S) /\ t \in Seq(S)
  BY SeqMonotonic DEF IsTodo
<1>2. /\ u \in Seq(S) /\ Len(u) = Len(s) + Len(t)
      /\ \A k \in 1..(Len(s) + Len(t)) : u[k] = IF k <= Len(s) THEN s[k] ELSE t[k - Len(s)]
      /\ Len(s) \in Nat /\ Len(t) \in Nat
  BY <1>1, ConcatProperties
<1> HIDE DEF u
<1>3. u \in Seq(ToSet(u))
  <2>1. \A k \in 1..Len(u) : u[k] \in ToSet(u)
    BY <1>2 DEF ToSet
  <2> QED
    BY <1>2, <2>1
<1>4. ASSUME NEW k \in 1..Len(u) PROVE IsOp(u[k])
  <2>1. CASE k <= Len(s)
    BY <1>2, <2>1 DEF IsTodo
  <2>2. CASE ~(k <= Len(s))
    <3>1. k - Len(s) \in 1..Len(t) /\ u[k] = t[k - Len(s)]
      BY <1>2, <2>2
    <3> QED
      BY <3>1 DEF IsTodo
  <2> QED
    BY <2>1, <2>2
<1> QED
  BY <1>3, <1>4 DEF IsTodo, u

LEMMA OneIsTodo ==
    ASSUME NEW op, IsOp(op)
    PROVE  IsTodo(<<op>>)
<1>1. <<op>> \in Seq(ToSet(<<op>>)) /\ Len(<<op>>) = 1 /\ <<op>>[1] = op
  BY DEF ToSet
<1> QED
  BY <1>1 DEF IsTodo

LEMMA NoneIsTodo == IsTodo(<<>>)
<1>1. <<>> \in Seq(ToSet(<<>>)) /\ Len(<<>>) = 0
  OBVIOUS
<1> QED
  BY <1>1 DEF IsTodo

\* The last of a path that another is put before.
LEMMA NamedBelow ==
    ASSUME NEW a, a \in Seq(ToSet(a)), NEW b, Named(b)
    PROVE  Named(a \o b)
<1> DEFINE S == ToSet(a) \cup ToSet(b)
           c == a \o b
<1>1. a \in Seq(S) /\ b \in Seq(S) /\ b # <<>> /\ b[Len(b)] \notin Runs
  BY SeqMonotonic DEF Named, Last
<1>2. /\ c \in Seq(S) /\ Len(c) = Len(a) + Len(b) /\ Len(a) \in Nat /\ Len(b) \in Nat \ {0}
      /\ \A k \in 1..(Len(a) + Len(b)) : c[k] = IF k <= Len(a) THEN a[k] ELSE b[k - Len(a)]
  BY <1>1, ConcatProperties
<1> HIDE DEF c, S
<1>3. c \in Seq(ToSet(c))
  <2>1. \A k \in 1..Len(c) : c[k] \in ToSet(c)
    BY <1>2 DEF ToSet
  <2> QED
    BY <1>2, <2>1
<1>4. c # <<>> /\ c[Len(c)] = b[Len(b)]
  BY <1>2
<1> QED
  BY <1>1, <1>3, <1>4 DEF Named, Last, c

LEMMA NamedOne ==
    ASSUME NEW x, x \notin Runs
    PROVE  Named(<<x>>)
BY DEF Named, Last, ToSet

\* What is left of a path below one of its folders.
LEMMA NamedEnd ==
    ASSUME NEW p, Named(p), NEW m \in Nat, Len(p) > m
    PROVE  Named(SubSeq(p, m + 1, Len(p)))
<1> DEFINE n == Len(p)
           b == SubSeq(p, m + 1, n)
<1>1. p \in Seq(ToSet(p)) /\ p[n] \notin Runs /\ n \in Nat
  BY DEF Named, Last
<1>2. \A i \in (m + 1)..n : p[i] \in ToSet(p)
  BY <1>1 DEF ToSet
<1>3. /\ b \in Seq(ToSet(p)) /\ Len(b) = IF m + 1 <= n THEN n - (m + 1) + 1 ELSE 0
      /\ \A k \in 1..(n - (m + 1) + 1) : b[k] = p[m + 1 + k - 1]
  BY <1>1, <1>2, SubSeqProperties
<1> HIDE DEF b
<1>4. Len(b) = n - m /\ n - m \in Nat \ {0} /\ n - m \in 1..(n - (m + 1) + 1) /\ m + 1 + (n - m) - 1 = n
  BY <1>1, <1>3
<1>5. b[n - m] = p[n]
  BY <1>3, <1>4
<1>6. b \in Seq(ToSet(b))
  <2>1. \A k \in 1..Len(b) : b[k] \in ToSet(b)
    BY <1>3 DEF ToSet
  <2> QED
    BY <1>3, <2>1
<1>7. b # <<>>
  BY <1>3, <1>4
<1>8. Named(b)
  BY <1>1, <1>4, <1>5, <1>6, <1>7 DEF Named, Last
<1> QED
  BY <1>8 DEF b

\* A baseline has the name of its file, or that of the folder of baselines.
LEMMA BaselineIsTodo ==
    ASSUME NEW r, NEW op, IsOp(op)
    PROVE  IsTodo(Baseline(r, op))
<1> DEFINE p == op.path
           n == Len(Root) + 1
           below == SubSeq(p, n, Len(p))
           q == Meta \o <<"generated">> \o below
           raw == [op EXCEPT !.act = "raw", !.mode = Undeclared, !.path = q]
<1>1. CASE Baseline(r, op) = <<>>
  BY <1>1, NoneIsTodo
<1>2. CASE Baseline(r, op) # <<>>
  <2>1. Under(p) /\ Baseline(r, op) = <<raw>>
    BY <1>2, Zenon DEF Baseline
  <2>2. /\ p \in Seq(ToSet(p)) /\ p # <<>> /\ p[Len(p)] \notin Runs
        /\ Root \in Seq(ToSet(Root)) /\ Meta \in Seq(ToSet(Meta)) /\ "generated" \notin Runs
    BY PathsAssumption DEF IsOp, Named, Last
  <2>3. Len(p) \in Nat \ {0} /\ n \in Nat \ {0} /\ Len(Root) \in Nat
    BY <2>2
  <2>4. Named(<<"generated">>)
    BY <2>2, NamedOne
  <2>5. Named(Meta \o <<"generated">>)
    BY <2>2, <2>4, NamedBelow
  <2>6. Named(q)
    <3>1. CASE p = Root
      <4>1. below = <<>>
        BY <2>3, <3>1, SubSeqEmpty
      <4>2. q = Meta \o <<"generated">>
        <5>1. Meta \o <<"generated">> \in Seq(ToSet(Meta \o <<"generated">>))
          BY <2>5 DEF Named
        <5> QED
          BY <4>1, <5>1, ConcatEmptySeq
      <4> QED
        BY <2>5, <4>2
    <3>2. CASE p # Root
      <4>1. Len(p) > Len(Root)
        BY <2>1, <3>2 DEF Under, IsBelow
      <4>5. Named(below)
        BY <2>3, <4>1, NamedEnd DEF IsOp
      <4>6. Meta \o <<"generated">> \in Seq(ToSet(Meta \o <<"generated">>))
        BY <2>5 DEF Named
      <4> QED
        BY <4>5, <4>6, NamedBelow
    <3> QED
      BY <3>1, <3>2
  <2>7. IsOp(raw)
    <3>1. {"act", "path", "text", "mode"} \subseteq DOMAIN op
      BY DEF IsOp
    <3> HIDE DEF q
    <3>2. {"act", "path", "text", "mode"} \subseteq DOMAIN raw /\ raw.path = q
      BY <3>1
    <3> QED
      BY <2>6, <3>2 DEF IsOp
  <2> HIDE DEF raw
  <2> QED
    BY <2>1, <2>7, OneIsTodo
<1> QED
  BY <1>1, <1>2

\* The bookkeeping that every build ends with.
LogOp == [act |-> "raw", path |-> Append(Meta, "log"), text |-> "log", mode |-> Undeclared]

\* A build does what the components put out, and ends with the log.
LEMMA PlannedIsTodo ==
    ASSUME ScenarioOK, NEW r \in Runs
    PROVE  LET plan == Planned(r)
           IN  /\ IsTodo(plan)
               /\ plan # <<>> => /\ Len(plan) \in Nat \ {0} /\ plan[Len(plan)] = LogOp
                                 /\ \A k \in 1..Len(plan) - 1 :
                                       k \in DOMAIN calls[r].ops /\ plan[k] = calls[r].ops[k]
<1> DEFINE ops == calls[r].ops
           all == Append(ops, LogOp)
<1>1. PICK s \in Scenarios : calls = s.calls
  BY DEF ScenarioOK
<1>2. /\ ops \in Seq(ToSet(ops)) /\ Meta \in Seq(ToSet(Meta)) /\ "log" \notin Runs
      /\ \A k \in DOMAIN ops : DOMAIN ops[k] = {"act", "path", "text", "mode"} /\ Named(ops[k].path)
  BY <1>1, ScenariosAssumption, PathsAssumption
<1>3. Planned(r) = all \/ Planned(r) = <<>>
  BY Zenon DEF Planned, LogOp
<1> HIDE DEF ops
<1>4. IsTodo(ops)
  BY <1>2 DEF IsTodo, IsOp
<1>5. IsOp(LogOp)
  <2>1. Append(Meta, "log") = Meta \o <<"log">>
    BY <1>2
  <2>2. Named(Meta \o <<"log">>)
    BY <1>2, NamedBelow, NamedOne
  <2> QED
    BY <2>1, <2>2 DEF IsOp, LogOp
<1> DEFINE S == ToSet(ops) \cup {LogOp}
<1>6. ops \in Seq(S) /\ LogOp \in S
  BY <1>2, SeqMonotonic
<1> HIDE DEF S
<1>7. all = ops \o <<LogOp>>
  BY <1>6, AppendIsConcat
<1>8. /\ Len(all) = Len(ops) + 1 /\ Len(ops) \in Nat /\ all[Len(ops) + 1] = LogOp
      /\ DOMAIN ops = 1..Len(ops) /\ \A k \in 1..Len(ops) : all[k] = ops[k]
  BY <1>6, AppendProperties
<1> HIDE DEF all
<1>9. IsTodo(all)
  BY <1>4, <1>5, <1>7, ConcatIsTodo, OneIsTodo
<1>10. CASE Planned(r) = all
  BY <1>8, <1>9, <1>10 DEF ops
<1>11. CASE Planned(r) = <<>>
  BY <1>11, NoneIsTodo
<1> QED
  BY <1>3, <1>10, <1>11

LEMMA StepTodoInv == TodoInv /\ [Next]_vars => TodoInv'
<1> SUFFICES ASSUME TodoInv, [Next]_vars PROVE TodoInv'
  OBVIOUS
<1>1. inst' = inst /\ calls' = calls
  BY SameScenario
<1>2. ScenarioOK'
  BY <1>1 DEF TodoInv, ScenarioOK
<1>3. CASE run' = run
  BY <1>2, <1>3, Zenon DEF TodoInv, RunsOK
<1>4. ASSUME NEW r \in Runs, Step(r) PROVE TodoInv'
  <2>1. RunsOK /\ PcOK(run[r].pc) /\ IsTodo(run[r].todo)
    BY DEF TodoInv
  <2>2. run[r].todo # <<>> => IsTodo(Rest(r)) /\ IsOp(Head(run[r].todo))
    BY <2>1, TailIsTodo DEF Rest
  <2> DEFINE Kept0(b, todo) ==
               RunsOK' /\ (\A s \in Runs \ {r} : run'[s] = run[s]) /\ run'[r].pc = b /\ run'[r].todo = todo
  <2>3. ASSUME NEW b, NEW todo, Kept0(b, todo), PcOK(b), IsTodo(todo),
               b \in {"write", "mode", "rename"} => todo # <<>>
        PROVE  TodoInv'
    BY <1>2, <2>3 DEF TodoInv
  <2>4. ASSUME NEW a, NEW b, NEW todo, NEW e, Plain(r, a, b, todo) \/ Warns(r, a, b, todo, e)
        PROVE  Kept0(b, todo) /\ run[r].pc = a
    BY <2>4 DEF Plain, Warns, Moves
  <2> HIDE DEF Kept0
  <2>5. ASSUME run[r].todo # <<>>
        PROVE  /\ IsTodo(Baseline(r, Head(run[r].todo)) \o Rest(r)) /\ IsTodo(<<>> \o Rest(r))
               /\ IsTodo(Tail(run[r].todo))
    BY <2>2, <2>5, BaselineIsTodo, ConcatIsTodo, NoneIsTodo DEF Rest
  <2>6. CASE Begin(r)
    <3>1. Kept0("define", run[r].todo)
      BY <2>1, <2>6, BeginDoes DEF Kept0
    <3> QED
      BY <2>1, <2>3, <3>1 DEF PcOK
  <2>7. ASSUME NEW a, Answers(r, a), run'[r].pc \in {"define", "failed"} PROVE TodoInv'
    <3>1. Kept0(run'[r].pc, run[r].todo)
      BY <2>7 DEF Kept0, Answers
    <3> QED
      BY <2>1, <2>3, <2>7, <3>1 DEF PcOK, Ended
  <2>8. CASE Render(r)
    BY <2>1, <2>7, <2>8, RenderDoes
  <2>9. CASE LookUp(r)
    <3>1. CASE Plain(r, "define", "tokenize", run[r].todo)
      <4>1. Kept0("tokenize", run[r].todo)
        BY <2>4, <3>1
      <4> QED
        BY <2>1, <2>3, <4>1 DEF PcOK
    <3> QED
      BY <2>1, <2>7, <2>9, <3>1, LookUpDoes
  <2>10. CASE Store(r)
    BY <2>1, <2>7, <2>10, StoreDoes
  <2>11. CASE Defined(r)
    <3> DEFINE all == Planned(r)
    <3>1. \/ Plain(r, "define", "failed", run[r].todo) \/ Plain(r, "define", "build", all)
      BY <2>1, <2>11, DefinedDoes
    <3>2. IsTodo(all)
      BY PlannedIsTodo DEF TodoInv
    <3> HIDE DEF all
    <3>3. Kept0("failed", run[r].todo) \/ Kept0("build", all)
      BY <2>4, <3>1
    <3> QED
      BY <2>1, <2>3, <3>2, <3>3 DEF PcOK, Ended
  <2>12. CASE Folder(r)
    <3>1. run[r].todo # <<>> /\ Kept0("build", Tail(run[r].todo))
      BY <2>1, <2>4, <2>12, FolderDoes
    <3> QED
      BY <2>3, <2>5, <3>1 DEF PcOK
  <2>13. CASE Inject(r)
    <3> DEFINE op == Head(run[r].todo)
               to(text) == [op EXCEPT !.act = "file", !.text = text]
    <3>1. run[r].todo # <<>>
      BY <2>1, <2>13, InjectDoes
    <3>2. \/ \E e : Plain(r, "build", "failed", run[r].todo)
          \/ \E text, e : \/ Plain(r, "build", "build", <<to(text)>> \o Rest(r))
                          \/ Warns(r, "build", "build", <<to(text)>> \o Rest(r), e)
      BY <2>1, <2>13, InjectDoes, Zenon
    <3>3. ASSUME NEW text PROVE IsTodo(<<to(text)>> \o Rest(r))
      <4>1. IsOp(op)
        BY <2>2, <3>1
      <4> HIDE DEF op
      <4>2. IsOp(to(text))
        <5> DEFINE new == to(text)
        <5>1. {"act", "path", "text", "mode"} \subseteq DOMAIN new /\ new.path = op.path
          BY <4>1 DEF IsOp
        <5> QED
          BY <4>1, <5>1 DEF IsOp
      <4> HIDE DEF to
      <4> QED
        BY <2>2, <3>1, <4>2, OneIsTodo, ConcatIsTodo
    <3> HIDE DEF to
    <3>4. Kept0("failed", run[r].todo) \/ \E text : Kept0("build", <<to(text)>> \o Rest(r))
      BY <2>4, <3>2
    <3> QED
      BY <2>1, <2>3, <3>3, <3>4 DEF PcOK, Ended
  <2>14. CASE Save(r)
    <3> DEFINE op == Head(run[r].todo)
    <3>1. run[r].todo # <<>>
      BY <2>1, <2>14, SaveDoes
    <3>2. \/ \E todo \in {Baseline(r, op) \o Rest(r), Rest(r)} : \E e :
                \/ Plain(r, "build", "build", todo) \/ Warns(r, "build", "build", todo, e)
          \/ \E e : \/ Plain(r, "build", "write", run[r].todo) \/ Warns(r, "build", "write", run[r].todo, e)
      BY <2>1, <2>14, SaveDoes, Zenon
    <3>3. \/ \E todo \in {Baseline(r, op) \o Rest(r), Rest(r)} : Kept0("build", todo)
          \/ Kept0("write", run[r].todo)
      BY <2>4, <3>2
    <3> QED
      BY <2>1, <2>2, <2>3, <2>5, <3>1, <3>3 DEF PcOK
  <2>15. CASE SaveRaw(r)
    <3>1. run[r].todo # <<>> /\ (Kept0("build", Tail(run[r].todo)) \/ Kept0("write", run[r].todo))
      BY <2>1, <2>4, <2>15, SaveRawDoes
    <3> QED
      BY <2>1, <2>3, <2>5, <3>1 DEF PcOK
  <2>16. CASE Write(r)
    <3>1. Kept0("mode", run[r].todo) /\ run[r].pc = "write"
      BY <2>1, <2>4, <2>16, WriteDoes
    <3> QED
      BY <2>1, <2>3, <3>1 DEF PcOK, TodoInv
  <2>17. CASE SetMode(r)
    <3>1. Kept0("rename", run[r].todo) /\ run[r].pc = "mode"
      BY <2>1, <2>4, <2>17, SetModeDoes
    <3> QED
      BY <2>1, <2>3, <3>1 DEF PcOK, TodoInv
  <2>18. CASE Publish(r)
    <3>1. run[r].pc = "rename"
      BY <2>18 DEF Publish, Here
    <3>2. run[r].todo # <<>>
      BY <3>1 DEF TodoInv
    <3>3. \E todo \in {Baseline(r, Head(run[r].todo)) \o Rest(r), <<>> \o Rest(r)} :
             Plain(r, "rename", "build", todo)
      BY <2>1, <2>18, PublishDoes, Zenon DEF Writing
    <3>4. \E todo \in {Baseline(r, Head(run[r].todo)) \o Rest(r), <<>> \o Rest(r)} : Kept0("build", todo)
      BY <2>4, <3>3
    <3> QED
      BY <2>3, <2>5, <3>2, <3>4 DEF PcOK
  <2>19. CASE Finish(r)
    <3>1. \E b \in {"compare", "done"} : Kept0(b, run[r].todo)
      BY <2>1, <2>19, FinishDoes DEF Moves, Kept0
    <3> QED
      BY <2>1, <2>3, <3>1 DEF PcOK, Ended
  <2>20. CASE Compare(r)
    <3>1. \E b \in {"compare", "done"} : Kept0(b, run[r].todo)
      BY <2>1, <2>4, <2>20, CompareDoes
    <3> QED
      BY <2>1, <2>3, <3>1 DEF PcOK, Ended
  <2> QED
    BY <1>4, <2>6, <2>8, <2>9, <2>10, <2>11, <2>12, <2>13, <2>14, <2>15, <2>16, <2>17, <2>18, <2>19,
       <2>20 DEF Step
<1>5. CASE Snapshot
  BY <1>3, <1>5 DEF Snapshot
<1>6. CASE UNCHANGED vars
  BY <1>3, <1>6 DEF vars
<1> QED
  BY <1>4, <1>5, <1>6 DEF Next
-----------------------------------------------------------------------------
(* A temp file is there only between its creation and its rename. *)

LEMMA PutDomain ==
    ASSUME NEW files, NEW path, NEW file
    PROVE  DOMAIN Put(files, path, file) = DOMAIN files \cup {path}
BY DEF Put, Over

LEMMA WriteFileDoes ==
    ASSUME NEW v, NEW path, NEW file
    PROVE  LET w == WriteFile(v, path, file)
           IN  {"files", "dirs"} \subseteq DOMAIN w /\ DOMAIN w.files = DOMAIN v.files \cup {path}
BY PutDomain DEF WriteFile

LEMMA RenameDoes ==
    ASSUME NEW v, NEW from, NEW to
    PROVE  LET w == Rename(v, from, to)
           IN  /\ {"files", "dirs"} \subseteq DOMAIN w
               /\ DOMAIN w.files = (DOMAIN v.files \ {from}) \cup {to}
<1> DEFINE left == [p \in DOMAIN v.files \ {from} |-> v.files[p]]
           put == Put(left, to, v.files[from])
<1>1. DOMAIN left = DOMAIN v.files \ {from}
  OBVIOUS
<1>2. Rename(v, from, to) = [files |-> put, dirs |-> v.dirs \cup Above(to)]
  BY DEF Rename
<1>3. DOMAIN put = (DOMAIN v.files \ {from}) \cup {to}
  <2> HIDE DEF left
  <2> QED
    BY <1>1, PutDomain
<1> HIDE DEF put
<1> QED
  BY <1>2, <1>3

LEMMA ChmodDoes ==
    ASSUME NEW v, {"files", "dirs"} \subseteq DOMAIN v, NEW path, NEW mode
    PROVE  LET w == Chmod(v, path, mode)
           IN  {"files", "dirs"} \subseteq DOMAIN w /\ DOMAIN w.files = DOMAIN v.files
BY DEF Chmod

LEMMA MkdirAllDoes ==
    ASSUME NEW v, {"files", "dirs"} \subseteq DOMAIN v, NEW path
    PROVE  LET w == MkdirAll(v, path)
           IN  {"files", "dirs"} \subseteq DOMAIN w /\ DOMAIN w.files = DOMAIN v.files
BY DEF MkdirAll

LEMMA SeedDoes ==
    ASSUME NEW vol
    PROVE  {"files", "dirs"} \subseteq DOMAIN Seed(vol) /\ DOMAIN Seed(vol).files \subseteq DOMAIN vol
BY DEF Seed

\* A call writes a volume that outlives it, or one of its own.
LEMMA TargetIsThere ==
    ASSUME ScenarioOK, NEW r \in Runs
    PROVE  Target(r) \in Lasting \cup {r}
<1>1. /\ inst.fs \in {"none", "os", "given"} /\ calls[r].fs \in {"none", "os", "given"}
  BY PathsAssumption DEF ScenarioOK
<1>2. Merged(r).fs \in {"none", "os", "given"}
  BY <1>1 DEF Merged
<1>3. Base(r) \in {"os", "given"}
  BY <1>2 DEF Base
<1> QED
  BY <1>1, <1>3 DEF Target, Lasting

\* The seed of a volume has the paths of the instance and of the call.
LEMMA SeedIsNamed ==
    ASSUME ScenarioOK, NEW r \in Runs
    PROVE  \A p \in DOMAIN Seed(Merged(r).vol).files : Named(p)
<1>1. /\ \A p \in DOMAIN inst.vol : Named(p)
      /\ \A p \in DOMAIN calls[r].vol : Named(p)
  BY PathsAssumption DEF ScenarioOK
<1>2. DOMAIN Over(calls[r].vol, inst.vol) = DOMAIN calls[r].vol \cup DOMAIN inst.vol
  BY DEF Over
<1>3. Merged(r).vol = Over(calls[r].vol, inst.vol) \/ Merged(r).vol = inst.vol
  BY Zenon DEF Merged
<1> QED
  BY <1>1, <1>2, <1>3, SeedDoes

\* The last segment of the path of a temp file is its call's.
LEMMA TempOfIsLast ==
    ASSUME NEW path, Named(path), NEW r
    PROVE  Last(TempOf(r, path)) = r
<1> DEFINE n == Len(path)
           f == SubSeq(path, 1, n - 1)
           S == ToSet(path) \cup {r}
<1>1. path \in Seq(S) /\ n \in Nat \ {0}
  BY SeqMonotonic DEF Named
<1>2. f \in Seq(S)
  <2>1. \A i \in 1..(n - 1) : path[i] \in S
    BY <1>1
  <2> QED
    BY <1>1, <2>1, SubSeqProperties
<1>3. TempOf(r, path) = Append(f, r)
  BY DEF TempOf, Front
<1> HIDE DEF f, S
<1>4. r \in S
  BY DEF S
<1>5. Len(Append(f, r)) = Len(f) + 1 /\ Append(f, r)[Len(f) + 1] = r
  BY <1>2, <1>4, AppendProperties
<1> QED
  BY <1>3, <1>5 DEF Last

\* No file comes, and none goes.
SameFiles ==
    VolumesOK' /\ \A v \in DOMAIN vols : DOMAIN vols'[v].files = DOMAIN vols[v].files

LEMMA SetVolume ==
    ASSUME VolumesOK, NEW x \in DOMAIN vols, NEW w, {"files", "dirs"} \subseteq DOMAIN w,
           vols' = [vols EXCEPT ![x] = w]
    PROVE  VolumesOK' /\ vols'[x] = w /\ \A v \in DOMAIN vols \ {x} : vols'[v] = vols[v]
BY DEF VolumesOK

LEMMA ModesDoes ==
    ASSUME VolumesOK, ScenarioOK, NEW r \in Runs, NEW path, NEW mode, vols' = Modes(r, path, mode)
    PROVE  SameFiles
<1> DEFINE x == Target(r)
           w == Chmod(vols[x], path, mode)
<1>1. x \in DOMAIN vols
  BY TargetIsThere DEF VolumesOK
<1>2. \/ vols' = vols
      \/ vols' = [vols EXCEPT ![x] = w]
  BY Zenon DEF Modes
<1>3. CASE vols' = vols
  BY <1>3 DEF SameFiles, VolumesOK
<1>4. CASE vols' = [vols EXCEPT ![x] = w]
  <2>1. {"files", "dirs"} \subseteq DOMAIN w /\ DOMAIN w.files = DOMAIN vols[x].files
    BY <1>1, ChmodDoes DEF VolumesOK
  <2> HIDE DEF w, x
  <2>2. VolumesOK' /\ vols'[x] = w /\ \A v \in DOMAIN vols \ {x} : vols'[v] = vols[v]
    BY <1>1, <1>4, <2>1, SetVolume
  <2> QED
    BY <2>1, <2>2 DEF SameFiles
<1> QED
  BY <1>2, <1>3, <1>4

\* A step that leaves the files and does not touch a temp file of its call.
LEMMA TempFrame ==
    ASSUME TempInv, ScenarioOK, SameFiles, inst' = inst, calls' = calls, NEW r \in Runs,
           \A s \in Runs \ {r} : run'[s] = run[s],
           \/ run[r].pc \notin {"mode", "rename"} /\ run'[r].pc \notin {"mode", "rename"}
           \/ /\ run[r].pc \in {"mode", "rename"} /\ run'[r].pc \in {"mode", "rename"}
              /\ run'[r].todo = run[r].todo
    PROVE  TempInv'
<1>1. \A s : Target(s)' = Target(s)
  BY SameTarget
<1>2. /\ DOMAIN vols' = DOMAIN vols /\ VolumesOK'
      /\ \A v \in DOMAIN vols : DOMAIN vols'[v].files = DOMAIN vols[v].files
  BY DEF SameFiles, VolumesOK, TempInv
<1>3. ASSUME NEW s \in Runs
      PROVE  /\ run'[s].pc \in {"mode", "rename"} <=> run[s].pc \in {"mode", "rename"}
             /\ run[s].pc \in {"mode", "rename"} => Temp(s)' = Temp(s)
  BY DEF Temp, TempOf, Writing
<1>4. ASSUME NEW s \in Runs
      PROVE  /\ run'[s].pc \in {"mode", "rename"} => Temp(s)' \in DOMAIN vols'[Target(s)'].files
             /\ \A v \in DOMAIN vols' : \A p \in DOMAIN vols'[v].files :
                   Last(p) = s => run'[s].pc \in {"mode", "rename"} /\ v = Target(s)' /\ p = Temp(s)'
  <2>1. /\ run[s].pc \in {"mode", "rename"} =>
               Temp(s) \in DOMAIN vols[Target(s)].files
        /\ \A v \in DOMAIN vols : \A p \in DOMAIN vols[v].files :
              Last(p) = s => run[s].pc \in {"mode", "rename"} /\ v = Target(s) /\ p = Temp(s)
    BY DEF TempInv
  <2>2. CASE run[s].pc \in {"mode", "rename"}
    <3>1. Target(s) \in DOMAIN vols
      BY TargetIsThere DEF TempInv, VolumesOK
    <3> QED
      BY <1>1, <1>2, <1>3, <2>1, <2>2, <3>1
  <2>3. CASE run[s].pc \notin {"mode", "rename"}
    BY <1>1, <1>2, <1>3, <2>1, <2>3
  <2> QED
    BY <2>2, <2>3
<1> QED
  BY <1>2, <1>4 DEF TempInv

LEMMA StepTempInv == TodoInv /\ TempInv /\ [Next]_vars => TempInv'
<1> SUFFICES ASSUME TodoInv, TempInv, [Next]_vars PROVE TempInv'
  OBVIOUS
<1>1. inst' = inst /\ calls' = calls /\ \A s : Target(s)' = Target(s)
  BY SameScenario, SameTarget
<1>2. RunsOK /\ ScenarioOK /\ VolumesOK
  BY DEF TodoInv, TempInv
<1>3. ASSUME vols' = vols PROVE SameFiles
  BY <1>2, <1>3 DEF SameFiles, VolumesOK
<1>4. CASE UNCHANGED <<run, vols>>
  BY <1>1, <1>4, Zenon DEF TempInv, VolumesOK, Temp, TempOf, Writing
<1>5. ASSUME NEW r \in Runs, Step(r) PROVE TempInv'
  <2> DEFINE Live(pc) == pc \in {"mode", "rename"}
  <2>1. \A a, b, todo : Moves(r, a, b, todo) =>
           /\ RunsOK' /\ \A s \in Runs \ {r} : run'[s] = run[s]
           /\ run[r].pc = a /\ run'[r].pc = b /\ run'[r].todo = todo
    BY DEF Moves
  <2>2. ASSUME NEW a, NEW b, NEW todo, Moves(r, a, b, todo), ~Live(a), ~Live(b), SameFiles
        PROVE  TempInv'
    <3>1. /\ \A s \in Runs \ {r} : run'[s] = run[s]
          /\ run[r].pc = a /\ run'[r].pc = b
      BY <2>1, <2>2
    <3> QED
      BY <1>1, <1>2, <2>2, <3>1, TempFrame
  <2>3. Target(r) \in DOMAIN vols
    BY <1>2, TargetIsThere DEF VolumesOK
  <2>4. run[r].pc \in {"write", "mode", "rename"} =>
           /\ Named(Writing(r).path) /\ Last(Temp(r)) = r
    <3> SUFFICES ASSUME run[r].pc \in {"write", "mode", "rename"}
                 PROVE  Named(Writing(r).path) /\ Last(Temp(r)) = r
      OBVIOUS
    <3>1. run[r].todo # <<>> /\ IsTodo(run[r].todo)
      BY DEF TodoInv
    <3>2. Named(Writing(r).path)
      BY <3>1, TailIsTodo DEF Writing, IsOp
    <3> QED
      BY <3>2, TempOfIsLast DEF Temp
  <2>5. CASE Begin(r)
    <3>1. /\ RunsOK' /\ \A s \in Runs \ {r} : run'[s] = run[s]
          /\ run[r].pc = "idle" /\ run'[r].pc = "define"
      BY <1>2, <2>5, BeginDoes
    <3>2. CASE vols' = vols
      BY <1>1, <1>2, <1>3, <3>1, <3>2, TempFrame
    <3>3. CASE vols' # vols
      <4> DEFINE w == Seed(Merged(r).vol)
      <4>1. Target(r) = r /\ vols' = [vols EXCEPT ![r] = w]
        BY <2>5, <3>3, Zenon DEF Begin
      <4>2. {"files", "dirs"} \subseteq DOMAIN w /\ \A p \in DOMAIN w.files : Last(p) \notin Runs
        BY <1>2, SeedDoes, SeedIsNamed DEF Named
      <4> HIDE DEF w
      <4>3. VolumesOK' /\ vols'[r] = w /\ \A v \in DOMAIN vols \ {r} : vols'[v] = vols[v]
        BY <1>2, <2>3, <4>1, <4>2, SetVolume
      <4>4. DOMAIN vols' = DOMAIN vols
        BY <1>2, <4>3 DEF VolumesOK
      <4>5. ASSUME NEW s \in Runs
            PROVE  /\ Live(run'[s].pc) => Temp(s)' \in DOMAIN vols'[Target(s)'].files
                   /\ \A v \in DOMAIN vols' : \A p \in DOMAIN vols'[v].files :
                         Last(p) = s => Live(run'[s].pc) /\ v = Target(s)' /\ p = Temp(s)'
        <5>1. /\ Live(run[s].pc) => Temp(s) \in DOMAIN vols[Target(s)].files
              /\ \A v \in DOMAIN vols : \A p \in DOMAIN vols[v].files :
                    Last(p) = s => Live(run[s].pc) /\ v = Target(s) /\ p = Temp(s)
          BY DEF TempInv
        <5>2. CASE s = r
          BY <1>1, <3>1, <4>1, <4>2, <4>3, <4>4, <5>1, <5>2
        <5>3. CASE s # r
          <6>1. Target(s) \in DOMAIN vols /\ Target(s) # r
            BY <1>2, <5>3, TargetIsThere, RunsAssumption DEF VolumesOK
          <6>2. run'[s] = run[s] /\ Temp(s)' = Temp(s)
            BY <3>1, <5>3 DEF Temp, TempOf, Writing
          <6> QED
            BY <1>1, <4>2, <4>3, <4>4, <5>1, <6>1, <6>2
        <5> QED
          BY <5>2, <5>3
      <4> QED
        BY <4>3, <4>5 DEF TempInv
    <3> QED
      BY <3>2, <3>3
  <2>6. CASE Write(r)
    <3> DEFINE x == Target(r)
               temp == Temp(r)
               w == WriteFile(vols[x], temp, File(Writing(r).text, DefaultMode))
    <3>1. vols' = [vols EXCEPT ![x] = w]
      BY <2>6, Zenon DEF Write, Sink, Temp
    <3>2. Moves(r, "write", "mode", run[r].todo)
      BY <1>2, <2>6, WriteDoes DEF Plain
    <3>3. /\ \A s \in Runs \ {r} : run'[s] = run[s]
          /\ run[r].pc = "write" /\ run'[r].pc = "mode" /\ run'[r].todo = run[r].todo
      BY <2>1, <3>2
    <3>4. {"files", "dirs"} \subseteq DOMAIN w /\ DOMAIN w.files = DOMAIN vols[x].files \cup {temp}
      BY WriteFileDoes
    <3>5. Last(temp) = r
      BY <2>4, <3>3
    <3>6. Temp(r)' = temp
      BY <3>3 DEF Temp, TempOf, Writing
    <3> HIDE DEF w, x, temp
    <3>7. VolumesOK' /\ vols'[x] = w /\ \A v \in DOMAIN vols \ {x} : vols'[v] = vols[v]
      BY <1>2, <2>3, <3>1, <3>4, SetVolume DEF x
    <3>8. DOMAIN vols' = DOMAIN vols /\ x \in DOMAIN vols /\ x = Target(r)
      BY <1>2, <2>3, <3>7 DEF VolumesOK, x
    <3>9. ASSUME NEW s \in Runs
          PROVE  /\ Live(run'[s].pc) => Temp(s)' \in DOMAIN vols'[Target(s)'].files
                 /\ \A v \in DOMAIN vols' : \A p \in DOMAIN vols'[v].files :
                       Last(p) = s => Live(run'[s].pc) /\ v = Target(s)' /\ p = Temp(s)'
      <4>1. /\ Live(run[s].pc) => Temp(s) \in DOMAIN vols[Target(s)].files
            /\ \A v \in DOMAIN vols : \A p \in DOMAIN vols[v].files :
                  Last(p) = s => Live(run[s].pc) /\ v = Target(s) /\ p = Temp(s)
        BY DEF TempInv
      <4>2. CASE s = r
        <5>1. ASSUME NEW v \in DOMAIN vols', NEW p \in DOMAIN vols'[v].files, Last(p) = r
              PROVE  v = x /\ p = temp
          <6>1. ~Live(run[r].pc)
            BY <3>3
          <6>2. ~(v \in DOMAIN vols /\ p \in DOMAIN vols[v].files)
            BY <4>1, <4>2, <5>1, <6>1
          <6> QED
            BY <3>4, <3>7, <3>8, <5>1, <6>2
        <5>2. temp \in DOMAIN vols'[x].files
          BY <3>4, <3>7
        <5> QED
          BY <1>1, <3>3, <3>6, <3>8, <4>2, <5>1, <5>2
      <4>3. CASE s # r
        <5>1. Target(s) \in DOMAIN vols
          BY <1>2, TargetIsThere DEF VolumesOK
        <5>2. run'[s] = run[s] /\ Temp(s)' = Temp(s)
          BY <3>3, <4>3 DEF Temp, TempOf, Writing
        <5>3. Live(run[s].pc) => Temp(s) \in DOMAIN vols'[Target(s)].files
          BY <3>4, <3>7, <4>1, <5>1
        <5>4. ASSUME NEW v \in DOMAIN vols', NEW p \in DOMAIN vols'[v].files, Last(p) = s
              PROVE  v \in DOMAIN vols /\ p \in DOMAIN vols[v].files
          BY <3>4, <3>5, <3>7, <3>8, <4>3, <5>4
        <5> QED
          BY <1>1, <4>1, <5>2, <5>3, <5>4
      <4> QED
        BY <4>2, <4>3
    <3> QED
      BY <3>7, <3>9 DEF TempInv
  <2>7. CASE Publish(r)
    <3> DEFINE x == Target(r)
               temp == Temp(r)
               to == Writing(r).path
               w == Rename(vols[x], temp, to)
    <3>1. vols' = [vols EXCEPT ![x] = w]
      BY <2>7, Zenon DEF Publish, Sink, Temp
    <3>2. \E todo : Moves(r, "rename", "build", todo)
      BY <1>2, <2>7, PublishDoes DEF Plain
    <3>3. /\ \A s \in Runs \ {r} : run'[s] = run[s]
          /\ run[r].pc = "rename" /\ run'[r].pc = "build"
      BY <2>1, <3>2
    <3>4. {"files", "dirs"} \subseteq DOMAIN w /\ DOMAIN w.files = (DOMAIN vols[x].files \ {temp}) \cup {to}
      BY RenameDoes
    <3>5. Last(temp) = r /\ Last(to) \notin Runs
      BY <2>4, <3>3 DEF Named
    <3> HIDE DEF w, x, temp, to
    <3>6. VolumesOK' /\ vols'[x] = w /\ \A v \in DOMAIN vols \ {x} : vols'[v] = vols[v]
      BY <1>2, <2>3, <3>1, <3>4, SetVolume DEF x
    <3>7. DOMAIN vols' = DOMAIN vols /\ x \in DOMAIN vols /\ x = Target(r) /\ temp = Temp(r)
      BY <1>2, <2>3, <3>6 DEF VolumesOK, x, temp
    <3>8. ASSUME NEW s \in Runs
          PROVE  /\ Live(run'[s].pc) => Temp(s)' \in DOMAIN vols'[Target(s)'].files
                 /\ \A v \in DOMAIN vols' : \A p \in DOMAIN vols'[v].files :
                       Last(p) = s => Live(run'[s].pc) /\ v = Target(s)' /\ p = Temp(s)'
      <4>1. /\ Live(run[s].pc) => Temp(s) \in DOMAIN vols[Target(s)].files
            /\ \A v \in DOMAIN vols : \A p \in DOMAIN vols[v].files :
                  Last(p) = s => Live(run[s].pc) /\ v = Target(s) /\ p = Temp(s)
        BY DEF TempInv
      <4>2. ASSUME NEW v \in DOMAIN vols', NEW p \in DOMAIN vols'[v].files, Last(p) = s
            PROVE  v \in DOMAIN vols /\ p \in DOMAIN vols[v].files /\ ~(v = x /\ p = temp)
        BY <3>4, <3>5, <3>6, <3>7, <4>2
      <4>3. CASE s = r
        BY <3>3, <3>7, <4>1, <4>2, <4>3
      <4>4. CASE s # r
        <5>1. Target(s) \in DOMAIN vols
          BY <1>2, TargetIsThere DEF VolumesOK
        <5>2. run'[s] = run[s] /\ Temp(s)' = Temp(s)
          BY <3>3, <4>4 DEF Temp, TempOf, Writing
        <5>3. Live(run[s].pc) => Temp(s) # temp
          <6> SUFFICES ASSUME Live(run[s].pc) PROVE Temp(s) # temp
            OBVIOUS
          <6>1. run[s].todo # <<>> /\ IsTodo(run[s].todo)
            BY DEF TodoInv
          <6>2. Last(Temp(s)) = s
            BY <6>1, TailIsTodo, TempOfIsLast DEF Writing, IsOp, Temp
          <6> QED
            BY <3>5, <4>4, <6>2
        <5>4. Live(run[s].pc) => Temp(s) \in DOMAIN vols'[Target(s)].files
          BY <3>4, <3>6, <4>1, <5>1, <5>3
        <5> QED
          BY <1>1, <4>1, <4>2, <5>2, <5>4
      <4> QED
        BY <4>3, <4>4
    <3> QED
      BY <3>6, <3>8 DEF TempInv
  <2>8. CASE SetMode(r)
    <3>1. SameFiles
      BY <1>2, <2>8, ModesDoes DEF SetMode
    <3>2. Moves(r, "mode", "rename", run[r].todo)
      BY <1>2, <2>8, SetModeDoes DEF Plain
    <3>3. /\ \A s \in Runs \ {r} : run'[s] = run[s]
          /\ run[r].pc = "mode" /\ run'[r].pc = "rename" /\ run'[r].todo = run[r].todo
      BY <2>1, <3>2
    <3> QED
      BY <1>1, <1>2, <3>1, <3>3, TempFrame
  <2>9. CASE Folder(r)
    <3> DEFINE path == Head(run[r].todo).path
               x == Target(r)
               w == MkdirAll(vols[x], path)
    <3>1. vols' = vols \/ vols' = [vols EXCEPT ![x] = w]
      BY <2>9, Zenon DEF Folder, Sink
    <3>2. SameFiles
      <4>1. {"files", "dirs"} \subseteq DOMAIN w /\ DOMAIN w.files = DOMAIN vols[x].files
        BY <1>2, <2>3, MkdirAllDoes DEF VolumesOK
      <4> HIDE DEF w, x
      <4>2. CASE vols' = [vols EXCEPT ![x] = w]
        <5>1. VolumesOK' /\ vols'[x] = w /\ \A v \in DOMAIN vols \ {x} : vols'[v] = vols[v]
          BY <1>2, <2>3, <4>1, <4>2, SetVolume DEF x
        <5> QED
          BY <4>1, <5>1 DEF SameFiles
      <4> QED
        BY <1>3, <3>1, <4>2
    <3>3. Moves(r, "build", "build", Tail(run[r].todo))
      BY <1>2, <2>9, FolderDoes DEF Plain
    <3> QED
      BY <2>2, <3>2, <3>3
  <2>10. CASE Save(r)
    <3> DEFINE op == Head(run[r].todo)
    <3>1. vols' = vols \/ vols' = Modes(r, op.path, op.mode)
      <4>1. vols' = IF Unchanged(r, op) /\ Differs(r, op.path, op.mode)
                    THEN Modes(r, op.path, op.mode) ELSE vols
        BY <2>10, Zenon DEF Save
      <4> HIDE DEF op
      <4> QED
        BY <4>1
    <3>2. SameFiles
      BY <1>2, <1>3, <3>1, ModesDoes
    <3>3. \E b \in {"write", "build"} : \E todo, e : Plain(r, "build", b, todo) \/ Warns(r, "build", b, todo, e)
      BY <1>2, <2>10, SaveDoes, Zenon
    <3>4. \E b \in {"write", "build"} : \E todo : Moves(r, "build", b, todo)
      BY <3>3 DEF Plain, Warns
    <3> QED
      BY <2>2, <3>2, <3>4
  <2>11. CASE Render(r) \/ LookUp(r) \/ Store(r)
    <3>1. SameFiles
      BY <1>3, <2>11 DEF Render, LookUp, Store
    <3>2. /\ \A s \in Runs \ {r} : run'[s] = run[s]
          /\ run[r].pc \in {"define", "tokenize"} /\ run'[r].pc \in {"define", "tokenize", "failed"}
      BY <1>2, <2>11, RenderDoes, LookUpDoes, StoreDoes DEF Answers, Plain, Moves
    <3> QED
      BY <1>1, <1>2, <3>1, <3>2, TempFrame
  <2>12. CASE Defined(r) \/ Inject(r) \/ SaveRaw(r) \/ Finish(r) \/ Compare(r)
    <3>1. SameFiles
      BY <1>3, <2>12 DEF Defined, Inject, SaveRaw, Finish, Compare
    <3>2. CASE Defined(r)
      <4>1. \E b \in {"failed", "build"} : \E todo : Plain(r, "define", b, todo)
        BY <1>2, <3>2, DefinedDoes, Zenon
      <4> QED
        BY <2>2, <3>1, <4>1 DEF Plain
    <3>3. CASE Inject(r)
      <4>1. \E b \in {"failed", "build"} : \E todo, e :
                Plain(r, "build", b, todo) \/ Warns(r, "build", b, todo, e)
        BY <1>2, <3>3, InjectDoes, Zenon
      <4>2. \E b \in {"failed", "build"} : \E todo : Moves(r, "build", b, todo)
        BY <4>1 DEF Plain, Warns
      <4> QED
        BY <2>2, <3>1, <4>2
    <3>4. CASE SaveRaw(r)
      <4>1. \E b \in {"write", "build"} : \E todo : Plain(r, "build", b, todo)
        BY <1>2, <3>4, SaveRawDoes
      <4> QED
        BY <2>2, <3>1, <4>1 DEF Plain
    <3>5. CASE Finish(r)
      <4>1. \E b \in {"compare", "done"} : Moves(r, "build", b, run[r].todo)
        BY <1>2, <3>5, FinishDoes
      <4> QED
        BY <2>2, <3>1, <4>1
    <3>6. CASE Compare(r)
      <4>1. \E b \in {"compare", "done"} : Plain(r, "compare", b, run[r].todo)
        BY <1>2, <3>6, CompareDoes
      <4> QED
        BY <2>2, <3>1, <4>1 DEF Plain
    <3> QED
      BY <2>12, <3>2, <3>3, <3>4, <3>5, <3>6
  <2> QED
    BY <1>5, <2>5, <2>6, <2>7, <2>8, <2>9, <2>10, <2>11, <2>12 DEF Step
<1>6. CASE Snapshot
  BY <1>4, <1>6 DEF Snapshot
<1>7. CASE UNCHANGED vars
  BY <1>4, <1>7 DEF vars
<1> QED
  BY <1>5, <1>6, <1>7 DEF Next

\* At the start no file has the name of a call.
LEMMA InitTempInv == Init => TodoInv /\ TempInv
<1> SUFFICES ASSUME Init PROVE TodoInv /\ TempInv
  OBVIOUS
<1>1. PICK s \in Scenarios :
        /\ inst = s.inst /\ calls = s.calls
        /\ vols = [v \in Lasting \cup Runs |->
                     IF v \in {"os", "given"} THEN s.disks[v]
                     ELSE IF v = "shared" /\ s.inst.mem THEN Seed(s.inst.vol)
                     ELSE NoVolume]
  BY DEF Init
<1>2. ScenarioOK
  BY <1>1 DEF ScenarioOK
<1>3. run = [r \in Runs |-> Idle]
  BY DEF Init
<1>4. IsRun(Idle) /\ Idle.pc = "idle" /\ Idle.todo = <<>>
  BY DEF Idle, IsRun
<1>5. TodoInv
  BY <1>2, <1>3, <1>4, NoneIsTodo DEF TodoInv, RunsOK, PcOK
<1>6. ASSUME NEW v \in Lasting \cup Runs
      PROVE  {"files", "dirs"} \subseteq DOMAIN vols[v] /\ \A p \in DOMAIN vols[v].files : Last(p) \notin Runs
  <2>1. CASE v \in {"os", "given"}
    <3>1. vols[v] = s.disks[v]
      BY <1>1, <2>1
    <3>2. DOMAIN s.disks[v] = {"files", "dirs"} /\ \A p \in DOMAIN s.disks[v].files : Named(p)
      BY <2>1, PathsAssumption
    <3> QED
      BY <3>1, <3>2 DEF Named
  <2>2. CASE vols[v] = Seed(s.inst.vol)
    <3>1. \A p \in DOMAIN s.inst.vol : Named(p)
      BY PathsAssumption
    <3> QED
      BY <2>2, <3>1, SeedDoes DEF Named
  <2>3. CASE vols[v] = NoVolume
    <3>1. NoVolume = [files |-> <<>>, dirs |-> {}] /\ DOMAIN <<>> = {}
      BY DEF NoVolume
    <3> QED
      BY <2>3, <3>1
  <2> QED
    BY <1>1, <2>1, <2>2, <2>3
<1>7. DOMAIN vols = Lasting \cup Runs
  BY <1>1
<1>8. TempInv
  BY <1>3, <1>4, <1>6, <1>7 DEF TempInv, VolumesOK
<1> QED
  BY <1>5, <1>8

\* The caches and the log keep their limits, whoever fills them, and a volume
\* has a temp file of a call exactly while the call is between the creation
\* of that file and its rename (writeAtomicMode, go/filehandler.go:1000).
THEOREM TypeCorrect == Spec => []TypeOK
<1> DEFINE IInv == TodoInv /\ TempInv /\ CacheInv /\ LogInv
<1>1. Init => IInv
  <2>1. Init => CacheInv
    <3>1. Bounded(<<>>, MaxTemplates) /\ Bounded(<<>>, MaxTokens)
      <4>1. DOMAIN <<>> = {}
        OBVIOUS
      <4> QED
        BY <4>1, FS_EmptySet, SharedAssumption DEF Bounded
    <3> QED
      BY <3>1 DEF Init, SharedInit, CacheInv
  <2> QED
    BY <2>1, InitTempInv, InitLogInv
<1>2. IInv /\ [Next]_vars => IInv'
  BY StepTodoInv, StepTempInv, StepCacheInv, StepLogInv
<1>3. IInv => TypeOK
  <2> SUFFICES ASSUME IInv PROVE TypeOK
    OBVIOUS
  <2>1. \A r \in Runs : PcOK(run[r].pc)
    BY DEF TodoInv
  <2>2. Cardinality(DOMAIN templates) <= MaxTemplates /\ Cardinality(DOMAIN tokens) <= MaxTokens
    BY DEF CacheInv, Bounded
  <2>3. Len(dlog) <= DLogMax
    <3> DEFINE n == Len(history)
               size == Smaller(DLogMax, n - cleared)
    <3>1. history \in Seq(ToSet(history)) /\ cleared \in 0..n /\ DLogMax \in Nat /\ n \in Nat
      BY SharedAssumption DEF LogInv, HistoryIsKept
    <3>2. size \in 0..n /\ size <= DLogMax
      BY <3>1 DEF Smaller
    <3>3. dlog = SubSeq(history, n + 1 - size, n)
      BY DEF LogInv, BufferHoldsTheLast
    <3> HIDE DEF size
    <3>4. Len(SubSeq(history, n + 1 - size, n)) = size
      BY <3>1, <3>2, SubSeqProperties
    <3> QED
      BY <3>2, <3>3, <3>4
  <2>4. ASSUME NEW r \in Runs, NEW v \in DOMAIN vols
        PROVE  (\E p \in DOMAIN vols[v].files : Last(p) = r)
                 <=> run[r].pc \in {"mode", "rename"} /\ v = Target(r)
    <3>1. /\ run[r].pc \in {"mode", "rename"} => Temp(r) \in DOMAIN vols[Target(r)].files
          /\ \A p \in DOMAIN vols[v].files :
                Last(p) = r => run[r].pc \in {"mode", "rename"} /\ v = Target(r)
      BY DEF TempInv
    <3>2. run[r].pc \in {"mode", "rename"} => Last(Temp(r)) = r
      BY TailIsTodo, TempOfIsLast DEF TodoInv, Writing, IsOp, Temp
    <3> QED
      BY <3>1, <3>2
  <2> QED
    BY <2>1, <2>2, <2>3, <2>4 DEF TypeOK, PcOK
<1> HIDE DEF IInv
<1> QED
  BY <1>1, <1>2, <1>3, PTL DEF Spec
-----------------------------------------------------------------------------
(* A call that has a volume of its own. *)

\* The volumes a call has made of one, operation after operation.
IsMaking(m, v, ops) ==
    m = [k \in 0..Len(ops) |-> IF k = 0 THEN v ELSE After(m[k - 1], ops[k])]

\* A set that has 0 and with each number the next one has them all.
LEMMA EveryNumber ==
    ASSUME NEW S, 0 \in S, \A n \in Nat : n \in S => n + 1 \in S
    PROVE  Nat \subseteq S
<1> DEFINE T == Nat \ S
           R == OpToRel(<, Nat)
<1> SUFFICES ASSUME T # {} PROVE FALSE
  OBVIOUS
<1>1. IsWellFoundedOn(R, Nat)
  BY NatLessThanWellFounded
<1>2. T \in SUBSET Nat
  OBVIOUS
<1>3. \E x \in T : \A y \in T : ~ (<<y, x>> \in R)
  <2> HIDE DEF R, T
  <2> QED
    BY <1>1, <1>2, WFMin
<1>4. \E x \in T : \A y \in T : x <= y
  <2>1. \A x \in T : \A y \in T : ~ (<<y, x>> \in R) => x <= y
    BY DEF OpToRel
  <2> QED
    BY <1>3, <2>1
<1> QED
  BY <1>4

\* The recursion of Made has a solution, whatever the volume.
LEMMA MakingIs ==
    ASSUME NEW v, NEW ops, Len(ops) \in Nat
    PROVE  \E m : IsMaking(m, v, ops) /\ Made(v, ops) = m[Len(ops)]
<1> DEFINE To(m, n) == m = [k \in 0..n |-> IF k = 0 THEN v ELSE After(m[k - 1], ops[k])]
           S == {n \in Nat : \E m : To(m, n)}
<1>1. 0 \in S
  <2> DEFINE m == [k \in 0..0 |-> v]
  <2>1. m = [k \in 0..0 |-> IF k = 0 THEN v ELSE After(m[k - 1], ops[k])]
    OBVIOUS
  <2> HIDE DEF m
  <2> QED
    BY <2>1
<1>2. ASSUME NEW n \in Nat, n \in S PROVE n + 1 \in S
  <2>1. PICK m : To(m, n)
    BY <1>2
  <2> DEFINE g == [k \in 0..(n + 1) |-> IF k = 0 THEN v ELSE After(m[k - 1], ops[k])]
  <2>2. \A k \in 0..n : g[k] = m[k]
    BY <2>1
  <2>3. g = [k \in 0..(n + 1) |-> IF k = 0 THEN v ELSE After(g[k - 1], ops[k])]
    <3>1. ASSUME NEW k \in 0..(n + 1), k # 0 PROVE k - 1 \in 0..n
      BY <3>1
    <3>2. \A k \in 0..(n + 1) : k # 0 => g[k - 1] = m[k - 1]
      BY <2>2, <3>1
    <3> QED
      BY <3>2
  <2> HIDE DEF g
  <2>4. To(g, n + 1)
    BY <2>3
  <2> QED
    BY <2>4
<1>3. \A n \in Nat : \E m : To(m, n)
  <2>1. Nat \subseteq S
    <3> HIDE DEF S
    <3> QED
      BY <1>1, <1>2, EveryNumber
  <2> QED
    BY <2>1
<1>4. \E m : IsMaking(m, v, ops)
  BY <1>3 DEF IsMaking
<1>5. Made(v, ops) = (CHOOSE m : IsMaking(m, v, ops))[Len(ops)]
  BY Zenon DEF Made, IsMaking
<1> DEFINE m == CHOOSE m : IsMaking(m, v, ops)
<1>6. IsMaking(m, v, ops)
  BY <1>4, Zenon
<1> QED
  BY <1>5, <1>6

\* What is below the bookkeeping folder is not looked at, and so are the
\* directories on the way to the log, which has not been written at first.
Log == Append(Meta, "log")

Free(d) == ~IsBelow(d, Meta) /\ d \notin Above(Log)

IsPath(p) == p \in Seq(ToSet(p))

\* A volume knows the directories above its files.
Rooted(v) ==
    /\ \A p \in DOMAIN v.files : IsPath(p) /\ Above(p) \subseteq v.dirs
    /\ \A d \in v.dirs : IsPath(d)

\* A volume v, in which a call r may have a temp file, and a volume w hold
\* the same outside of the bookkeeping.
Alike(r, v, w) ==
    /\ {p \in DOMAIN v.files : Last(p) # r /\ ~IsBelow(p, Meta)}
         = {p \in DOMAIN w.files : ~IsBelow(p, Meta)}
    /\ \A p \in DOMAIN w.files : ~IsBelow(p, Meta) => v.files[p].text = w.files[p].text
    /\ {d \in v.dirs : Free(d)} = {d \in w.dirs : Free(d)}

\* The start of a path, and the start of that.
LEMMA StartOfPath ==
    ASSUME NEW p, IsPath(p), NEW n \in 0..Len(p)
    PROVE  LET d == SubSeq(p, 1, n)
           IN  /\ IsPath(d) /\ Len(d) = n /\ Len(p) \in Nat
               /\ \A m \in 0..n : SubSeq(d, 1, m) = SubSeq(p, 1, m)
<1> DEFINE S == ToSet(p)
           d == SubSeq(p, 1, n)
<1>1. p \in Seq(S) /\ Len(p) \in Nat
  BY DEF IsPath
<1>2. \A i \in 1..Len(p) : p[i] \in S
  BY <1>1
<1>3. ASSUME NEW q \in Seq(S), NEW k \in 0..Len(q)
      PROVE  /\ SubSeq(q, 1, k) \in Seq(S) /\ Len(SubSeq(q, 1, k)) = k
             /\ \A i \in 1..k : SubSeq(q, 1, k)[i] = q[i]
  <2>1. \A i \in 1..k : q[i] \in S
    BY <1>3
  <2> QED
    BY <2>1, SubSeqProperties
<1>4. d \in Seq(S) /\ Len(d) = n /\ \A i \in 1..n : d[i] = p[i]
  BY <1>1, <1>3
<1> HIDE DEF d
<1>5. IsPath(d)
  <2>1. \A i \in 1..Len(d) : d[i] \in ToSet(d)
    BY <1>4 DEF ToSet
  <2> QED
    BY <1>4, <2>1 DEF IsPath
<1>6. ASSUME NEW m \in 0..n PROVE SubSeq(d, 1, m) = SubSeq(p, 1, m)
  <2> DEFINE a == SubSeq(d, 1, m)
             b == SubSeq(p, 1, m)
  <2>1. a \in Seq(S) /\ Len(a) = m /\ \A i \in 1..m : a[i] = d[i]
    BY <1>3, <1>4
  <2>2. b \in Seq(S) /\ Len(b) = m /\ \A i \in 1..m : b[i] = p[i]
    BY <1>1, <1>3
  <2> HIDE DEF a, b
  <2>3. a = b
    BY <1>4, <2>1, <2>2
  <2> QED
    BY <2>3 DEF a, b
<1> QED
  BY <1>1, <1>4, <1>5, <1>6 DEF d

\* The log is below every directory on the way to it.
LEMMA LogIs ==
    /\ IsPath(Log) /\ Len(Log) = Len(Meta) + 1 /\ Len(Meta) \in Nat /\ IsPath(Meta)
    /\ SubSeq(Log, 1, Len(Meta)) = Meta /\ IsBelow(Log, Meta) /\ Last(Log) \notin Runs
    /\ \A d \in Above(Log) : IsBelow(Log, d)
<1> DEFINE S == ToSet(Meta) \cup {"log"}
           m == Len(Meta)
<1>1. Meta \in Seq(ToSet(Meta)) /\ m \in Nat /\ "log" \notin Runs
  BY PathsAssumption
<1>2. Meta \in Seq(S)
  BY <1>1, SeqMonotonic
<1>3. /\ Log \in Seq(S) /\ Len(Log) = m + 1 /\ Log[m + 1] = "log"
      /\ \A i \in 1..m : Log[i] = Meta[i]
  <2>1. "log" \in S
    OBVIOUS
  <2> HIDE DEF S
  <2> QED
    BY <1>2, <2>1, AppendProperties DEF Log
<1>4. IsPath(Log)
  <2>1. \A i \in 1..Len(Log) : Log[i] \in ToSet(Log)
    BY <1>3 DEF ToSet
  <2> QED
    BY <1>3, <2>1 DEF IsPath
<1>5. SubSeq(Log, 1, m) = Meta
  <2> DEFINE b == SubSeq(Log, 1, m)
  <2>1. \A i \in 1..m : Log[i] \in S
    BY <1>1, <1>3
  <2>2. b \in Seq(S) /\ Len(b) = m /\ \A i \in 1..m : b[i] = Log[i]
    BY <1>1, <1>3, <2>1, SubSeqProperties
  <2> HIDE DEF b
  <2>3. b = Meta
    BY <1>2, <1>3, <2>2
  <2> QED
    BY <2>3 DEF b
<1>6. IsBelow(Log, Meta)
  BY <1>1, <1>3, <1>5 DEF IsBelow
<1>7. Last(Log) \notin Runs
  BY <1>1, <1>3 DEF Last
<1>8. ASSUME NEW d \in Above(Log) PROVE IsBelow(Log, d)
  <2>1. PICK n \in 1..(Len(Log) - 1) : d = SubSeq(Log, 1, n)
    BY DEF Above
  <2>2. n \in 0..Len(Log) /\ n < Len(Log)
    BY <1>1, <1>3
  <2>3. Len(d) = n
    BY <1>4, <2>1, <2>2, StartOfPath
  <2> QED
    BY <2>1, <2>2, <2>3 DEF IsBelow
<1> QED
  BY <1>1, <1>3, <1>4, <1>5, <1>6, <1>7, <1>8 DEF IsPath

\* Nothing above a path below the bookkeeping folder is looked at.
LEMMA NothingFree ==
    ASSUME NEW p, IsPath(p), IsBelow(p, Meta)
    PROVE  \A d \in Above(p) : ~Free(d)
<1> SUFFICES ASSUME NEW d \in Above(p), ~IsBelow(d, Meta) PROVE d \in Above(Log)
  BY DEF Free
<1> DEFINE m == Len(Meta)
<1>1. PICK n \in 1..(Len(p) - 1) : d = SubSeq(p, 1, n)
  BY DEF Above
<1>2. Len(p) \in Nat /\ n \in 0..Len(p) /\ m \in Nat /\ m < Len(p) /\ SubSeq(p, 1, m) = Meta
  BY <1>1, LogIs DEF IsPath, IsBelow
<1>3. Len(d) = n /\ \A k \in 0..n : SubSeq(d, 1, k) = SubSeq(p, 1, k)
  BY <1>1, <1>2, StartOfPath
<1>4. n <= m
  BY <1>2, <1>3 DEF IsBelow
<1>5. SubSeq(Meta, 1, n) = SubSeq(p, 1, n)
  <2>1. m \in 0..Len(p) /\ n \in 0..m
    BY <1>2, <1>4
  <2> QED
    BY <1>2, <2>1, StartOfPath
<1>6. SubSeq(Meta, 1, n) = SubSeq(Log, 1, n)
  <2>1. m \in 0..Len(Log) /\ n \in 0..m
    BY <1>2, <1>4, LogIs
  <2> QED
    BY <2>1, LogIs, StartOfPath
<1>7. n \in 1..(Len(Log) - 1)
  BY <1>2, <1>4, LogIs
<1> QED
  BY <1>1, <1>5, <1>6, <1>7 DEF Above

\* A directory that is not itself below the bookkeeping folder, and has
\* something there below it, has the log below it.
LEMMA LogIsBelow ==
    ASSUME NEW p, IsPath(p), IsBelow(p, Meta), NEW d, IsPath(d), IsBelow(p, d), ~IsBelow(d, Meta)
    PROVE  IsBelow(Log, d)
<1> DEFINE m == Len(Meta)
           n == Len(d)
<1>1. /\ Len(p) \in Nat /\ n \in Nat /\ m \in Nat /\ m < Len(p) /\ SubSeq(p, 1, m) = Meta
      /\ n < Len(p) /\ SubSeq(p, 1, n) = d
  BY LogIs DEF IsPath, IsBelow
<1>2. n <= m
  <2> SUFFICES ASSUME n > m PROVE FALSE
    BY <1>1
  <2>1. n \in 0..Len(p) /\ m \in 0..n
    BY <1>1
  <2>2. SubSeq(d, 1, m) = Meta
    BY <1>1, <2>1, StartOfPath
  <2> QED
    BY <2>2 DEF IsBelow
<1>3. m \in 0..Len(p) /\ n \in 0..m /\ m \in 0..Len(Log) /\ n < Len(Log)
  BY <1>1, <1>2, LogIs
<1>4. SubSeq(Meta, 1, n) = SubSeq(p, 1, n)
  BY <1>1, <1>3, StartOfPath
<1>5. SubSeq(Meta, 1, n) = SubSeq(Log, 1, n)
  BY <1>3, LogIs, StartOfPath
<1> QED
  BY <1>1, <1>3, <1>4, <1>5 DEF IsBelow

\* The directories above a path are paths.
LEMMA AbovePaths ==
    ASSUME NEW p, IsPath(p)
    PROVE  \A d \in Above(p) : IsPath(d)
<1> SUFFICES ASSUME NEW d \in Above(p) PROVE IsPath(d)
  OBVIOUS
<1>1. PICK n \in 1..(Len(p) - 1) : d = SubSeq(p, 1, n)
  BY DEF Above
<1>2. Len(p) \in Nat
  BY DEF IsPath
<1>3. n \in 0..Len(p)
  BY <1>2
<1> QED
  BY <1>1, <1>3, StartOfPath

\* A volume that is seeded knows its directories.

LEMMA RootedSeed ==
    ASSUME NEW vol, \A p \in DOMAIN vol : IsPath(p)
    PROVE  Rooted(Seed(vol))
<1> DEFINE texts == {p \in DOMAIN vol : vol[p] # EmptyDir}
           ways == UNION {Above(p) : p \in DOMAIN vol}
           v == Seed(vol)
           files == DOMAIN v.files
           dirs == v.dirs
<1>1. files = texts /\ dirs = ways \cup (DOMAIN vol \ texts)
  BY DEF Seed
<1>2. texts \subseteq DOMAIN vol /\ \A p \in DOMAIN vol : \A d \in Above(p) : IsPath(d)
  BY AbovePaths
<1> HIDE DEF files, dirs, ways, texts
<1>3. \A p \in files : IsPath(p) /\ Above(p) \subseteq dirs
  BY <1>1, <1>2 DEF ways
<1>4. ASSUME NEW d \in dirs PROVE IsPath(d)
  <2>1. CASE d \in DOMAIN vol
    BY <2>1
  <2>2. CASE d \notin DOMAIN vol
    <3>1. d \in ways
      BY <1>1, <1>2, <1>4, <2>2
    <3>2. PICK p \in DOMAIN vol : d \in Above(p)
      BY <3>1 DEF ways
    <3> QED
      BY <1>2, <3>2
  <2> QED
    BY <2>1, <2>2
<1> QED
  BY <1>3, <1>4 DEF Rooted, files, dirs

\* What one operation does to the files and the directories.
LEMMA MkdirIs ==
    ASSUME NEW v, {"files", "dirs"} \subseteq DOMAIN v, NEW path
    PROVE  LET w == MkdirAll(v, path)
           IN  w.files = v.files /\ w.dirs = v.dirs \cup Above(path) \cup ({path} \ {<<>>})
BY DEF MkdirAll

LEMMA WriteFileIs ==
    ASSUME NEW v, NEW path, NEW text, NEW mode
    PROVE  LET w == WriteFile(v, path, File(text, mode))
           IN  /\ DOMAIN w.files = DOMAIN v.files \cup {path}
               /\ w.files[path].text = text
               /\ \A p \in DOMAIN v.files : p # path => w.files[p] = v.files[p]
               /\ w.dirs = v.dirs \cup Above(path)
BY DEF WriteFile, Put, Over, File

\* An operation makes a directory, writes a text or does nothing.
Injects(v, op) == HasFile(v, op.path) /\ v.files[op.path].text \in DOMAIN Injected

NewText(v, op) == IF op.act = "inject" THEN Injected[v.files[op.path].text] ELSE op.text

LEMMA AfterIs ==
    ASSUME NEW v, NEW op
    PROVE  /\ op.act = "folder" => After(v, op) = MkdirAll(v, op.path)
           /\ op.act = "inject" /\ ~Injects(v, op) => After(v, op) = v
           /\ op.act # "folder" /\ (op.act = "inject" => Injects(v, op)) =>
                 After(v, op) = WriteFile(v, op.path, File(NewText(v, op), MemMode))
BY DEF After, Injects, NewText

LEMMA RootedAfter ==
    ASSUME NEW v, {"files", "dirs"} \subseteq DOMAIN v, Rooted(v), NEW op, IsPath(op.path)
    PROVE  Rooted(After(v, op)) /\ {"files", "dirs"} \subseteq DOMAIN After(v, op)
<1> DEFINE path == op.path
<1>1. \A d \in Above(path) : IsPath(d)
  BY AbovePaths
<1>2. ASSUME NEW w, {"files", "dirs"} \subseteq DOMAIN w, DOMAIN w.files \subseteq DOMAIN v.files \cup {path},
             v.dirs \subseteq w.dirs, w.dirs \subseteq v.dirs \cup Above(path) \cup {path},
             path \in DOMAIN w.files => Above(path) \subseteq w.dirs
      PROVE  Rooted(w) /\ {"files", "dirs"} \subseteq DOMAIN w
  <2>1. \A p \in DOMAIN w.files : IsPath(p) /\ Above(p) \subseteq w.dirs
    BY <1>2 DEF Rooted
  <2>2. \A d \in w.dirs : IsPath(d)
    BY <1>1, <1>2 DEF Rooted
  <2> QED
    BY <1>2, <2>1, <2>2 DEF Rooted
<1>3. CASE After(v, op) = v
  BY <1>3
<1>4. CASE After(v, op) = MkdirAll(v, path)
  <2> DEFINE w == MkdirAll(v, path)
  <2>1. /\ {"files", "dirs"} \subseteq DOMAIN w
        /\ w.files = v.files /\ w.dirs = v.dirs \cup Above(path) \cup ({path} \ {<<>>})
    BY MkdirIs, MkdirAllDoes
  <2> HIDE DEF w
  <2> QED
    BY <1>2, <1>4, <2>1 DEF w
<1>5. ASSUME NEW text, After(v, op) = WriteFile(v, path, File(text, MemMode))
      PROVE  Rooted(After(v, op)) /\ {"files", "dirs"} \subseteq DOMAIN After(v, op)
  <2> DEFINE w == WriteFile(v, path, File(text, MemMode))
  <2>1. /\ {"files", "dirs"} \subseteq DOMAIN w
        /\ DOMAIN w.files = DOMAIN v.files \cup {path} /\ w.dirs = v.dirs \cup Above(path)
    BY WriteFileIs, WriteFileDoes
  <2> HIDE DEF w
  <2> QED
    BY <1>2, <1>5, <2>1 DEF w
<1> QED
  BY <1>3, <1>4, <1>5, AfterIs

\* The same text written to two volumes, whatever the modes.
LEMMA WriteBoth ==
    ASSUME NEW r, NEW v, NEW w, Alike(r, v, w), NEW path, Last(path) # r,
           NEW text, NEW m, NEW n
    PROVE  Alike(r, WriteFile(v, path, File(text, m)), WriteFile(w, path, File(text, n)))
<1> DEFINE a == WriteFile(v, path, File(text, m))
           b == WriteFile(w, path, File(text, n))
<1>1. /\ DOMAIN a.files = DOMAIN v.files \cup {path} /\ a.files[path].text = text
      /\ \A p \in DOMAIN v.files : p # path => a.files[p] = v.files[p]
      /\ a.dirs = v.dirs \cup Above(path)
      /\ DOMAIN b.files = DOMAIN w.files \cup {path} /\ b.files[path].text = text
      /\ \A p \in DOMAIN w.files : p # path => b.files[p] = w.files[p]
      /\ b.dirs = w.dirs \cup Above(path)
  BY WriteFileIs
<1> HIDE DEF a, b
<1>2. {p \in DOMAIN a.files : Last(p) # r /\ ~IsBelow(p, Meta)}
        = {p \in DOMAIN b.files : ~IsBelow(p, Meta)}
  BY <1>1 DEF Alike
<1>3. ASSUME NEW p \in DOMAIN b.files, ~IsBelow(p, Meta) PROVE a.files[p].text = b.files[p].text
  <2>1. CASE p = path
    BY <1>1, <2>1
  <2>2. CASE p # path
    <3>1. p \in DOMAIN w.files /\ b.files[p] = w.files[p]
      BY <1>1, <2>2
    <3>2. p \in DOMAIN v.files /\ v.files[p].text = w.files[p].text
      BY <1>3, <3>1 DEF Alike
    <3> QED
      BY <1>1, <2>2, <3>1, <3>2
  <2> QED
    BY <2>1, <2>2
<1>4. {d \in a.dirs : Free(d)} = {d \in b.dirs : Free(d)}
  BY <1>1 DEF Alike
<1> QED
  BY <1>2, <1>3, <1>4 DEF Alike, a, b

\* Two volumes that look the same are the same to a third.
Unseen(v, w) ==
    /\ {p \in DOMAIN v.files : ~IsBelow(p, Meta)} = {p \in DOMAIN w.files : ~IsBelow(p, Meta)}
    /\ \A p \in DOMAIN w.files : ~IsBelow(p, Meta) => v.files[p].text = w.files[p].text
    /\ {d \in v.dirs : Free(d)} = {d \in w.dirs : Free(d)}

LEMMA UnseenStays ==
    ASSUME NEW r, NEW v, NEW w, NEW x, Unseen(v, x)
    PROVE  /\ Alike(r, v, w) <=> Alike(r, x, w)
           /\ Alike(r, w, v) <=> Alike(r, w, x)
<1>1. ASSUME Alike(r, v, w) PROVE Alike(r, x, w)
  BY <1>1 DEF Unseen, Alike
<1>2. ASSUME Alike(r, x, w) PROVE Alike(r, v, w)
  BY <1>2 DEF Unseen, Alike
<1>3. ASSUME Alike(r, w, v) PROVE Alike(r, w, x)
  BY <1>3 DEF Unseen, Alike
<1>4. ASSUME Alike(r, w, x) PROVE Alike(r, w, v)
  BY <1>4 DEF Unseen, Alike
<1> QED
  BY <1>1, <1>2, <1>3, <1>4

\* Below the bookkeeping folder a write is not seen.
LEMMA WriteHidden ==
    ASSUME NEW v, NEW path, IsPath(path), IsBelow(path, Meta), NEW text, NEW mode
    PROVE  Unseen(v, WriteFile(v, path, File(text, mode)))
<1> DEFINE w == WriteFile(v, path, File(text, mode))
<1>1. /\ DOMAIN w.files = DOMAIN v.files \cup {path}
      /\ \A p \in DOMAIN v.files : p # path => w.files[p] = v.files[p]
      /\ w.dirs = v.dirs \cup Above(path)
  BY WriteFileIs
<1>2. \A d \in Above(path) : ~Free(d)
  BY NothingFree
<1> HIDE DEF w
<1> QED
  BY <1>1, <1>2 DEF Unseen, w

\* The text that is there already, written again, is not seen either.
LEMMA WriteAgain ==
    ASSUME NEW v, Rooted(v), NEW path, HasFile(v, path), NEW text, v.files[path].text = text, NEW mode
    PROVE  Unseen(v, WriteFile(v, path, File(text, mode)))
<1> DEFINE w == WriteFile(v, path, File(text, mode))
<1>1. /\ DOMAIN w.files = DOMAIN v.files \cup {path} /\ w.files[path].text = text
      /\ \A p \in DOMAIN v.files : p # path => w.files[p] = v.files[p]
      /\ w.dirs = v.dirs \cup Above(path)
  BY WriteFileIs
<1>2. path \in DOMAIN v.files /\ Above(path) \subseteq v.dirs
  BY DEF HasFile, Rooted
<1> HIDE DEF w
<1>3. \A p \in DOMAIN v.files : v.files[p].text = w.files[p].text
  BY <1>1
<1> QED
  BY <1>1, <1>2, <1>3 DEF Unseen, w

\* An operation does the same to two volumes that look the same.
LEMMA AfterBoth ==
    ASSUME NEW r, NEW v, NEW w, {"files", "dirs"} \subseteq DOMAIN v,
           {"files", "dirs"} \subseteq DOMAIN w, Alike(r, v, w),
           NEW op, IsPath(op.path), Last(op.path) # r
    PROVE  Alike(r, After(v, op), After(w, op))
<1> DEFINE path == op.path
<1>1. CASE op.act = "folder"
  <2> DEFINE a == MkdirAll(v, path)
             b == MkdirAll(w, path)
  <2>1. /\ a.files = v.files /\ a.dirs = v.dirs \cup Above(path) \cup ({path} \ {<<>>})
        /\ b.files = w.files /\ b.dirs = w.dirs \cup Above(path) \cup ({path} \ {<<>>})
    BY MkdirIs
  <2>2. After(v, op) = a /\ After(w, op) = b
    BY <1>1, AfterIs
  <2> HIDE DEF a, b
  <2>3. {d \in a.dirs : Free(d)} = {d \in b.dirs : Free(d)}
    BY <2>1 DEF Alike
  <2>4. Alike(r, a, b)
    BY <2>1, <2>3 DEF Alike
  <2> QED
    BY <2>2, <2>4
<1>2. CASE op.act = "inject" /\ IsBelow(path, Meta)
  <2>1. ASSUME NEW x PROVE After(x, op) = x \/ Unseen(x, After(x, op))
    BY <1>2, AfterIs, WriteHidden
  <2> QED
    BY <2>1, UnseenStays
<1>3. CASE op.act = "inject" /\ ~IsBelow(path, Meta)
  <2>1. HasFile(v, path) <=> HasFile(w, path)
    BY <1>3 DEF HasFile, Alike
  <2>2. HasFile(w, path) => v.files[path].text = w.files[path].text
    BY <1>3 DEF HasFile, Alike
  <2>3. Injects(v, op) <=> Injects(w, op)
    BY <2>1, <2>2 DEF Injects
  <2>4. Injects(v, op) => NewText(v, op) = NewText(w, op)
    BY <2>1, <2>2, <2>3 DEF Injects, NewText
  <2> QED
    BY <1>3, <2>3, <2>4, AfterIs, WriteBoth
<1>4. CASE op.act \notin {"folder", "inject"}
  <2>1. NewText(v, op) = op.text /\ NewText(w, op) = op.text
    BY <1>4 DEF NewText
  <2> QED
    BY <1>4, <2>1, AfterIs, WriteBoth
<1> QED
  BY <1>1, <1>2, <1>3, <1>4

\* Two volumes that look the same, both with the log in place, hold the same.
LEMMA SameApart ==
    ASSUME NEW r, NEW v, NEW w, Alike(r, v, w), Rooted(v), Rooted(w),
           HasFile(v, Log), HasFile(w, Log), \A p \in DOMAIN v.files : Last(p) # r
    PROVE  Apart(v) = Apart(w)
<1> DEFINE Bare(x) == {d \in x.dirs \ DOMAIN x.files :
                          \A p \in DOMAIN x.files \cup x.dirs : ~IsBelow(p, d)}
           Held(x) == DOMAIN x.files \cup Bare(x)
           Outside(x) == {q \in Held(x) : ~IsBelow(q, Meta)}
           What(x, p) == IF p \in DOMAIN x.files THEN x.files[p].text ELSE EmptyDir
<1>1. ASSUME NEW x PROVE Apart(x) = [p \in Outside(x) |-> What(x, p)]
  <2>1. Vol(x) = [p \in Held(x) |-> What(x, p)]
    BY DEF Vol
  <2> HIDE DEF Held, What
  <2>2. DOMAIN Vol(x) = Held(x) /\ \A p \in Held(x) : Vol(x)[p] = What(x, p)
    BY <2>1
  <2> QED
    BY <2>2 DEF Apart
<1>2. ASSUME NEW p, ~IsBelow(p, Meta)
      PROVE  /\ p \in DOMAIN v.files <=> p \in DOMAIN w.files
             /\ p \in DOMAIN w.files => v.files[p].text = w.files[p].text
             /\ p \notin Above(Log) => (p \in v.dirs <=> p \in w.dirs)
  BY <1>2 DEF Alike, Free
<1>3. ASSUME NEW x, NEW y, Rooted(x), Rooted(y), HasFile(x, Log), HasFile(y, Log),
             \A p : ~IsBelow(p, Meta) => /\ p \in DOMAIN x.files <=> p \in DOMAIN y.files
                                         /\ p \notin Above(Log) => (p \in x.dirs <=> p \in y.dirs),
             NEW d \in Bare(x), ~IsBelow(d, Meta)
      PROVE  d \in Bare(y)
  <2>1. IsPath(d) /\ d \in x.dirs /\ d \notin DOMAIN x.files
    BY <1>3 DEF Rooted
  <2>2. ~IsBelow(Log, d)
    BY <1>3 DEF HasFile
  <2>3. d \notin Above(Log)
    BY <2>2, LogIs
  <2>4. d \in y.dirs /\ d \notin DOMAIN y.files
    BY <1>3, <2>1, <2>3
  <2>5. ASSUME NEW p \in DOMAIN y.files \cup y.dirs, IsBelow(p, d) PROVE FALSE
    <3>1. IsPath(p)
      BY <1>3, <2>5 DEF Rooted
    <3>2. ~IsBelow(p, Meta)
      BY <1>3, <2>1, <2>2, <2>5, <3>1, LogIsBelow
    <3>3. p \notin DOMAIN x.files \cup x.dirs
      BY <1>3, <2>5
    <3>4. p \in Above(Log)
      BY <1>3, <2>5, <3>2, <3>3
    <3>5. Above(Log) \subseteq x.dirs
      BY <1>3 DEF HasFile, Rooted
    <3> QED
      BY <3>3, <3>4, <3>5
  <2> QED
    BY <2>4, <2>5
<1>4. Outside(v) = Outside(w)
  <2>1. ASSUME NEW d, ~IsBelow(d, Meta) PROVE d \in Bare(v) <=> d \in Bare(w)
    <3> HIDE DEF Bare
    <3> QED
      BY <1>2, <1>3, <2>1
  <2> HIDE DEF Bare
  <2> QED
    BY <1>2, <2>1
<1>5. \A p \in Outside(w) : What(v, p) = What(w, p)
  BY <1>2
<1> HIDE DEF Outside, What
<1> QED
  BY <1>1, <1>4, <1>5
-----------------------------------------------------------------------------
(* The plan of a call, carried out one operation after another. *)

\* A plan ends with the log, unless there is nothing to do.
IsPlan(plan) ==
    /\ IsTodo(plan) /\ Len(plan) \in Nat
    /\ plan # <<>> => Len(plan) > 0 /\ plan[Len(plan)] = LogOp

\* The volumes it leads through.
AreStages(m, plan) ==
    /\ \A k \in 0..Len(plan) : Rooted(m[k]) /\ {"files", "dirs"} \subseteq DOMAIN m[k]
    /\ \A k \in 1..Len(plan) : m[k] = After(m[k - 1], plan[k])

\* Call r has a volume v and has todo before it: with nothing left v looks
\* like the last stage, and otherwise the next operation leads from v to
\* what looks like a stage, with the rest of the plan behind it.
Ongoing(r, plan, m, v, todo) ==
    \/ /\ todo = <<>>
       /\ IF plan = <<>> THEN v = m[0] ELSE Alike(r, v, m[Len(plan)]) /\ HasFile(v, Log)
    \/ /\ todo # <<>>
       /\ \E k \in 1..Len(plan) :
             /\ Tail(todo) = SubSeq(plan, k + 1, Len(plan))
             /\ k = Len(plan) => Head(todo) = LogOp
             /\ Alike(r, After(v, Head(todo)), m[k])

LEMMA OpIs ==
    ASSUME NEW op, IsOp(op), NEW r \in Runs
    PROVE  IsPath(op.path) /\ Last(op.path) # r
BY DEF IsOp, Named, IsPath

\* The end of a plan.
LEMMA RestOfPlan ==
    ASSUME NEW plan, IsPlan(plan), NEW k \in 0..Len(plan)
    PROVE  LET rest == SubSeq(plan, k + 1, Len(plan))
           IN  /\ rest \in Seq(ToSet(plan))
               /\ k = Len(plan) => rest = <<>>
               /\ k < Len(plan) => /\ rest # <<>> /\ Head(rest) = plan[k + 1]
                                   /\ Tail(rest) = SubSeq(plan, k + 2, Len(plan))
               /\ k = 0 => rest = plan
<1> DEFINE S == ToSet(plan)
           n == Len(plan)
<1>1. plan \in Seq(S) /\ n \in Nat
  BY DEF IsPlan, IsTodo
<1>2. \A i \in 1..n : plan[i] \in S
  BY <1>1
<1>3. ASSUME NEW i \in 1..(n + 2)
      PROVE  LET s == SubSeq(plan, i, n)
             IN  /\ s \in Seq(S) /\ Len(s) = IF i <= n THEN n - i + 1 ELSE 0
                 /\ \A j \in 1..(n - i + 1) : s[j] = plan[i + j - 1]
  BY <1>1, <1>2, SubSeqProperties
<1> DEFINE rest == SubSeq(plan, k + 1, n)
           next == SubSeq(plan, k + 2, n)
<1>4. /\ rest \in Seq(S) /\ Len(rest) = n - k /\ \A j \in 1..(n - k) : rest[j] = plan[k + j]
  <2>1. k + 1 \in 1..(n + 2)
    BY <1>1
  <2> QED
    BY <1>1, <1>3, <2>1
<1>5. CASE k = n
  <2>1. rest = <<>>
    BY <1>1, <1>4, <1>5
  <2>2. n = 0 => plan = <<>>
    <3> HIDE DEF S
    <3> QED
      BY <1>1
  <2> QED
    BY <1>1, <1>4, <1>5, <2>1, <2>2
<1>6. CASE k < n
  <2>1. k + 2 \in 1..(n + 2)
    BY <1>1, <1>6
  <2>2. /\ next \in Seq(S) /\ Len(next) = n - k - 1
        /\ \A j \in 1..(n - k - 1) : next[j] = plan[k + 1 + j]
    BY <1>1, <1>3, <1>6, <2>1
  <2> HIDE DEF rest, next
  <2>3. rest # <<>> /\ Head(rest) = rest[1]
    BY <1>1, <1>4, <1>6
  <2>4. /\ Tail(rest) \in Seq(S) /\ Len(Tail(rest)) = n - k - 1
        /\ \A j \in 1..(n - k - 1) : Tail(rest)[j] = rest[j + 1]
    BY <1>1, <1>4, <1>6, <2>3, HeadTailProperties
  <2>5. Tail(rest) = next
    <3> DEFINE t == Tail(rest)
    <3>1. ASSUME NEW j \in 1..(n - k - 1) PROVE t[j] = next[j]
      <4>1. j + 1 \in 1..(n - k) /\ k + (j + 1) = k + 1 + j
        BY <1>1, <1>6
      <4> QED
        BY <1>4, <2>2, <2>4, <4>1
    <3>2. t \in Seq(S) /\ Len(t) = Len(next)
      BY <2>2, <2>4
    <3> HIDE DEF t, S
    <3>3. t = next
      BY <2>2, <3>1, <3>2
    <3> QED
      BY <3>3 DEF t
  <2>6. k = 0 => rest = plan
    BY <1>1, <1>4
  <2> QED
    BY <1>1, <1>4, <1>6, <2>3, <2>5, <2>6 DEF rest, next
<1> QED
  BY <1>1, <1>5, <1>6

\* A volume that looks like a stage has the rest of the plan before it.
LEMMA AtStage ==
    ASSUME NEW r \in Runs, NEW plan, IsPlan(plan), plan # <<>>, NEW m, AreStages(m, plan),
           NEW v, {"files", "dirs"} \subseteq DOMAIN v, NEW k \in 0..Len(plan),
           Alike(r, v, m[k]), k = Len(plan) => HasFile(v, Log)
    PROVE  Ongoing(r, plan, m, v, SubSeq(plan, k + 1, Len(plan)))
<1> DEFINE n == Len(plan)
           rest == SubSeq(plan, k + 1, n)
<1>1. n \in Nat
  BY DEF IsPlan
<1>2. CASE k = n
  BY <1>2, RestOfPlan DEF Ongoing
<1>3. CASE k < n
  <2>1. rest # <<>> /\ Head(rest) = plan[k + 1] /\ Tail(rest) = SubSeq(plan, (k + 1) + 1, n)
    BY <1>1, <1>3, RestOfPlan
  <2>2. k + 1 \in 1..n /\ m[k + 1] = After(m[k], plan[k + 1])
    BY <1>1, <1>3 DEF AreStages
  <2>3. IsOp(plan[k + 1])
    BY <2>2 DEF IsPlan, IsTodo
  <2>4. {"files", "dirs"} \subseteq DOMAIN m[k]
    BY DEF AreStages
  <2>5. Alike(r, After(v, plan[k + 1]), m[k + 1])
    BY <2>2, <2>3, <2>4, OpIs, AfterBoth
  <2>6. k + 1 = n => plan[k + 1] = LogOp
    BY DEF IsPlan
  <2> HIDE DEF rest
  <2>7. Ongoing(r, plan, m, v, rest)
    BY <2>1, <2>2, <2>5, <2>6 DEF Ongoing
  <2> QED
    BY <2>7 DEF rest
<1> QED
  BY <1>1, <1>2, <1>3

\* A write of the bookkeeping, which the plan does not have.
IsBookkeeping(op) == IsOp(op) /\ op.act = "raw" /\ IsBelow(op.path, Meta)

\* The next operation has been carried out, and may leave bookkeeping to do.
LEMMA NextIsDone ==
    ASSUME NEW r \in Runs, NEW plan, IsPlan(plan), NEW m, AreStages(m, plan),
           NEW v, NEW todo, todo # <<>>, Ongoing(r, plan, m, v, todo),
           NEW x, {"files", "dirs"} \subseteq DOMAIN x,
           \A w : Alike(r, After(v, Head(todo)), w) => Alike(r, x, w),
           Head(todo) = LogOp => HasFile(x, Log),
           NEW more, \/ more = <<>>
                     \/ Head(todo).act # "raw" /\ \E b : more = <<b>> /\ IsBookkeeping(b)
    PROVE  Ongoing(r, plan, m, x, more \o Tail(todo))
<1> DEFINE n == Len(plan)
<1>1. PICK k \in 1..n : /\ Tail(todo) = SubSeq(plan, k + 1, n)
                        /\ k = n => Head(todo) = LogOp
                        /\ Alike(r, After(v, Head(todo)), m[k])
  BY DEF Ongoing
<1>2. n \in Nat /\ k \in 0..n /\ plan # <<>> /\ Alike(r, x, m[k])
  <2>1. n \in Nat
    BY DEF IsPlan
  <2>2. plan # <<>>
    BY <2>1
  <2> QED
    BY <1>1, <2>1, <2>2
<1> DEFINE rest == SubSeq(plan, k + 1, n)
<1>3. rest \in Seq(ToSet(plan))
  BY <1>2, RestOfPlan
<1>4. CASE more = <<>>
  <2>1. Ongoing(r, plan, m, x, rest)
    BY <1>1, <1>2, AtStage
  <2> HIDE DEF rest
  <2>2. more \o rest = rest
    BY <1>3, <1>4
  <2> QED
    BY <1>1, <2>1, <2>2 DEF rest
<1>5. CASE more # <<>>
  <2>1. PICK b : more = <<b>> /\ IsBookkeeping(b)
    BY <1>5
  <2>2. k # n
    BY <1>1, <1>5 DEF LogOp
  <2> DEFINE S == ToSet(plan) \cup {b}
             all == <<b>> \o rest
  <2>3. rest \in Seq(S) /\ <<b>> \in Seq(S)
    BY <1>3, SeqMonotonic
  <2> HIDE DEF rest, S
  <2>4. all # <<>> /\ Head(all) = b /\ Tail(all) = rest
    BY <2>3
  <2> HIDE DEF all
  <2>5. After(x, b) = WriteFile(x, b.path, File(b.text, MemMode))
    BY <2>1, AfterIs DEF IsBookkeeping, NewText
  <2>6. Unseen(x, After(x, b))
    BY <2>1, <2>5, OpIs, WriteHidden DEF IsBookkeeping
  <2>7. Alike(r, After(x, b), m[k])
    BY <1>2, <2>6, UnseenStays
  <2>8. Ongoing(r, plan, m, x, all)
    BY <1>1, <2>2, <2>4, <2>7 DEF Ongoing, rest
  <2> QED
    BY <1>1, <2>1, <2>8 DEF all, rest
<1> QED
  BY <1>4, <1>5

\* The next operation, or what it works on, is another of the same effect.
LEMMA NextIsAnother ==
    ASSUME NEW r, NEW plan, NEW m, NEW v, NEW todo, todo # <<>>, Ongoing(r, plan, m, v, todo),
           NEW x, NEW then, then # <<>>, Tail(then) = Tail(todo),
           \A w : Alike(r, After(v, Head(todo)), w) => Alike(r, After(x, Head(then)), w),
           Head(todo) = LogOp => Head(then) = LogOp
    PROVE  Ongoing(r, plan, m, x, then)
<1>1. PICK k \in 1..Len(plan) : /\ Tail(todo) = SubSeq(plan, k + 1, Len(plan))
                                /\ k = Len(plan) => Head(todo) = LogOp
                                /\ Alike(r, After(v, Head(todo)), m[k])
  BY DEF Ongoing
<1>2. /\ Tail(then) = SubSeq(plan, k + 1, Len(plan))
      /\ k = Len(plan) => Head(then) = LogOp
      /\ Alike(r, After(x, Head(then)), m[k])
  BY <1>1
<1> QED
  BY <1>2 DEF Ongoing

\* A file is written beside its target: the same directories are above both.
LEMMA TempIs ==
    ASSUME NEW path, IsPath(path), path # <<>>, NEW r
    PROVE  LET temp == TempOf(r, path)
           IN  IsPath(temp) /\ Last(temp) = r /\ Above(temp) = Above(path)
<1> DEFINE n == Len(path)
           S == ToSet(path) \cup {r}
           front == SubSeq(path, 1, n - 1)
           temp == Append(front, r)
<1>1. path \in Seq(S) /\ n \in Nat \ {0}
  <2>1. path \in Seq(ToSet(path))
    BY DEF IsPath
  <2>2. path \in Seq(S)
    BY <2>1, SeqMonotonic
  <2> HIDE DEF S
  <2> QED
    BY <2>2
<1>2. front \in Seq(S) /\ Len(front) = n - 1 /\ \A i \in 1..(n - 1) : front[i] = path[i]
  <2>1. \A i \in 1..(n - 1) : path[i] \in S
    BY <1>1
  <2> HIDE DEF S
  <2>2. n - 1 \in Nat /\ 1 \in Nat
    BY <1>1
  <2>3. /\ front \in Seq(S) /\ Len(front) = IF 1 <= n - 1 THEN (n - 1) - 1 + 1 ELSE 0
        /\ \A i \in 1..((n - 1) - 1 + 1) : front[i] = path[1 + i - 1]
    BY <1>1, <2>1, <2>2, SubSeqProperties
  <2>4. n \in Nat /\ n >= 1
    BY <1>1
  <2> HIDE DEF front, n
  <2>5. (IF 1 <= n - 1 THEN (n - 1) - 1 + 1 ELSE 0) = n - 1
    BY <2>4
  <2>6. \A i \in 1..(n - 1) : i \in 1..((n - 1) - 1 + 1) /\ 1 + i - 1 = i
    BY <2>4
  <2> QED
    BY <2>3, <2>5, <2>6
<1>3. r \in S
  OBVIOUS
<1>4. TempOf(r, path) = temp
  BY DEF TempOf, Front
<1> HIDE DEF front, S
<1>5. /\ temp \in Seq(S) /\ Len(temp) = n /\ temp[n] = r
      /\ \A i \in 1..(n - 1) : temp[i] = path[i]
  BY <1>1, <1>2, <1>3, AppendProperties
<1> HIDE DEF temp
<1>6. IsPath(temp)
  <2>1. \A i \in 1..Len(temp) : temp[i] \in ToSet(temp)
    BY <1>1, <1>5 DEF ToSet
  <2> QED
    BY <1>5, <2>1 DEF IsPath
<1>7. ASSUME NEW k \in 1..(n - 1) PROVE SubSeq(temp, 1, k) = SubSeq(path, 1, k)
  <2> DEFINE a == SubSeq(temp, 1, k)
             b == SubSeq(path, 1, k)
  <2>1. k \in 0..n /\ \A i \in 1..k : i \in 1..n /\ i \in 1..(n - 1)
    BY <1>1
  <2>2. (\A i \in 1..k : temp[i] \in S) /\ (\A i \in 1..k : path[i] \in S)
    BY <1>1, <1>5, <2>1
  <2>3. a \in Seq(S) /\ Len(a) = k /\ \A i \in 1..k : a[i] = temp[i]
    BY <1>1, <2>1, <2>2, SubSeqProperties
  <2>4. b \in Seq(S) /\ Len(b) = k /\ \A i \in 1..k : b[i] = path[i]
    BY <1>1, <2>1, <2>2, SubSeqProperties
  <2> HIDE DEF a, b
  <2>5. a = b
    BY <1>5, <2>1, <2>3, <2>4
  <2> QED
    BY <2>5 DEF a, b
<1>8. Above(temp) = Above(path)
  BY <1>5, <1>7 DEF Above
<1> QED
  BY <1>4, <1>5, <1>6, <1>8 DEF Last

\* A temp file is not seen, neither before nor after what it is for is done.
LEMMA TempHidden ==
    ASSUME NEW r, NEW v, {"files", "dirs"} \subseteq DOMAIN v, Rooted(v),
           NEW op, IsPath(op.path), op.path # <<>>, Last(op.path) # r, op.act \in {"file", "raw"},
           NEW text, NEW mode
    PROVE  LET x == WriteFile(v, TempOf(r, op.path), File(text, mode))
           IN  /\ Rooted(x)
               /\ \A w : Alike(r, After(v, op), w) => Alike(r, After(x, op), w)
<1> DEFINE path == op.path
           temp == TempOf(r, path)
           x == WriteFile(v, temp, File(text, mode))
           a == WriteFile(v, path, File(op.text, MemMode))
           b == WriteFile(x, path, File(op.text, MemMode))
<1>1. IsPath(temp) /\ Last(temp) = r /\ Above(temp) = Above(path) /\ temp # path
  BY TempIs
<1>2. After(v, op) = a /\ After(x, op) = b
  BY AfterIs DEF NewText
<1>3. /\ DOMAIN x.files = DOMAIN v.files \cup {temp}
      /\ \A p \in DOMAIN v.files : p # temp => x.files[p] = v.files[p]
      /\ x.dirs = v.dirs \cup Above(temp)
  BY WriteFileIs
<1>4. \A d \in Above(temp) : IsPath(d)
  BY <1>1, AbovePaths
<1> HIDE DEF temp, x
<1>5. /\ DOMAIN a.files = DOMAIN v.files \cup {path} /\ a.files[path].text = op.text
      /\ \A p \in DOMAIN v.files : p # path => a.files[p] = v.files[p]
      /\ a.dirs = v.dirs \cup Above(path)
      /\ DOMAIN b.files = DOMAIN x.files \cup {path} /\ b.files[path].text = op.text
      /\ \A p \in DOMAIN x.files : p # path => b.files[p] = x.files[p]
      /\ b.dirs = x.dirs \cup Above(path)
  BY WriteFileIs
<1> HIDE DEF a, b
<1>6. Rooted(x)
  BY <1>1, <1>3, <1>4 DEF Rooted
<1>7. ASSUME NEW w, Alike(r, a, w) PROVE Alike(r, b, w)
  <2>1. {p \in DOMAIN b.files : Last(p) # r /\ ~IsBelow(p, Meta)}
          = {p \in DOMAIN a.files : Last(p) # r /\ ~IsBelow(p, Meta)}
    BY <1>1, <1>3, <1>5
  <2>2. \A p \in DOMAIN w.files : ~IsBelow(p, Meta) => Last(p) # r /\ p \in DOMAIN a.files
    BY <1>7 DEF Alike
  <2>3. \A p \in DOMAIN a.files : Last(p) # r => b.files[p].text = a.files[p].text
    BY <1>1, <1>3, <1>5
  <2>4. b.dirs = a.dirs
    BY <1>1, <1>3, <1>5
  <2> QED
    BY <1>7, <2>1, <2>2, <2>3, <2>4 DEF Alike
<1> QED
  BY <1>2, <1>6, <1>7 DEF x, temp

\* A rename does what the write it is for is to do.
LEMMA RenameLands ==
    ASSUME NEW r, NEW v, Rooted(v),
           NEW op, IsPath(op.path), op.path # <<>>, Last(op.path) # r, op.act \in {"file", "raw"},
           HasFile(v, TempOf(r, op.path)), v.files[TempOf(r, op.path)].text = op.text,
           \A p \in DOMAIN v.files : Last(p) = r => p = TempOf(r, op.path)
    PROVE  LET x == Rename(v, TempOf(r, op.path), op.path)
           IN  /\ Rooted(x) /\ HasFile(x, op.path)
               /\ \A w : Alike(r, After(v, op), w) => Alike(r, x, w)
<1> DEFINE path == op.path
           temp == TempOf(r, path)
           left == [p \in DOMAIN v.files \ {temp} |-> v.files[p]]
           put == Put(left, path, v.files[temp])
           x == Rename(v, temp, path)
           a == WriteFile(v, path, File(op.text, MemMode))
<1>1. IsPath(temp) /\ Last(temp) = r /\ Above(temp) = Above(path) /\ temp # path
  BY TempIs
<1>2. After(v, op) = a
  BY AfterIs DEF NewText
<1>3. x = [files |-> put, dirs |-> v.dirs \cup Above(path)]
  BY DEF Rename
<1>4. temp \in DOMAIN v.files
  BY DEF HasFile
<1>5. \A d \in Above(path) : IsPath(d)
  BY AbovePaths
<1> HIDE DEF temp
<1>6. /\ DOMAIN left = DOMAIN v.files \ {temp}
      /\ \A p \in DOMAIN v.files \ {temp} : left[p] = v.files[p]
  OBVIOUS
<1> HIDE DEF left
<1>7. /\ DOMAIN put = (DOMAIN v.files \ {temp}) \cup {path} /\ put[path] = v.files[temp]
      /\ \A p \in DOMAIN v.files \ {temp} : p # path => put[p] = v.files[p]
  BY <1>6 DEF Put, Over
<1> HIDE DEF put
<1>8. /\ DOMAIN x.files = (DOMAIN v.files \ {temp}) \cup {path} /\ x.files[path].text = op.text
      /\ \A p \in DOMAIN v.files \ {temp} : p # path => x.files[p] = v.files[p]
      /\ x.dirs = v.dirs \cup Above(path)
  BY <1>3, <1>7 DEF temp
<1>9. /\ DOMAIN a.files = DOMAIN v.files \cup {path} /\ a.files[path].text = op.text
      /\ \A p \in DOMAIN v.files : p # path => a.files[p] = v.files[p]
      /\ a.dirs = v.dirs \cup Above(path)
  BY WriteFileIs
<1> HIDE DEF a, x
<1>10. Rooted(x) /\ HasFile(x, path)
  BY <1>1, <1>5, <1>8 DEF Rooted, HasFile
<1>11. ASSUME NEW w, Alike(r, a, w) PROVE Alike(r, x, w)
  <2>1. {p \in DOMAIN x.files : Last(p) # r /\ ~IsBelow(p, Meta)}
          = {p \in DOMAIN a.files : Last(p) # r /\ ~IsBelow(p, Meta)}
    BY <1>1, <1>8, <1>9
  <2>2. \A p \in DOMAIN w.files : ~IsBelow(p, Meta) => Last(p) # r /\ p \in DOMAIN a.files
    BY <1>11 DEF Alike
  <2>3. \A p \in DOMAIN a.files : Last(p) # r => x.files[p].text = a.files[p].text
    BY <1>1, <1>8, <1>9
  <2>4. x.dirs = a.dirs
    BY <1>8, <1>9
  <2> QED
    BY <1>11, <2>1, <2>2, <2>3, <2>4 DEF Alike
<1> QED
  BY <1>2, <1>10, <1>11 DEF x, temp

-----------------------------------------------------------------------------
(* What a call makes of its volume. *)

\* A call that writes to a volume of its own.
IsOwn(r) == ~IsCheck(r) /\ Target(r) = r /\ ~Opts(r).dry

StartOf(r) == Seed(Merged(r).vol)

Stages(r) ==
    CHOOSE m : /\ IsMaking(m, StartOf(r), Planned(r))
               /\ Made(StartOf(r), Planned(r)) = m[Len(Planned(r))]

LEMMA StagesAre ==
    ASSUME ScenarioOK, NEW r \in Runs
    PROVE  /\ IsPlan(Planned(r)) /\ AreStages(Stages(r), Planned(r))
           /\ Stages(r)[0] = StartOf(r)
           /\ Stages(r)[Len(Planned(r))] = Made(StartOf(r), Planned(r))
           /\ \A p \in DOMAIN StartOf(r).files : Last(p) # r
<1> DEFINE plan == Planned(r)
           n == Len(plan)
           v == StartOf(r)
           m == Stages(r)
           Typed(x) == Rooted(x) /\ {"files", "dirs"} \subseteq DOMAIN x
<1>1. IsTodo(plan) /\ (plan # <<>> => n \in Nat \ {0} /\ plan[n] = LogOp)
  BY PlannedIsTodo
<1>2. n \in Nat
  BY <1>1 DEF IsTodo
<1>3. IsPlan(plan)
  BY <1>1, <1>2 DEF IsPlan
<1>4. \A p \in DOMAIN Merged(r).vol : IsPath(p)
  <2>1. /\ \A p \in DOMAIN inst.vol : Named(p)
        /\ \A p \in DOMAIN calls[r].vol : Named(p)
    BY PathsAssumption DEF ScenarioOK
  <2>2. DOMAIN Over(calls[r].vol, inst.vol) = DOMAIN calls[r].vol \cup DOMAIN inst.vol
    BY DEF Over
  <2>3. Merged(r).vol = Over(calls[r].vol, inst.vol) \/ Merged(r).vol = inst.vol
    BY Zenon DEF Merged
  <2> QED
    BY <2>1, <2>2, <2>3 DEF Named, IsPath
<1>5. Typed(v)
  BY <1>4, RootedSeed, SeedDoes DEF StartOf
<1>6. IsMaking(m, v, plan) /\ Made(v, plan) = m[n]
  <2>1. \E u : IsMaking(u, v, plan) /\ Made(v, plan) = u[n]
    <3> HIDE DEF v, plan
    <3> QED
      BY <1>2, MakingIs
  <2> QED
    BY <2>1, Zenon DEF Stages
<1> HIDE DEF m, v, plan
<1>7. m[0] = v /\ \A k \in 1..n : m[k] = After(m[k - 1], plan[k])
  <2>1. \A k \in 0..n : m[k] = IF k = 0 THEN v ELSE After(m[k - 1], plan[k])
    BY <1>6 DEF IsMaking
  <2> QED
    BY <1>2, <2>1
<1>8. \A k \in 0..n : Typed(m[k])
  <2> DEFINE S == {k \in Nat : k <= n => Typed(m[k])}
  <2>1. 0 \in S
    BY <1>5, <1>7
  <2>2. ASSUME NEW k \in Nat, k \in S PROVE k + 1 \in S
    <3> SUFFICES ASSUME k + 1 <= n PROVE Typed(m[k + 1])
      OBVIOUS
    <3>1. Typed(m[k]) /\ k + 1 \in 1..n /\ (k + 1) - 1 = k
      BY <1>2, <2>2
    <3>2. m[k + 1] = After(m[k], plan[k + 1]) /\ IsOp(plan[k + 1])
      BY <1>3, <1>7, <3>1 DEF IsPlan, IsTodo
    <3> QED
      BY <3>1, <3>2, OpIs, RootedAfter
  <2> HIDE DEF S
  <2>3. Nat \subseteq S
    BY <2>1, <2>2, EveryNumber
  <2> QED
    BY <1>2, <2>3 DEF S
<1>9. \A p \in DOMAIN v.files : Last(p) # r
  BY SeedIsNamed DEF Named, v, StartOf
<1> QED
  BY <1>3, <1>6, <1>7, <1>8, <1>9 DEF AreStages, m, v, plan

\* No other call writes to it.
LEMMA OthersWrite ==
    ASSUME VolumesOK, NEW r \in Runs, Step(r), NEW v \in DOMAIN vols, v # Target(r)
    PROVE  vols'[v] = vols[v]
<1>1. ASSUME NEW w, vols' = [vols EXCEPT ![Target(r)] = w] PROVE vols'[v] = vols[v]
  BY <1>1
<1>2. CASE UNCHANGED vols
  BY <1>2
<1>3. ASSUME NEW path, NEW mode, vols' = Modes(r, path, mode) PROVE vols'[v] = vols[v]
  BY <1>3 DEF Modes
<1>4. CASE Begin(r)
  BY <1>2, <1>4 DEF Begin
<1>5. CASE Folder(r)
  BY <1>1, <1>2, <1>5 DEF Folder, Sink
<1>6. CASE Save(r)
  BY <1>2, <1>3, <1>6 DEF Save
<1>7. CASE Write(r)
  BY <1>1, <1>7 DEF Write, Sink
<1>8. CASE SetMode(r)
  BY <1>3, <1>8 DEF SetMode
<1>9. CASE Publish(r)
  BY <1>1, <1>9 DEF Publish, Sink
<1>10. CASE Render(r) \/ LookUp(r) \/ Store(r) \/ Defined(r) \/ Inject(r) \/ SaveRaw(r)
            \/ Finish(r) \/ Compare(r)
  BY <1>2, <1>10 DEF Render, LookUp, Store, Defined, Inject, SaveRaw, Finish, Compare
<1> QED
  BY <1>4, <1>5, <1>6, <1>7, <1>8, <1>9, <1>10 DEF Step

\* What a step leaves of a call, with a warning or without.
LEMMA GoesOrWarns ==
    ASSUME RunsOK, NEW r \in Runs, NEW x, IsRun(x), Goes(r, x) \/ \E e : Warn(r, x, e)
    PROVE  run'[r].pc = x.pc /\ run'[r].todo = x.todo
<1>1. CASE Goes(r, x)
  BY <1>1, RunSet
<1>2. CASE \E e : Warn(r, x, e)
  <2>1. PICK e : Warn(r, x, e)
    BY <1>2
  <2> DEFINE w == Append(x.warnings, e)
             y == [x EXCEPT !.warnings = w]
  <2>2. Goes(r, y)
    BY <2>1, Zenon DEF Warn
  <2> HIDE DEF w
  <2>3. IsRun(y) /\ y.pc = x.pc /\ y.todo = x.todo
    BY DEF IsRun
  <2> HIDE DEF y
  <2> QED
    BY <2>2, <2>3, RunSet
<1> QED
  BY <1>1, <1>2

LEMMA SaveLeaves ==
    ASSUME RunsOK, NEW r \in Runs, Save(r), ~Opts(r).dry
    PROVE  LET op == Head(run[r].todo)
           IN  IF Unchanged(r, op)
               THEN run'[r].pc = "build" /\ run'[r].todo = Baseline(r, op) \o Rest(r)
               ELSE run'[r].pc = "write" /\ run'[r].todo = run[r].todo
<1> DEFINE x == run[r]
           op == Head(x.todo)
           e == [by |-> r, at |-> op.path, why |-> "saved again"]
           s == x.saved \cup {op.path}
           b == [x EXCEPT !.saved = s]
           t1 == Baseline(r, op) \o Rest(r)
           m == IF Differs(r, op.path, op.mode) THEN Noted(r, b.modes, op.path, op.mode) ELSE b.modes
           y1 == [b EXCEPT !.todo = t1, !.modes = m]
           y2 == [b EXCEPT !.todo = Rest(r)]
           y3 == [b EXCEPT !.pc = "write"]
           next == IF Unchanged(r, op) THEN y1 ELSE IF Opts(r).dry THEN y2 ELSE y3
<1>1. x.pc = "build" /\ (Goes(r, next) \/ Warn(r, next, e))
  BY Zenon DEF Save, Building, Here
<1>2. IsRun(x)
  BY DEF RunsOK
<1>3. IsRun(b) /\ b.pc = "build" /\ b.todo = x.todo
  <2>1. x.pc = "build"
    BY <1>1
  <2> HIDE DEF s, x
  <2> QED
    BY <1>2, <2>1 DEF IsRun
<1>4. IsRun(y1) /\ y1.pc = "build" /\ y1.todo = t1
  <2> HIDE DEF t1, m, b
  <2> QED
    BY <1>3 DEF IsRun
<1>5. IsRun(y3) /\ y3.pc = "write" /\ y3.todo = x.todo
  <2> HIDE DEF b
  <2> QED
    BY <1>3 DEF IsRun
<1>6. next = IF Unchanged(r, op) THEN y1 ELSE y3
  OBVIOUS
<1> HIDE DEF y1, y2, y3, next, t1, e, op
<1>7. IsRun(next)
  BY <1>4, <1>5, <1>6
<1>8. run'[r].pc = next.pc /\ run'[r].todo = next.todo
  BY <1>1, <1>7, GoesOrWarns
<1>9. IF Unchanged(r, op) THEN run'[r].pc = "build" /\ run'[r].todo = t1
      ELSE run'[r].pc = "write" /\ run'[r].todo = x.todo
  BY <1>4, <1>5, <1>6, <1>8
<1> QED
  BY <1>9, Zenon DEF op, t1

\* What Inject makes of a text.
InjectedText(text) == IF text \in DOMAIN Injected THEN Injected[text] ELSE text

LEMMA InjectLeaves ==
    ASSUME RunsOK, NEW r \in Runs, Inject(r)
    PROVE  LET op == Head(run[r].todo)
               new == [op EXCEPT !.act = "file", !.text = InjectedText(TextAt(r, op.path))]
           IN  /\ op.act = "inject"
               /\ \/ run'[r].pc = "failed"
                  \/ FileAt(r, op.path) /\ run'[r].pc = "build" /\ run'[r].todo = <<new>> \o Rest(r)
<1> DEFINE x == run[r]
           op == Head(x.todo)
           e == [by |-> r, at |-> op.path, why |-> "no markers"]
           text == TextAt(r, op.path)
           new(t) == <<[op EXCEPT !.act = "file", !.text = t]>> \o Rest(r)
           y(t) == [x EXCEPT !.todo = new(t)]
           z == [x EXCEPT !.pc = "failed"]
<1>1. /\ x.pc = "build" /\ op.act = "inject"
      /\ \/ Goes(r, z)
         \/ FileAt(r, op.path) /\ text \in DOMAIN Injected /\ Goes(r, y(Injected[text]))
         \/ FileAt(r, op.path) /\ text \notin DOMAIN Injected /\ Warn(r, y(text), e)
  BY Zenon DEF Inject, Building, Here, Fail
<1>2. IsRun(x)
  BY DEF RunsOK
<1>3. IsRun(z) /\ z.pc = "failed"
  <2> HIDE DEF x
  <2> QED
    BY <1>2 DEF IsRun
<1>4. ASSUME NEW t PROVE IsRun(y(t)) /\ y(t).pc = "build" /\ y(t).todo = new(t)
  <2> DEFINE n == new(t)
             yy == [x EXCEPT !.todo = n]
  <2>1. x.pc = "build"
    BY <1>1
  <2> HIDE DEF n, x
  <2>2. IsRun(yy) /\ yy.pc = "build" /\ yy.todo = n
    BY <1>2, <2>1 DEF IsRun
  <2> QED
    BY <2>2 DEF x, n
<1> HIDE DEF y, z, e, new
<1>5. CASE Goes(r, z)
  BY <1>1, <1>3, <1>5, GoesOrWarns
<1>6. CASE FileAt(r, op.path) /\ text \in DOMAIN Injected /\ Goes(r, y(Injected[text]))
  <2>1. run'[r].pc = "build" /\ run'[r].todo = new(Injected[text])
    BY <1>4, <1>6, GoesOrWarns
  <2>2. InjectedText(text) = Injected[text]
    BY <1>6 DEF InjectedText
  <2> QED
    BY <1>1, <1>6, <2>1, <2>2 DEF new
<1>7. CASE FileAt(r, op.path) /\ text \notin DOMAIN Injected /\ Warn(r, y(text), e)
  <2>1. run'[r].pc = "build" /\ run'[r].todo = new(text)
    BY <1>4, <1>7, GoesOrWarns
  <2>2. InjectedText(text) = text
    BY <1>7 DEF InjectedText
  <2> QED
    BY <1>1, <1>7, <2>1, <2>2 DEF new
<1> QED
  BY <1>1, <1>5, <1>6, <1>7

LEMMA PublishLeaves ==
    ASSUME RunsOK, NEW r \in Runs, Publish(r)
    PROVE  LET op == Writing(r)
           IN  /\ run'[r].pc = "build"
               /\ run'[r].todo = (IF op.act = "file" THEN Baseline(r, op) ELSE <<>>) \o Rest(r)
<1> DEFINE x == run[r]
           op == Writing(r)
           m == Carried(x.modes, TempOf(r, op.path), op.path)
           t == (IF op.act = "file" THEN Baseline(r, op) ELSE <<>>) \o Rest(r)
           y == [x EXCEPT !.pc = "build", !.modes = m, !.todo = t]
<1>1. Goes(r, y)
  BY Zenon DEF Publish
<1>2. IsRun(x)
  BY DEF RunsOK
<1>3. IsRun(y) /\ y.pc = "build" /\ y.todo = t
  <2> HIDE DEF x, m, t
  <2> QED
    BY <1>2 DEF IsRun
<1> HIDE DEF y
<1>4. run'[r].pc = "build" /\ run'[r].todo = t
  BY <1>1, <1>3, GoesOrWarns
<1> QED
  BY <1>4, Zenon DEF t, op

LEMMA FinishLeaves ==
    ASSUME RunsOK, NEW r \in Runs, Finish(r), ~IsCheck(r)
    PROVE  run[r].todo = <<>> /\ run[r].pc = "build" /\ run'[r].pc = "done"
<1> DEFINE x == run[r]
           g == x.warnings
           b == IF IsCheck(r) THEN "compare" ELSE "done"
           l == IF IsCheck(r) THEN Output(r) ELSE {}
           y == [x EXCEPT !.log = g, !.pc = b, !.left = l]
<1>1. x.todo = <<>> /\ x.pc = "build" /\ Goes(r, y)
  BY Zenon DEF Finish, Replayed, Here
<1>2. IsRun(x)
  BY DEF RunsOK
<1>3. b = "done"
  OBVIOUS
<1>4. IsRun(y) /\ y.pc = b
  <2> HIDE DEF x, g, b, l
  <2> QED
    BY <1>2 DEF IsRun
<1> HIDE DEF y, b
<1> QED
  BY <1>1, <1>3, <1>4, GoesOrWarns

\* What is kept about a save is written below the bookkeeping folder.
LEMMA BaselineIs ==
    ASSUME NEW r, NEW op, IsOp(op)
    PROVE  \/ Baseline(r, op) = <<>>
           \/ \E b : Baseline(r, op) = <<b>> /\ IsBookkeeping(b)
<1> DEFINE p == op.path
           below == SubSeq(p, Len(Root) + 1, Len(p))
           q == Meta \o <<"generated">> \o below
           raw == [op EXCEPT !.act = "raw", !.mode = Undeclared, !.path = q]
<1> SUFFICES ASSUME Baseline(r, op) # <<>> PROVE Baseline(r, op) = <<raw>> /\ IsBookkeeping(raw)
  BY Zenon
<1>1. Baseline(r, op) = <<raw>>
  BY Zenon DEF Baseline
<1>2. IsOp(raw)
  <2>1. IsTodo(<<raw>>)
    BY <1>1, BaselineIsTodo
  <2> HIDE DEF raw
  <2>2. Len(<<raw>>) = 1 /\ <<raw>>[1] = raw
    OBVIOUS
  <2> QED
    BY <2>1, <2>2 DEF IsTodo
<1>3. raw.act = "raw" /\ raw.path = q
  <2> HIDE DEF q
  <2> QED
    BY DEF IsOp
<1>4. IsBelow(q, Meta)
  <2> DEFINE m == Len(Meta)
             S == ToSet(Meta) \cup {"generated"} \cup ToSet(p)
             a == Meta \o <<"generated">>
  <2>1. /\ Meta \in Seq(S) /\ p \in Seq(S) /\ <<"generated">> \in Seq(S)
        /\ Len(Root) \in Nat
    <3>1. Meta \in Seq(ToSet(Meta)) /\ p \in Seq(ToSet(p)) /\ Root \in Seq(ToSet(Root))
      BY PathsAssumption DEF IsOp, Named
    <3>2. Meta \in Seq(S) /\ p \in Seq(S)
      BY <3>1, SeqMonotonic
    <3>3. "generated" \in S
      OBVIOUS
    <3> HIDE DEF S
    <3> QED
      BY <3>1, <3>2, <3>3
  <2> HIDE DEF S
  <2>2. below \in Seq(S)
    <3>1. Len(p) \in Nat /\ \A i \in 1..Len(p) : p[i] \in S
      BY <2>1
    <3>2. \A i \in (Len(Root) + 1)..Len(p) : p[i] \in S
      BY <2>1, <3>1
    <3> QED
      BY <2>1, <3>1, <3>2, SubSeqProperties
  <2> HIDE DEF below
  <2>3. /\ a \in Seq(S) /\ Len(a) = m + 1 /\ m \in Nat
        /\ \A i \in 1..m : a[i] = Meta[i]
    BY <2>1
  <2> HIDE DEF a
  <2>4. /\ q \in Seq(S) /\ Len(q) = Len(a) + Len(below) /\ Len(below) \in Nat
        /\ \A i \in 1..Len(a) : q[i] = a[i]
    <3> DEFINE c == a \o below
    <3>1. /\ c \in Seq(S) /\ Len(c) = Len(a) + Len(below)
          /\ \A i \in 1..(Len(a) + Len(below)) : c[i] = IF i <= Len(a) THEN a[i] ELSE below[i - Len(a)]
      BY <2>2, <2>3, ConcatProperties
    <3>2. Len(a) \in Nat /\ Len(below) \in Nat
      BY <2>2, <2>3
    <3>3. q = c
      BY DEF a
    <3> HIDE DEF q, c
    <3> QED
      BY <3>1, <3>2, <3>3
  <2> HIDE DEF q
  <2>5. Len(q) > m /\ \A i \in 1..m : q[i] = Meta[i] /\ q[i] \in S
    BY <2>1, <2>3, <2>4
  <2>6. SubSeq(q, 1, m) = Meta
    <3> DEFINE s == SubSeq(q, 1, m)
    <3>1. s \in Seq(S) /\ Len(s) = m /\ \A i \in 1..m : s[i] = q[i]
      BY <2>3, <2>5, SubSeqProperties
    <3> HIDE DEF s
    <3>2. s = Meta
      BY <2>1, <2>5, <3>1
    <3> QED
      BY <3>2 DEF s
  <2> QED
    BY <2>5, <2>6 DEF IsBelow
<1> HIDE DEF raw
<1> QED
  BY <1>1, <1>2, <1>3, <1>4 DEF IsBookkeeping

\* What a call that has a volume of its own has made of it so far.
Working == {"build", "write", "mode", "rename"}

OwnOK(r) ==
    IsOwn(r) =>
        /\ run[r].pc \in {"define", "tokenize"} => vols[r] = StartOf(r)
        /\ run[r].pc \in Working =>
              Rooted(vols[r]) /\ Ongoing(r, Planned(r), Stages(r), vols[r], run[r].todo)
        /\ run[r].pc \in {"write", "mode", "rename"} => Writing(r).act \in {"file", "raw"}
        /\ run[r].pc \in {"mode", "rename"} => vols[r].files[Temp(r)].text = Writing(r).text
        /\ run[r].pc # "compare"
        /\ run[r].pc = "done" =>
              Rooted(vols[r]) /\ Ongoing(r, Planned(r), Stages(r), vols[r], <<>>)

LEMMA SameOwn ==
    ASSUME inst' = inst, calls' = calls, NEW r
    PROVE  /\ IsOwn(r)' <=> IsOwn(r)
           /\ Planned(r)' = Planned(r) /\ StartOf(r)' = StartOf(r) /\ Stages(r)' = Stages(r)
<1>1. IsOwn(r)' <=> IsOwn(r)
  BY DEF IsOwn, Target, IsCheck, Merged, OwnVolume, Base, Opts
<1>2. Planned(r)' = Planned(r)
  BY DEF Planned, Opts, IsCheck, Merged
<1>3. StartOf(r)' = StartOf(r)
  BY DEF StartOf, Merged
<1>4. Stages(r)' = Stages(r)
  BY <1>2, <1>3, Zenon DEF Stages
<1> QED
  BY <1>1, <1>2, <1>3, <1>4

\* Steps between which the volume and what is left to do stay.
LEMMA OwnStays ==
    ASSUME inst' = inst, calls' = calls, NEW r, OwnOK(r), vols'[r] = vols[r],
           \/ run'[r] = run[r]
           \/ run'[r].pc \in {"define", "tokenize"} /\ run[r].pc \in {"define", "tokenize"}
           \/ run'[r].pc = "failed"
           \/ /\ run[r].pc = "mode" /\ run'[r].pc = "rename" /\ run'[r].todo = run[r].todo
    PROVE  OwnOK(r)'
<1>1. /\ IsOwn(r)' <=> IsOwn(r)
      /\ Planned(r)' = Planned(r) /\ StartOf(r)' = StartOf(r) /\ Stages(r)' = Stages(r)
  BY SameOwn
<1>2. CASE run'[r] = run[r]
  BY <1>1, <1>2 DEF OwnOK, Temp, TempOf, Writing
<1>3. CASE run'[r].pc \in {"define", "tokenize"} /\ run[r].pc \in {"define", "tokenize"}
  BY <1>1, <1>3 DEF OwnOK, Working
<1>4. CASE run'[r].pc = "failed"
  BY <1>1, <1>4 DEF OwnOK, Working
<1>5. CASE run[r].pc = "mode" /\ run'[r].pc = "rename" /\ run'[r].todo = run[r].todo
  BY <1>1, <1>5 DEF OwnOK, Temp, TempOf, Writing, Working
<1> QED
  BY <1>2, <1>3, <1>4, <1>5

LEMMA OwnStep ==
    ASSUME TodoInv, TempInv, NEW r \in Runs, IsOwn(r), OwnOK(r), Step(r)
    PROVE  OwnOK(r)'
<1> DEFINE v == vols[r]
           x == vols'[r]
           todo == run[r].todo
           plan == Planned(r)
           m == Stages(r)
           op == Head(todo)
           Typed(y) == {"files", "dirs"} \subseteq DOMAIN y
<1>1. [Next]_vars /\ inst' = inst /\ calls' = calls
  <2>1. Next
    BY DEF Next
  <2> QED
    BY <2>1, SameScenario
<1>2. /\ IsOwn(r)' /\ Planned(r)' = plan /\ StartOf(r)' = StartOf(r) /\ Stages(r)' = m
  BY <1>1, SameOwn
<1>3. TodoInv' /\ TempInv'
  BY <1>1, StepTodoInv, StepTempInv
<1>4. /\ RunsOK /\ ScenarioOK /\ VolumesOK /\ r \in DOMAIN vols
      /\ Typed(v) /\ Typed(x)
  BY <1>3 DEF TodoInv, TempInv, VolumesOK
<1>5. /\ IsPlan(plan) /\ AreStages(m, plan) /\ m[0] = StartOf(r)
      /\ \A p \in DOMAIN StartOf(r).files : Last(p) # r
  BY <1>4, StagesAre
<1>6. /\ ~IsCheck(r) /\ Target(r) = r /\ ~Opts(r).dry
      /\ \A path : Sink(r, path) = r /\ Source(r, path) = r
  BY DEF IsOwn, Sink, Source
<1>7. \A path, mode : Modes(r, path, mode) = vols
  <2>1. ~Keeps(Target(r))
    BY <1>6, RunsAssumption DEF Keeps, Lasting
  <2> QED
    BY <2>1 DEF Modes
<1>8. IsTodo(todo) /\ (run[r].pc \in {"write", "mode", "rename"} => todo # <<>>)
  BY DEF TodoInv
<1>9. todo # <<>> => IsOp(op) /\ IsPath(op.path) /\ op.path # <<>> /\ Last(op.path) # r
  BY <1>8, TailIsTodo, OpIs DEF IsOp, Named
<1>10. run[r].pc \in Working => Rooted(v) /\ Ongoing(r, plan, m, v, todo)
  BY DEF OwnOK
<1>11. ASSUME run'[r].pc = "build", Rooted(x), Ongoing(r, plan, m, x, run'[r].todo)
       PROVE  OwnOK(r)'
  BY <1>2, <1>11 DEF OwnOK, Working
<1>12. CASE Begin(r)
  <2>1. run'[r].pc = "define"
    BY <1>4, <1>12, BeginDoes
  <2>2. x = StartOf(r)
    BY <1>4, <1>6, <1>12 DEF Begin, StartOf
  <2> QED
    BY <1>2, <2>1, <2>2 DEF OwnOK, Working
<1>13. CASE Render(r) \/ LookUp(r) \/ Store(r)
  <2>1. vols' = vols
    BY <1>13 DEF Render, LookUp, Store
  <2>2. \/ run'[r].pc \in {"define", "tokenize"} /\ run[r].pc \in {"define", "tokenize"}
        \/ run'[r].pc = "failed"
    BY <1>4, <1>13, RenderDoes, LookUpDoes, StoreDoes DEF Plain, Moves
  <2> QED
    BY <1>1, <2>1, <2>2, OwnStays
<1>14. CASE Defined(r)
  <2>1. x = v
    BY <1>14 DEF Defined
  <2>2. CASE Plain(r, "define", "failed", todo)
    BY <1>1, <2>1, <2>2, OwnStays DEF Plain, Moves
  <2>3. CASE Plain(r, "define", "build", plan)
    <3>1. x = m[0] /\ run'[r].pc = "build" /\ run'[r].todo = plan
      BY <1>5, <2>1, <2>3 DEF OwnOK, Plain, Moves
    <3>2. Rooted(m[0]) /\ Typed(m[0]) /\ Len(plan) \in Nat
      BY <1>5 DEF IsPlan, AreStages
    <3>3. CASE plan = <<>>
      <4>1. Ongoing(r, plan, m, x, plan)
        BY <3>1, <3>3 DEF Ongoing
      <4> QED
        BY <1>11, <3>1, <3>2, <4>1
    <3>4. CASE plan # <<>>
      <4>1. Alike(r, m[0], m[0])
        BY <1>5 DEF Alike
      <4>2. SubSeq(plan, 0 + 1, Len(plan)) = plan
        BY <1>5, <3>2, RestOfPlan
      <4>3. 0 \in 0..Len(plan) /\ 0 # Len(plan)
        BY <1>5, <3>2, <3>4 DEF IsPlan
      <4>4. Ongoing(r, plan, m, m[0], SubSeq(plan, 0 + 1, Len(plan)))
        <5> HIDE DEF plan, m
        <5> QED
          BY <1>5, <3>2, <3>4, <4>1, <4>3, AtStage
      <4> QED
        BY <1>11, <3>1, <3>2, <4>2, <4>4
    <3> QED
      BY <3>3, <3>4
  <2> QED
    BY <1>4, <1>14, <2>2, <2>3, DefinedDoes
<1>15. CASE Folder(r)
  <2>1. todo # <<>> /\ run[r].pc = "build" /\ run'[r].pc = "build" /\ run'[r].todo = Tail(todo)
    BY <1>4, <1>15, FolderDoes DEF Plain, Moves
  <2>2. op.act = "folder" /\ x = MkdirAll(v, op.path)
    BY <1>4, <1>6, <1>15 DEF Folder, Building
  <2>3. x = After(v, op)
    BY <2>2, AfterIs
  <2>4. Rooted(x)
    BY <1>4, <1>9, <1>10, <2>1, <2>3, RootedAfter DEF Working
  <2>5. Ongoing(r, plan, m, x, <<>> \o Tail(todo))
    <3>1. op # LogOp
      BY <2>2 DEF LogOp
    <3> HIDE DEF plan, m, x, v, op
    <3> QED
      BY <1>4, <1>5, <1>10, <2>1, <2>3, <3>1, NextIsDone DEF op, Working
  <2>6. <<>> \o Tail(todo) = Tail(todo)
    BY <1>8, <2>1, TailIsTodo DEF IsTodo
  <2> QED
    BY <1>11, <2>1, <2>4, <2>5, <2>6
<1>16. CASE Inject(r)
  <2> DEFINE text == InjectedText(TextAt(r, op.path))
             new == [op EXCEPT !.act = "file", !.text = text]
  <2>1. /\ todo # <<>> /\ run[r].pc = "build" /\ x = v /\ op.act = "inject"
        /\ \/ run'[r].pc = "failed"
           \/ FileAt(r, op.path) /\ run'[r].pc = "build" /\ run'[r].todo = <<new>> \o Rest(r)
    BY <1>4, <1>16, InjectLeaves DEF Inject, Building, Here
  <2>2. CASE run'[r].pc = "failed"
    BY <1>1, <2>1, <2>2, OwnStays
  <2>3. CASE FileAt(r, op.path) /\ run'[r].pc = "build" /\ run'[r].todo = <<new>> \o Rest(r)
    <3>1. /\ HasFile(v, op.path) /\ TextAt(r, op.path) = v.files[op.path].text
          /\ text = IF v.files[op.path].text \in DOMAIN Injected
                    THEN Injected[v.files[op.path].text] ELSE v.files[op.path].text
      BY <1>6, <2>3 DEF FileAt, TextAt, InjectedText
    <3>2. new.act = "file" /\ new.path = op.path /\ new.text = text
      <4> HIDE DEF text, op
      <4> QED
        BY <1>9, <2>1 DEF IsOp
    <3> HIDE DEF new
    <3>3. After(v, new) = WriteFile(v, op.path, File(text, MemMode))
      BY <3>2, AfterIs DEF NewText
    <3>4. After(v, op) = IF v.files[op.path].text \in DOMAIN Injected
                         THEN WriteFile(v, op.path, File(text, MemMode)) ELSE v
      BY <2>1, <3>1, AfterIs DEF Injects, NewText
    <3>5. After(v, op) = After(v, new) \/ Unseen(After(v, op), After(v, new))
      BY <1>10, <2>1, <3>1, <3>3, <3>4, WriteAgain DEF Working
    <3>6. \A w : Alike(r, After(v, op), w) => Alike(r, After(v, new), w)
      BY <3>5, UnseenStays
    <3> DEFINE then == <<new>> \o Rest(r)
    <3>7. then # <<>> /\ Head(then) = new /\ Tail(then) = Tail(todo)
      <4>1. Rest(r) = Tail(todo) /\ Tail(todo) \in Seq(ToSet(Tail(todo)))
        BY <1>8, <2>1, TailIsTodo DEF Rest, IsTodo
      <4> DEFINE S == ToSet(Tail(todo)) \cup {new}
                 t == Tail(todo)
      <4>2. t \in Seq(S)
        <5>1. t \in Seq(ToSet(t)) /\ ToSet(t) \subseteq S
          BY <4>1
        <5> HIDE DEF t, S
        <5> QED
          BY <5>1, SeqMonotonic
      <4>3. new \in S
        OBVIOUS
      <4> HIDE DEF S, t
      <4>4. LET s == <<new>> \o t IN s # <<>> /\ Head(s) = new /\ Tail(s) = t
        BY <4>2, <4>3
      <4> QED
        BY <4>1, <4>4 DEF t
    <3>8. op # LogOp
      BY <2>1 DEF LogOp
    <3> HIDE DEF then
    <3>9. Ongoing(r, plan, m, v, then)
      <4> HIDE DEF plan, m, v, op
      <4> QED
        BY <1>10, <2>1, <3>6, <3>7, <3>8, NextIsAnother DEF op, Working
    <3>10. Rooted(x)
      BY <1>10, <2>1 DEF Working
    <3> QED
      BY <1>11, <2>1, <2>3, <3>9, <3>10 DEF then
  <2> QED
    BY <2>1, <2>2, <2>3
<1>17. CASE Save(r)
  <2>1. todo # <<>> /\ run[r].pc = "build" /\ op.act = "file"
    BY <1>17 DEF Save, Building, Here
  <2>2. x = v
    BY <1>7, <1>17 DEF Save
  <2>3. CASE Unchanged(r, op)
    <3>1. run'[r].pc = "build" /\ run'[r].todo = Baseline(r, op) \o Tail(todo)
      BY <1>4, <1>6, <1>17, <2>3, SaveLeaves DEF Rest
    <3>2. HasFile(v, op.path) /\ v.files[op.path].text = op.text
      BY <1>6, <2>3 DEF Unchanged, FileAt, TextAt
    <3>3. After(v, op) = WriteFile(v, op.path, File(op.text, MemMode))
      BY <2>1, AfterIs DEF NewText
    <3>4. Rooted(v)
      BY <1>10, <2>1 DEF Working
    <3>5. Unseen(v, After(v, op))
      <4> HIDE DEF v, op
      <4> QED
        BY <3>2, <3>3, <3>4, WriteAgain
    <3>6. \A w : Alike(r, After(v, op), w) => Alike(r, v, w)
      BY <3>5, UnseenStays
    <3>7. Baseline(r, op) = <<>> \/ \E b : Baseline(r, op) = <<b>> /\ IsBookkeeping(b)
      BY <1>9, <2>1, BaselineIs
    <3>8. op # LogOp /\ op.act # "raw"
      BY <2>1 DEF LogOp
    <3>9. Ongoing(r, plan, m, v, Baseline(r, op) \o Tail(todo))
      <4> DEFINE more == Baseline(r, op)
      <4>1. more = <<>> \/ (op.act # "raw" /\ \E b : more = <<b>> /\ IsBookkeeping(b))
        BY <3>7, <3>8
      <4> HIDE DEF plan, m, v, op, more
      <4>2. Ongoing(r, plan, m, v, more \o Tail(todo))
        BY <1>4, <1>5, <1>10, <2>1, <3>6, <3>8, <4>1, NextIsDone DEF op, Working
      <4> QED
        BY <4>2 DEF more
    <3> QED
      BY <1>11, <2>2, <3>1, <3>4, <3>9
  <2>4. CASE ~Unchanged(r, op)
    <3>1. run'[r].pc = "write" /\ run'[r].todo = todo
      BY <1>4, <1>6, <1>17, <2>4, SaveLeaves
    <3> QED
      BY <1>2, <1>10, <2>1, <2>2, <3>1 DEF OwnOK, Working, Writing
  <2> QED
    BY <2>3, <2>4
<1>18. CASE SaveRaw(r)
  <2>1. todo # <<>> /\ run[r].pc = "build" /\ op.act = "raw" /\ x = v
    BY <1>18 DEF SaveRaw, Building, Here
  <2>2. run'[r].pc = "write" /\ run'[r].todo = todo
    <3> DEFINE z == [run[r] EXCEPT !.pc = "write"]
    <3>1. Goes(r, z)
      BY <1>6, <1>18, Zenon DEF SaveRaw
    <3>2. IsRun(run[r])
      BY <1>4 DEF RunsOK
    <3>3. IsRun(z) /\ z.pc = "write" /\ z.todo = todo
      BY <3>2 DEF IsRun
    <3> HIDE DEF z
    <3> QED
      BY <1>4, <3>1, <3>3, GoesOrWarns
  <2> QED
    BY <1>2, <1>10, <2>1, <2>2 DEF OwnOK, Working, Writing
<1>19. CASE Write(r)
  <2> DEFINE temp == TempOf(r, op.path)
  <2>1. run[r].pc = "write" /\ run'[r].pc = "mode" /\ run'[r].todo = todo /\ todo # <<>>
    BY <1>4, <1>8, <1>19, WriteDoes DEF Plain, Moves
  <2>2. x = WriteFile(v, temp, File(op.text, DefaultMode))
    BY <1>4, <1>6, <1>19 DEF Write, Writing
  <2>3. op.act \in {"file", "raw"}
    BY <2>1 DEF OwnOK, Writing
  <2>4. Rooted(v) /\ Ongoing(r, plan, m, v, todo)
    BY <1>10, <2>1 DEF Working
  <2>5. Rooted(x) /\ \A w : Alike(r, After(v, op), w) => Alike(r, After(x, op), w)
    <3> HIDE DEF v, x, op
    <3> QED
      BY <1>4, <1>9, <2>1, <2>2, <2>3, <2>4, TempHidden
  <2>6. Ongoing(r, plan, m, x, todo)
    <3> HIDE DEF plan, m, v, x, todo
    <3> QED
      BY <2>1, <2>4, <2>5, NextIsAnother
  <2>7. x.files[temp].text = op.text
    BY <2>2, WriteFileIs
  <2> QED
    BY <1>2, <2>1, <2>3, <2>5, <2>6, <2>7 DEF OwnOK, Working, Writing, Temp, TempOf
<1>20. CASE SetMode(r)
  <2>1. run[r].pc = "mode" /\ run'[r].pc = "rename" /\ run'[r].todo = run[r].todo
    BY <1>4, <1>20, SetModeDoes DEF Plain, Moves
  <2>2. vols' = vols
    BY <1>7, <1>20 DEF SetMode
  <2> QED
    BY <1>1, <2>1, <2>2, OwnStays
<1>21. CASE Publish(r)
  <2> DEFINE temp == TempOf(r, op.path)
             more == IF op.act = "file" THEN Baseline(r, op) ELSE <<>>
  <2>1. run[r].pc = "rename" /\ todo # <<>> /\ Temp(r) = temp
    BY <1>8, <1>21 DEF Publish, Here, Temp, Writing
  <2>2. run'[r].pc = "build" /\ run'[r].todo = more \o Tail(todo)
    BY <1>4, <1>21, PublishLeaves DEF Writing, Rest
  <2>3. x = Rename(v, temp, op.path)
    BY <1>4, <1>6, <1>21 DEF Publish, Writing
  <2>4. op.act \in {"file", "raw"} /\ v.files[temp].text = op.text
    BY <2>1 DEF OwnOK, Writing
  <2>5. HasFile(v, temp) /\ \A p \in DOMAIN v.files : Last(p) = r => p = temp
    BY <1>4, <1>6, <2>1 DEF TempInv, HasFile
  <2>6. Rooted(v) /\ Ongoing(r, plan, m, v, todo)
    BY <1>10, <2>1 DEF Working
  <2>7. /\ Rooted(x) /\ HasFile(x, op.path)
        /\ \A w : Alike(r, After(v, op), w) => Alike(r, x, w)
    <3> HIDE DEF v, x, op
    <3> QED
      BY <1>9, <2>1, <2>3, <2>4, <2>5, <2>6, RenameLands
  <2>8. more = <<>> \/ (op.act # "raw" /\ \E b : more = <<b>> /\ IsBookkeeping(b))
    BY <1>9, <2>1, BaselineIs
  <2>9. op = LogOp => HasFile(x, Log)
    <3>1. LogOp.path = Log
      BY DEF LogOp, Log
    <3> HIDE DEF x, op
    <3> QED
      BY <2>7, <3>1
  <2> HIDE DEF more
  <2>10. Ongoing(r, plan, m, x, more \o Tail(todo))
    <3> HIDE DEF plan, m, v, x, op
    <3> QED
      BY <1>4, <1>5, <2>1, <2>6, <2>7, <2>8, <2>9, NextIsDone DEF op
  <2> QED
    BY <1>11, <2>2, <2>7, <2>10
<1>22. CASE Finish(r)
  <2>1. todo = <<>> /\ run[r].pc = "build" /\ run'[r].pc = "done"
    BY <1>4, <1>6, <1>22, FinishLeaves
  <2>2. x = v
    BY <1>22 DEF Finish
  <2> QED
    BY <1>2, <1>10, <2>1, <2>2 DEF OwnOK, Working
<1>23. CASE Compare(r)
  BY <1>23 DEF Compare, Here, OwnOK
<1> QED
  BY <1>12, <1>13, <1>14, <1>15, <1>16, <1>17, <1>18, <1>19, <1>20, <1>21, <1>22, <1>23 DEF Step

\* The volume of the instance: what the calls without files of their own
\* put there, and what it started with.
Public(p) ==
    \/ IsBelow(p, Meta) \/ p \in DOMAIN inst.vol
    \/ \E s \in Runs : ~calls[s].own /\
          (Last(p) = s \/ \E k \in DOMAIN calls[s].ops : calls[s].ops[k].path = p)

OfCall(r, path) == IsBelow(path, Meta) \/ \E k \in DOMAIN calls[r].ops : calls[r].ops[k].path = path

TodoOfCall(r) == \A k \in 1..Len(run[r].todo) : OfCall(r, run[r].todo[k].path)

SharedHolds ==
    /\ \A r \in Runs : TodoOfCall(r)
    /\ \A p \in DOMAIN vols["shared"].files : Public(p)

\* Whether each of a list is of its call, put together from the parts.
LEMMA PartsOfCall ==
    ASSUME NEW r, NEW s, NEW t, IsTodo(s), IsTodo(t),
           \A k \in 1..Len(s) : OfCall(r, s[k].path), \A k \in 1..Len(t) : OfCall(r, t[k].path)
    PROVE  \A k \in 1..Len(s \o t) : OfCall(r, (s \o t)[k].path)
<1> DEFINE S == ToSet(s) \cup ToSet(t)
           u == s \o t
<1>1. s \in Seq(S) /\ t \in Seq(S)
  BY SeqMonotonic DEF IsTodo
<1>2. /\ u \in Seq(S) /\ Len(u) = Len(s) + Len(t)
      /\ \A k \in 1..(Len(s) + Len(t)) : u[k] = IF k <= Len(s) THEN s[k] ELSE t[k - Len(s)]
      /\ Len(s) \in Nat /\ Len(t) \in Nat
  BY <1>1, ConcatProperties
<1> HIDE DEF u
<1>3. ASSUME NEW k \in 1..Len(u) PROVE OfCall(r, u[k].path)
  <2>1. CASE k <= Len(s)
    <3>1. k \in 1..Len(s) /\ u[k] = s[k]
      BY <1>2, <2>1
    <3> QED
      BY <3>1
  <2>2. CASE ~(k <= Len(s))
    <3>1. k - Len(s) \in 1..Len(t) /\ u[k] = t[k - Len(s)]
      BY <1>2, <2>2
    <3> QED
      BY <3>1
  <2> QED
    BY <2>1, <2>2
<1> QED
  BY <1>3 DEF u

LEMMA TailOfCall ==
    ASSUME NEW r, NEW todo, IsTodo(todo), todo # <<>>, \A k \in 1..Len(todo) : OfCall(r, todo[k].path)
    PROVE  /\ \A k \in 1..Len(Tail(todo)) : OfCall(r, Tail(todo)[k].path)
           /\ OfCall(r, Head(todo).path)
<1> DEFINE t == Tail(todo)
<1>1. todo \in Seq(ToSet(todo))
  BY DEF IsTodo
<1>2. /\ Len(t) = Len(todo) - 1 /\ Len(todo) \in Nat \ {0}
      /\ \A k \in 1..Len(t) : t[k] = todo[k + 1]
      /\ Head(todo) = todo[1]
  BY <1>1, HeadTailProperties
<1> HIDE DEF t
<1>3. \A k \in 1..Len(t) : k + 1 \in 1..Len(todo)
  BY <1>2
<1>4. 1 \in 1..Len(todo)
  BY <1>2
<1>5. \A k \in 1..Len(t) : OfCall(r, t[k].path)
  BY <1>2, <1>3
<1> QED
  BY <1>2, <1>4, <1>5 DEF t

\* What a step leaves to do is of its call.
LEMMA TodoStaysOfCall ==
    ASSUME TodoInv, NEW r \in Runs, TodoOfCall(r), Step(r)
    PROVE  TodoOfCall(r)'
<1> DEFINE todo == run[r].todo
           then == run'[r].todo
           op == Head(todo)
           Fine(t) == \A k \in 1..Len(t) : OfCall(r, t[k].path)
<1>1. RunsOK /\ ScenarioOK /\ IsTodo(todo) /\ Fine(todo)
  BY DEF TodoInv, TodoOfCall
<1>2. calls' = calls
  <2>1. Next
    BY DEF Next
  <2> QED
    BY <2>1, SameScenario
<1>3. ASSUME Fine(then) PROVE TodoOfCall(r)'
  BY <1>2, <1>3 DEF TodoOfCall, OfCall
<1>4. todo # <<>> => /\ IsTodo(Tail(todo)) /\ IsOp(op) /\ OfCall(r, op.path) /\ Fine(Tail(todo))
  BY <1>1, TailIsTodo, TailOfCall
<1>5. ASSUME NEW b, IsTodo(b), Fine(b), todo # <<>> PROVE Fine(b \o Rest(r))
  BY <1>4, <1>5, PartsOfCall DEF Rest
<1>6. Fine(<<>>) /\ IsTodo(<<>>)
  BY NoneIsTodo
<1>7. ASSUME NEW o, OfCall(r, o.path) PROVE Fine(<<o>>)
  BY <1>7
<1>8. ASSUME NEW o, IsOp(o) PROVE IsTodo(Baseline(r, o)) /\ Fine(Baseline(r, o))
  <2>1. CASE Baseline(r, o) = <<>>
    BY <1>6, <2>1
  <2>2. CASE \E b : Baseline(r, o) = <<b>> /\ IsBookkeeping(b)
    <3>1. PICK b : Baseline(r, o) = <<b>> /\ IsBookkeeping(b)
      BY <2>2
    <3>2. OfCall(r, b.path)
      BY <3>1 DEF IsBookkeeping, OfCall
    <3> QED
      BY <1>7, <3>1, <3>2, OneIsTodo DEF IsBookkeeping
  <2> QED
    BY <1>8, <2>1, <2>2, BaselineIs
<1>9. CASE then = todo
  BY <1>1, <1>3, <1>9
<1>10. CASE todo # <<>> /\ then = Rest(r)
  BY <1>3, <1>4, <1>10 DEF Rest
<1>11. CASE todo # <<>> /\ then = Baseline(r, op) \o Rest(r)
  BY <1>3, <1>4, <1>5, <1>8, <1>11
<1> HIDE DEF Fine
<1>12. CASE Defined(r) /\ then = Planned(r)
  <2> DEFINE plan == Planned(r)
  <2>1. CASE plan = <<>>
    BY <1>3, <1>6, <1>12, <2>1
  <2>2. CASE plan # <<>>
    <3>1. /\ Len(plan) \in Nat \ {0} /\ plan[Len(plan)] = LogOp
          /\ \A k \in 1..Len(plan) - 1 : k \in DOMAIN calls[r].ops /\ plan[k] = calls[r].ops[k]
      BY <1>1, <2>2, PlannedIsTodo
    <3>2. OfCall(r, LogOp.path)
      <4>1. LogOp.path = Log
        BY DEF LogOp, Log
      <4> QED
        BY <4>1, LogIs DEF OfCall
    <3> HIDE DEF plan
    <3>3. Fine(plan)
      <4>1. ASSUME NEW k \in 1..Len(plan) PROVE OfCall(r, plan[k].path)
        <5>1. CASE k = Len(plan)
          BY <3>1, <3>2, <5>1
        <5>2. CASE k # Len(plan)
          <6>1. k \in 1..Len(plan) - 1
            BY <3>1, <5>2
          <6> QED
            BY <3>1, <6>1 DEF OfCall
        <5> QED
          BY <5>1, <5>2
      <4> QED
        BY <4>1 DEF Fine
    <3> QED
      BY <1>3, <1>12, <3>3 DEF plan
  <2> QED
    BY <2>1, <2>2
<1>13. CASE Inject(r)
  <2> DEFINE new == [op EXCEPT !.act = "file", !.text = InjectedText(TextAt(r, op.path))]
  <2>1. todo # <<>>
    BY <1>13 DEF Inject, Building
  <2>2. CASE then = <<new>> \o Rest(r)
    <3>1. IsOp(new) /\ new.path = op.path
      <4> HIDE DEF op
      <4> QED
        BY <1>4, <2>1 DEF IsOp
    <3> HIDE DEF new
    <3>2. IsTodo(<<new>>) /\ Fine(<<new>>)
      BY <1>4, <1>7, <2>1, <3>1, OneIsTodo
    <3>3. Fine(<<new>> \o Rest(r))
      BY <1>5, <2>1, <3>2
    <3> QED
      BY <1>3, <2>2, <3>3
  <2>3. CASE then = todo
    BY <1>9, <2>3
  <2>4. then = todo \/ then = <<new>> \o Rest(r)
    <3>1. CASE Plain(r, "build", "failed", todo)
      BY <3>1 DEF Plain, Moves
    <3>2. CASE ~Plain(r, "build", "failed", todo)
      <4>1. run'[r].pc # "failed"
        BY <1>1, <1>13, <3>2, InjectDoes DEF Plain, Warns, Moves
      <4> QED
        BY <1>1, <1>13, <4>1, InjectLeaves
    <3> QED
      BY <3>1, <3>2
  <2> QED
    BY <2>2, <2>3, <2>4
<1>14. CASE Begin(r) \/ Render(r) \/ LookUp(r) \/ Store(r)
  <2>1. then = todo
    BY <1>1, <1>14, BeginDoes, RenderDoes, LookUpDoes, StoreDoes DEF Plain, Moves, Answers
  <2> QED
    BY <1>9, <2>1
<1>15. CASE Defined(r)
  BY <1>1, <1>9, <1>12, <1>15, DefinedDoes DEF Plain, Moves
<1>16. CASE Folder(r) \/ SaveRaw(r)
  <2>1. todo # <<>> /\ (then = Rest(r) \/ then = todo)
    BY <1>1, <1>16, FolderDoes, SaveRawDoes DEF Plain, Moves, Rest
  <2> QED
    BY <1>9, <1>10, <2>1
<1>17. CASE Save(r)
  <2>1. todo # <<>> /\ then \in {todo, Rest(r), Baseline(r, op) \o Rest(r)}
    BY <1>1, <1>17, SaveDoes DEF Plain, Warns, Moves
  <2> QED
    BY <1>9, <1>10, <1>11, <2>1
<1>18. CASE Write(r) \/ SetMode(r) \/ Finish(r) \/ Compare(r)
  <2>1. then = todo
    BY <1>1, <1>18, WriteDoes, SetModeDoes, FinishDoes, CompareDoes DEF Plain, Moves
  <2> QED
    BY <1>9, <2>1
<1>19. CASE Publish(r)
  <2>1. run[r].pc = "rename" /\ todo # <<>>
    BY <1>19 DEF Publish, Here, TodoInv
  <2>2. then \in {Baseline(r, op) \o Rest(r), <<>> \o Rest(r)}
    BY <1>1, <1>19, PublishDoes DEF Plain, Moves, Writing
  <2>3. <<>> \o Rest(r) = Rest(r)
    BY <1>4, <2>1 DEF Rest, IsTodo
  <2> QED
    BY <1>10, <1>11, <2>1, <2>2, <2>3
<1> QED
  BY <1>13, <1>14, <1>15, <1>16, <1>17, <1>18, <1>19 DEF Step

\* A step leaves the other calls as they are.
LEMMA OthersStay ==
    ASSUME RunsOK, NEW r \in Runs, Step(r), NEW s \in Runs, s # r
    PROVE  run'[s] = run[s]
<1>1. ASSUME NEW x, Goes(r, x) PROVE run'[s] = run[s]
  BY <1>1 DEF Goes, RunsOK
<1>2. ASSUME NEW x, NEW e, Warn(r, x, e) PROVE run'[s] = run[s]
  BY <1>1, <1>2, Zenon DEF Warn
<1>3. \/ \E x : Goes(r, x)
      \/ \E x, e : Warn(r, x, e)
  BY Zenon DEF Step, Begin, Render, LookUp, Store, Defined, Folder, Inject, Save, SaveRaw, Write,
     SetMode, Publish, Finish, Compare, Fail
<1> QED
  BY <1>1, <1>2, <1>3

\* A call that writes the volume of the instance brings no files.
LEMMA SharedWriter ==
    ASSUME ScenarioOK, NEW r \in Runs, Target(r) = "shared"
    PROVE  ~calls[r].own
<1>1. /\ inst.fs \in {"none", "os", "given"} /\ calls[r].fs \in {"none", "os", "given"}
      /\ r # "shared"
  BY PathsAssumption, RunsAssumption DEF ScenarioOK, Lasting
<1>2. Base(r) # "shared"
  BY <1>1 DEF Base, Merged
<1> QED
  BY <1>1, <1>2 DEF Target, OwnVolume

LEMMA SharedStays ==
    ASSUME TodoInv, TempInv, SharedHolds, NEW r \in Runs, Step(r)
    PROVE  SharedHolds'
<1> DEFINE op == Head(run[r].todo)
           old == vols["shared"]
           new == vols'["shared"]
<1>1. inst' = inst /\ calls' = calls
  <2>1. Next
    BY DEF Next
  <2> QED
    BY <2>1, SameScenario
<1>2. /\ RunsOK /\ ScenarioOK /\ VolumesOK /\ "shared" \in DOMAIN vols
      /\ \A p \in DOMAIN old.files : Public(p)
  BY DEF TodoInv, TempInv, VolumesOK, SharedHolds, Lasting
<1>3. ASSUME NEW s \in Runs PROVE TodoOfCall(s)'
  <2>1. CASE s = r
    BY <2>1, TodoStaysOfCall DEF SharedHolds
  <2>2. CASE s # r
    <3>1. run'[s] = run[s]
      BY <1>2, <2>2, OthersStay
    <3> QED
      BY <1>1, <3>1 DEF SharedHolds, TodoOfCall, OfCall
  <2> QED
    BY <2>1, <2>2
<1>4. ASSUME NEW p, Public(p) PROVE Public(p)'
  BY <1>1, <1>4 DEF Public
<1>5. ASSUME \A p \in DOMAIN new.files : p \in DOMAIN old.files \/ Public(p)
      PROVE  SharedHolds'
  BY <1>2, <1>3, <1>4, <1>5 DEF SharedHolds
<1>6. CASE Target(r) # "shared"
  <2>1. new = old
    BY <1>2, <1>6, OthersWrite
  <2> QED
    BY <1>5, <2>1
<1>7. CASE Target(r) = "shared"
  <2>1. ~calls[r].own
    BY <1>2, <1>7, SharedWriter
  <2>2. ASSUME NEW w, vols' = [vols EXCEPT !["shared"] = w],
               \A p \in DOMAIN w.files : p \in DOMAIN old.files \/ Public(p)
        PROVE  SharedHolds'
    BY <1>2, <1>5, <2>2
  <2>3. CASE SameFiles
    BY <1>2, <1>5, <2>3 DEF SameFiles
  <2>4. CASE vols' = vols
    BY <1>5, <2>4
  <2>5. run[r].todo # <<>> => OfCall(r, op.path) /\ IsOp(op)
    BY TailOfCall, TailIsTodo DEF SharedHolds, TodoOfCall, TodoInv
  <2>6. \A p : OfCall(r, p) => Public(p)
    BY <2>1 DEF OfCall, Public
  <2>7. CASE Begin(r)
    <3>1. vols' = vols
      BY <1>7, <2>7, RunsAssumption DEF Begin, Lasting
    <3> QED
      BY <2>4, <3>1
  <2>8. CASE Folder(r)
    <3> DEFINE w == MkdirAll(old, op.path)
    <3>1. vols' = vols \/ vols' = [vols EXCEPT !["shared"] = w]
      BY <1>7, <2>8, Zenon DEF Folder, Sink
    <3>2. DOMAIN w.files = DOMAIN old.files
      BY <1>2, MkdirAllDoes DEF VolumesOK
    <3> HIDE DEF w
    <3> QED
      BY <2>2, <2>4, <3>1, <3>2
  <2>9. CASE Save(r)
    <3>1. vols' = vols \/ vols' = Modes(r, op.path, op.mode)
      <4>1. vols' = IF Unchanged(r, op) /\ Differs(r, op.path, op.mode)
                    THEN Modes(r, op.path, op.mode) ELSE vols
        BY <2>9, Zenon DEF Save
      <4> HIDE DEF op
      <4> QED
        BY <4>1
    <3> QED
      BY <1>2, <2>3, <2>4, <3>1, ModesDoes
  <2>10. CASE Write(r)
    <3> DEFINE temp == TempOf(r, op.path)
               w == WriteFile(old, temp, File(op.text, DefaultMode))
    <3>1. vols' = [vols EXCEPT !["shared"] = w]
      BY <1>7, <2>10, Zenon DEF Write, Sink, Writing
    <3>2. DOMAIN w.files = DOMAIN old.files \cup {temp}
      BY WriteFileDoes
    <3>3. run[r].todo # <<>>
      BY <2>10 DEF Write, Here, TodoInv
    <3>4. Public(temp)
      <4>1. Last(temp) = r
        BY <2>5, <3>3, TempOfIsLast DEF IsOp
      <4> QED
        BY <2>1, <4>1 DEF Public
    <3> HIDE DEF w, temp
    <3> QED
      BY <2>2, <3>1, <3>2, <3>4
  <2>11. CASE SetMode(r)
    BY <1>2, <2>3, <2>11, ModesDoes DEF SetMode
  <2>12. CASE Publish(r)
    <3> DEFINE temp == TempOf(r, op.path)
               w == Rename(old, temp, op.path)
    <3>1. vols' = [vols EXCEPT !["shared"] = w]
      BY <1>7, <2>12, Zenon DEF Publish, Sink, Writing
    <3>2. DOMAIN w.files = (DOMAIN old.files \ {temp}) \cup {op.path}
      BY RenameDoes
    <3>3. run[r].todo # <<>>
      BY <2>12 DEF Publish, Here, TodoInv
    <3>4. Public(op.path)
      BY <2>5, <2>6, <3>3
    <3> HIDE DEF w, op
    <3> QED
      BY <2>2, <3>1, <3>2, <3>4
  <2>13. CASE Render(r) \/ LookUp(r) \/ Store(r) \/ Defined(r) \/ Inject(r) \/ SaveRaw(r)
              \/ Finish(r) \/ Compare(r)
    BY <2>4, <2>13 DEF Render, LookUp, Store, Defined, Inject, SaveRaw, Finish, Compare
  <2> QED
    BY <2>7, <2>8, <2>9, <2>10, <2>11, <2>12, <2>13 DEF Step
<1> QED
  BY <1>6, <1>7

\* Every call with a volume of its own, and the volume of the instance.
OwnInv == (\A r \in Runs : OwnOK(r)) /\ SharedHolds

LEMMA StepOwnInv == TodoInv /\ TempInv /\ OwnInv /\ [Next]_vars => OwnInv'
<1> SUFFICES ASSUME TodoInv, TempInv, OwnInv, [Next]_vars PROVE OwnInv'
  OBVIOUS
<1>1. inst' = inst /\ calls' = calls
  BY SameScenario
<1>2. RunsOK /\ ScenarioOK /\ VolumesOK
  BY DEF TodoInv, TempInv
<1>3. ASSUME NEW r \in Runs, Step(r) PROVE OwnInv'
  <2>1. SharedHolds'
    BY <1>3, SharedStays DEF OwnInv
  <2>2. ASSUME NEW s \in Runs PROVE OwnOK(s)'
    <3>1. CASE ~IsOwn(s)
      BY <1>1, <3>1, SameOwn DEF OwnOK
    <3>2. CASE IsOwn(s) /\ s = r
      BY <1>3, <3>2, OwnStep DEF OwnInv
    <3>3. CASE s # r
      <4>1. run'[s] = run[s]
        BY <1>2, <1>3, <3>3, OthersStay
      <4>2. s # Target(r) /\ s \in DOMAIN vols
        BY <1>2, <3>3, TargetIsThere, RunsAssumption DEF VolumesOK
      <4>3. vols'[s] = vols[s]
        BY <1>2, <1>3, <4>2, OthersWrite
      <4> QED
        BY <1>1, <4>1, <4>3, OwnStays DEF OwnInv
    <3> QED
      BY <3>1, <3>2, <3>3
  <2> QED
    BY <2>1, <2>2 DEF OwnInv
<1>4. CASE UNCHANGED <<run, vols>>
  <2>1. ASSUME NEW s \in Runs PROVE OwnOK(s)'
    BY <1>1, <1>4, <2>1, OwnStays DEF OwnInv
  <2>2. SharedHolds'
    BY <1>1, <1>4 DEF OwnInv, SharedHolds, TodoOfCall, OfCall, Public
  <2> QED
    BY <2>1, <2>2 DEF OwnInv
<1> QED
  BY <1>3, <1>4 DEF Next, Snapshot, vars

LEMMA InitOwnInv == Init => OwnInv
<1> SUFFICES ASSUME Init PROVE OwnInv
  OBVIOUS
<1>1. run = [r \in Runs |-> Idle] /\ Idle.pc = "idle" /\ Idle.todo = <<>>
  BY DEF Init, Idle
<1>2. ASSUME NEW r \in Runs PROVE OwnOK(r) /\ TodoOfCall(r)
  BY <1>1 DEF OwnOK, TodoOfCall, Working
<1>3. ASSUME NEW p \in DOMAIN vols["shared"].files PROVE Public(p)
  <2>1. vols["shared"] = Seed(inst.vol) \/ vols["shared"] = NoVolume
    BY DEF Init, Lasting
  <2>2. p \in DOMAIN inst.vol
    <3>1. NoVolume.files = <<>> /\ DOMAIN <<>> = {}
      BY DEF NoVolume
    <3> QED
      BY <1>3, <2>1, <3>1, SeedDoes
  <2> QED
    BY <2>2 DEF Public
<1> QED
  BY <1>2, <1>3 DEF OwnInv, SharedHolds

\* A call in memory that brings its own files ends with a volume that holds
\* what seeding it with those, over the instance's, and carrying out its
\* operations one after the other makes, whatever other calls do meanwhile;
\* and the volume of the instance never holds a path that only such calls
\* put out (go/jostraca.go:219).
THEOREM OwnVolumeIsKept == Spec => []OwnVolumeHoldsItsRun
<1> DEFINE IInv == TodoInv /\ TempInv /\ OwnInv
<1>1. Init => IInv
  BY InitTempInv, InitOwnInv
<1>2. IInv /\ [Next]_vars => IInv'
  BY StepTodoInv, StepTempInv, StepOwnInv
<1>3. IInv => OwnVolumeHoldsItsRun
  <2> SUFFICES ASSUME IInv, NEW r \in Runs, InMemory(r), calls[r].own
               PROVE  /\ run[r].pc = "done" /\ ~Opts(r).dry =>
                            Apart(vols[r]) = Apart(Made(Seed(Merged(r).vol), Planned(r)))
                      /\ \A p \in DOMAIN vols["shared"].files : Public(p)
    BY DEF OwnVolumeHoldsItsRun, Public
  <2>1. \A p \in DOMAIN vols["shared"].files : Public(p)
    BY DEF OwnInv, SharedHolds
  <2>2. ASSUME run[r].pc = "done", ~Opts(r).dry
        PROVE  Apart(vols[r]) = Apart(Made(StartOf(r), Planned(r)))
    <3> DEFINE plan == Planned(r)
               m == Stages(r)
               v == vols[r]
               n == Len(plan)
    <3>1. IsOwn(r)
      BY <2>2 DEF InMemory, IsOwn, Target, OwnVolume, Merged
    <3>2. Rooted(v) /\ Ongoing(r, plan, m, v, <<>>)
      BY <2>2, <3>1 DEF OwnInv, OwnOK
    <3>3. /\ IsPlan(plan) /\ AreStages(m, plan) /\ m[0] = StartOf(r)
          /\ m[n] = Made(StartOf(r), plan)
      BY StagesAre DEF TodoInv
    <3>4. CASE plan = <<>>
      BY <3>2, <3>3, <3>4 DEF Ongoing
    <3>5. CASE plan # <<>>
      <4>1. Alike(r, v, m[n]) /\ HasFile(v, Log)
        BY <3>2, <3>5 DEF Ongoing
      <4>2. \A p \in DOMAIN v.files : Last(p) # r
        BY <2>2, <3>1 DEF TempInv, VolumesOK
      <4>3. n \in 1..n /\ n \in 0..n /\ plan[n] = LogOp
        BY <3>3, <3>5 DEF IsPlan
      <4>4. Rooted(m[n]) /\ m[n] = After(m[n - 1], LogOp)
        BY <3>3, <4>3 DEF AreStages
      <4>5. HasFile(m[n], Log)
        <5>1. LogOp.act = "raw" /\ LogOp.path = Log
          BY DEF LogOp, Log
        <5>2. After(m[n - 1], LogOp) = WriteFile(m[n - 1], Log, File(LogOp.text, MemMode))
          BY <5>1, AfterIs DEF NewText
        <5> QED
          BY <4>4, <5>2, WriteFileDoes DEF HasFile
      <4>6. Apart(v) = Apart(m[n])
        <5> HIDE DEF v, m, n, plan
        <5> QED
          BY <3>2, <4>1, <4>2, <4>4, <4>5, SameApart
      <4> QED
        BY <3>3, <4>6
    <3> QED
      BY <3>4, <3>5
  <2> QED
    BY <2>1, <2>2 DEF StartOf
<1> HIDE DEF IInv
<1> QED
  BY <1>1, <1>2, <1>3, PTL DEF Spec
=============================================================================
