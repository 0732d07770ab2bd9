------------------------- MODULE AtomicWrite_proofs -------------------------
(***************************************************************************)
(* An atomic write is atomic, for any number of processes, temp paths,     *)
(* attempts, failures and crashes, and for both kinds of provider.         *)
(***************************************************************************)
EXTENDS AtomicWrite, TLAPS

\* What a writer is about to rename is its own file of this life, whole, and
\* no other writer can be at its temp path.
ReadyIsWhole ==
    \A w \in Writers : pc[w] = "rename" => temp[cand[w]] = Mine(w, TRUE)

AnsweredWhenDone == \A w \in Writers : pc[w] # "done" <=> answer[w] = "none"

IInv == TypeOK /\ ReadyIsWhole /\ AnsweredWhenDone

LEMMA InitIInv == Init => IInv
<1> SUFFICES ASSUME Init PROVE IInv
  OBVIOUS
<1>1. TypeOK
  BY WriteAssumption DEF Init, TypeOK, File
<1> QED
  BY <1>1 DEF Init, IInv, ReadyIsWhole, AnsweredWhenDone

LEMMA StepIInv == IInv /\ [Next]_vars => IInv'
<1> SUFFICES ASSUME IInv, [Next]_vars PROVE IInv'
  OBVIOUS
<1> USE WriteAssumption DEF IInv
<1>1. ASSUME NEW w \in Writers, NEW whole \in BOOLEAN
      PROVE  Mine(w, whole) \in File
  BY <1>1 DEF Mine, File, Output, TypeOK
<1>2. ASSUME NEW w \in Writers, Occupied(w) PROVE IInv'
  BY <1>2 DEF Occupied, TypeOK, ReadyIsWhole, AnsweredWhenDone, Mine
<1>3. ASSUME NEW w \in Writers, Choose(w) PROVE IInv'
  <2>1. PICK n \in NamesOf[w] :
          /\ Free(w, n)
          /\ cand' = [cand EXCEPT ![w] = n]
          /\ IF w \in Exclusive
             THEN temp' = [temp EXCEPT ![n] = Mine(w, FALSE)] /\ Goto(w, "fill")
             ELSE UNCHANGED temp /\ Goto(w, "open")
    BY <1>3 DEF Choose
  <2>2. n \in Names /\ temp[n] = Nothing
    BY <2>1 DEF Free
  <2>3. PICK step \in {"fill", "open"} : pc' = [pc EXCEPT ![w] = step]
    BY <2>1 DEF Goto
  <2>4. temp' = temp \/ temp' = [temp EXCEPT ![n] = Mine(w, FALSE)]
    BY <2>1, Zenon
  <2>5. cand' = [cand EXCEPT ![w] = n]
    BY <2>1
  <2>6. temp' \in [Names -> File]
    <3>1. Mine(w, FALSE) \in File
      BY <1>1
    <3>2. temp \in [Names -> File]
      BY DEF TypeOK
    <3> QED
      BY <2>2, <2>4, <3>1, <3>2
  <2>7. TypeOK'
    <3>1. /\ attempt[w] < Attempts /\ attempt' = [attempt EXCEPT ![w] = @ + 1]
          /\ UNCHANGED <<target, answer, warned, life, foreign, late>>
      BY <1>3, Zenon DEF Choose
    <3>2. /\ pc' \in [Writers -> {"try", "open", "fill", "rename", "clean", "done"}]
          /\ cand' \in [Writers -> Names \cup {Nothing}]
          /\ \A v \in Writers : pc'[v] \in {"open", "fill", "rename", "clean"}
                                  => cand'[v] \in NamesOf[v]
      BY <2>2, <2>3, <2>5 DEF TypeOK
    <3>3. attempt' \in [Writers -> 0..Attempts]
      BY <3>1 DEF TypeOK
    <3> QED
      BY <2>6, <3>1, <3>2, <3>3 DEF TypeOK
  <2>8. ASSUME NEW v \in Writers, pc'[v] = "rename" PROVE temp'[cand'[v]] = Mine(v, TRUE)'
    <3>1. v # w /\ pc[v] = "rename" /\ cand'[v] = cand[v]
      BY <2>3, <2>5, <2>8 DEF TypeOK
    <3>2. cand[v] \in NamesOf[v] /\ cand[v] # n
      BY <3>1, <2>1 DEF TypeOK
    <3> QED
      BY <1>3, <2>2, <2>4, <3>1, <3>2 DEF Choose, TypeOK, ReadyIsWhole, Mine
  <2>9. AnsweredWhenDone'
    BY <1>3, <2>3 DEF Choose, TypeOK, AnsweredWhenDone
  <2> QED
    BY <2>7, <2>8, <2>9 DEF ReadyIsWhole
\* A step that puts a file at the writer's own temp path.
<1>4. ASSUME NEW w \in Writers, pc[w] \in {"open", "fill", "clean"}, NEW f \in File,
             temp' = [temp EXCEPT ![cand[w]] = f],
             NEW step \in {"fill", "rename", "done"}, Goto(w, step),
             step = "rename" => f = Mine(w, TRUE),
             UNCHANGED <<cand, life>>
      PROVE  ReadyIsWhole'
  <2>1. ASSUME NEW v \in Writers, pc'[v] = "rename" PROVE temp'[cand'[v]] = Mine(v, TRUE)'
    <3>1. cand[w] \in NamesOf[w] /\ cand[w] \in Names
      BY <1>4 DEF TypeOK
    <3>2. CASE v = w
      BY <1>4, <2>1, <3>1, <3>2 DEF Goto, TypeOK, Mine
    <3>3. CASE v # w
      <4>1. pc[v] = "rename" /\ cand[v] \in NamesOf[v]
        BY <1>4, <2>1, <3>3 DEF Goto, TypeOK
      <4> QED
        BY <1>4, <3>1, <3>3, <4>1 DEF TypeOK, ReadyIsWhole, Mine
    <3> QED
      BY <3>2, <3>3
  <2> QED
    BY <2>1 DEF ReadyIsWhole
<1>5. ASSUME NEW w \in Writers, Open(w) PROVE IInv'
  <2>1. ReadyIsWhole'
    BY <1>1, <1>4, <1>5 DEF Open
  <2>2. TypeOK' /\ AnsweredWhenDone'
    BY <1>1, <1>5 DEF Open, Goto, TypeOK, AnsweredWhenDone
  <2> QED
    BY <2>1, <2>2
<1>6. ASSUME NEW w \in Writers, CreateFails(w) PROVE IInv'
  <2>1. ReadyIsWhole'
    BY <1>6 DEF CreateFails, Goto, TypeOK, ReadyIsWhole, Mine
  <2>2. TypeOK' /\ AnsweredWhenDone'
    BY <1>6 DEF CreateFails, Goto, TypeOK, AnsweredWhenDone
  <2> QED
    BY <2>1, <2>2
<1>7. ASSUME NEW w \in Writers, Fill(w) PROVE IInv'
  <2>1. ReadyIsWhole'
    BY <1>1, <1>4, <1>7 DEF Fill
  <2>2. TypeOK' /\ AnsweredWhenDone'
    BY <1>1, <1>7 DEF Fill, Goto, TypeOK, AnsweredWhenDone
  <2> QED
    BY <2>1, <2>2
<1>8. ASSUME NEW w \in Writers, FillFails(w) \/ RenameFails(w) PROVE IInv'
  <2>1. ReadyIsWhole'
    BY <1>8 DEF FillFails, RenameFails, Goto, TypeOK, ReadyIsWhole, Mine
  <2>2. TypeOK' /\ AnsweredWhenDone'
    BY <1>8 DEF FillFails, RenameFails, Goto, TypeOK, AnsweredWhenDone
  <2> QED
    BY <2>1, <2>2
<1>9. ASSUME NEW w \in Writers, Rename(w) PROVE IInv'
  <2>1. cand[w] \in NamesOf[w] /\ cand[w] \in Names /\ temp[cand[w]] \in File /\ Nothing \in File
    BY <1>9 DEF Rename, TypeOK, File
  <2>2. TypeOK' /\ AnsweredWhenDone'
    BY <1>9, <2>1 DEF Rename, Return, Goto, TypeOK, AnsweredWhenDone
  <2>3. ASSUME NEW v \in Writers, pc'[v] = "rename" PROVE temp'[cand'[v]] = Mine(v, TRUE)'
    <3>1. v # w /\ pc[v] = "rename" /\ cand[v] \in NamesOf[v]
      BY <1>9, <2>3 DEF Rename, Return, Goto, TypeOK
    <3> QED
      BY <1>9, <2>1, <3>1 DEF Rename, TypeOK, ReadyIsWhole, Mine
  <2> QED
    BY <2>2, <2>3 DEF ReadyIsWhole
<1>10. ASSUME NEW w \in Writers, Clean(w) PROVE IInv'
  <2>1. cand[w] \in Names /\ Nothing \in File
    BY <1>10 DEF Clean, TypeOK, File
  <2>2. ReadyIsWhole'
    <3>1. CASE temp' = [temp EXCEPT ![cand[w]] = Nothing]
      BY <1>4, <1>10, <2>1, <3>1 DEF Clean, Return
    <3>2. CASE UNCHANGED temp
      BY <1>10, <3>2 DEF Clean, Return, Goto, TypeOK, ReadyIsWhole, Mine
    <3> QED
      BY <1>10, <3>1, <3>2 DEF Clean
  <2>3. TypeOK' /\ AnsweredWhenDone'
    BY <1>10, <2>1 DEF Clean, Return, Goto, TypeOK, AnsweredWhenDone
  <2> QED
    BY <2>2, <2>3
<1>11. ASSUME NEW w \in Writers, Exhausted(w) PROVE IInv'
  <2>1. ReadyIsWhole'
    BY <1>11 DEF Exhausted, Return, Goto, TypeOK, ReadyIsWhole, Mine
  <2>2. TypeOK' /\ AnsweredWhenDone'
    BY <1>11 DEF Exhausted, Return, Goto, TypeOK, AnsweredWhenDone
  <2> QED
    BY <2>1, <2>2
<1>12. ASSUME NEW w \in Writers, Die(w) PROVE IInv'
  <2>1. ReadyIsWhole'
    BY <1>12 DEF Die, Goto, TypeOK, ReadyIsWhole, Mine
  <2>2. TypeOK' /\ AnsweredWhenDone'
    BY <1>12 DEF Die, Goto, TypeOK, AnsweredWhenDone
  <2> QED
    BY <2>1, <2>2
<1>13. CASE Appear
  <2>1. TypeOK' /\ AnsweredWhenDone'
    BY <1>13 DEF Appear, TypeOK, AnsweredWhenDone, File
  <2>2. ReadyIsWhole'
    <3>1. ASSUME NEW v \in Writers, pc[v] = "rename"
          PROVE  temp[cand[v]] # Nothing /\ cand[v] \in Names
      <4>1. temp[cand[v]] = Mine(v, TRUE) /\ Mine(v, TRUE) \in Output
        BY <3>1 DEF ReadyIsWhole, TypeOK, Mine, Output
      <4> QED
        BY <3>1, <4>1, OutsideAssumption DEF TypeOK
    <3> QED
      BY <1>13, <3>1 DEF Appear, TypeOK, ReadyIsWhole, Mine
  <2> QED
    BY <2>1, <2>2
<1>14. CASE UNCHANGED vars
  BY <1>14 DEF vars, TypeOK, ReadyIsWhole, AnsweredWhenDone, Mine
<1> QED
  BY <1>2, <1>3, <1>5, <1>6, <1>7, <1>8, <1>9, <1>10, <1>11, <1>12, <1>13, <1>14
     DEF Next, Step

\* The state is of its type: among the rest, a writer never tries more temp
\* paths than it has attempts, and is at one of its own when it writes, renames
\* or removes (tmppathFor, writeAtomicMode).
THEOREM TypeCorrect == Spec => []TypeOK
<1>1. IInv => TypeOK
  BY DEF IInv
<1> QED
  BY InitIInv, StepIInv, <1>1, PTL DEF Spec

-----------------------------------------------------------------------------
(* The refinement. *)

LEMMA StepRefines == IInv /\ [Next]_vars => [Store!Next]_(Store!storeVars)
<1> SUFFICES ASSUME IInv, [Next]_vars PROVE [Store!Next]_(Store!storeVars)
  OBVIOUS
<1> USE DEF Store!storeVars
<1>1. ASSUME NEW w \in Writers, Rename(w) PROVE Store!Publish(w)
  BY <1>1 DEF Rename, Return, IInv, ReadyIsWhole, AnsweredWhenDone, Mine,
     Store!Publish, Store!Told
<1>2. ASSUME NEW w \in Writers, Clean(w) \/ Exhausted(w) PROVE Store!Fail(w)
  BY <1>2 DEF Clean, Exhausted, Return, IInv, AnsweredWhenDone, Store!Fail, Store!Told
<1>3. ASSUME NEW w \in Writers, Die(w) PROVE Store!Restart(w)
  BY <1>3 DEF Die, IInv, AnsweredWhenDone, Store!Restart
<1>4. CASE Appear
  BY <1>4 DEF Appear, Store!Outside, Store!Next
<1>5. ASSUME NEW w \in Writers,
             Occupied(w) \/ Choose(w) \/ Open(w) \/ CreateFails(w) \/ Fill(w)
               \/ FillFails(w) \/ RenameFails(w)
      PROVE  UNCHANGED Store!storeVars
  BY <1>5 DEF Occupied, Choose, Open, CreateFails, Fill, FillFails, RenameFails
<1>6. CASE UNCHANGED vars
  BY <1>6 DEF vars
<1> QED
  BY <1>1, <1>2, <1>3, <1>4, <1>5, <1>6 DEF Next, Step, Store!Next

\* The target is only ever replaced by the whole of what one live process
\* wrote, in the step that makes its write succeed; a write that fails or
\* whose process dies changes nothing a reader can see (writeAtomicMode).
THEOREM AtomicallyReplaced == Spec => WritesAtomically
<1>1. Init => IInv
  BY InitIInv
<1>2. IInv /\ [Next]_vars => IInv'
  BY StepIInv
<1>3. Init => Store!Init
  BY DEF Init, Store!Init
<1>4. IInv /\ [Next]_vars => [Store!Next]_(Store!storeVars)
  BY StepRefines
<1> QED
  BY <1>1, <1>2, <1>3, <1>4, PTL DEF Spec, WritesAtomically, Store!Spec

-----------------------------------------------------------------------------
(* The temp paths. *)

\* A file of somebody else that a writer faces got there after it looked.
FacesLate ==
    \A w \in Writers :
        /\ pc[w] \in {"open", "clean"} /\ temp[cand[w]] = Foreign => cand[w] \in late
        /\ pc[w] = "fill" => temp[cand[w]] = Mine(w, FALSE)

\* A file of a writer is in work, or a warning names it, if no process died.
WarnedOrHeld ==
    (\A w \in Writers : life[w] = 0) =>
        \A n \in Names : temp[n] \in Output =>
            \/ n \in warned
            \/ \E w \in Writers : pc[w] \in {"fill", "rename", "clean"} /\ cand[w] = n

LEMMA MineIsOutput ==
    ASSUME TypeOK, NEW w \in Writers, NEW whole \in BOOLEAN
    PROVE  Mine(w, whole) \in Output /\ Mine(w, whole) # Foreign /\ Mine(w, whole) # Nothing
BY OutsideAssumption DEF Mine, Output, TypeOK

LEMMA StepFacesLate == IInv /\ FacesLate /\ [Next]_vars => FacesLate'
<1> SUFFICES ASSUME IInv, FacesLate, [Next]_vars PROVE FacesLate'
  OBVIOUS
<1> USE WriteAssumption DEF FacesLate
<1>1. TypeOK /\ TypeOK' /\ ReadyIsWhole
  BY StepIInv DEF IInv
<1>2. ASSUME NEW w \in Writers, Occupied(w) PROVE FacesLate'
  BY <1>2 DEF Occupied, Mine
<1>3. ASSUME NEW w \in Writers, Choose(w) PROVE FacesLate'
  <2>1. PICK n \in NamesOf[w] :
          /\ temp[n] = Nothing
          /\ cand' = [cand EXCEPT ![w] = n]
          /\ \/ temp' = [temp EXCEPT ![n] = Mine(w, FALSE)] /\ Goto(w, "fill")
             \/ UNCHANGED temp /\ Goto(w, "open")
    BY <1>3, Zenon DEF Choose, Free
  <2>2. n \in Names /\ UNCHANGED <<life, late>> /\ temp \in [Names -> File]
    BY <1>1, <1>3 DEF Choose, TypeOK
  <2>3. ASSUME NEW v \in Writers, v # w, pc[v] \in {"open", "fill", "clean"}
        PROVE  pc'[v] = pc[v] /\ cand'[v] = cand[v] /\ temp'[cand'[v]] = temp[cand[v]]
    <3>1. cand[v] \in NamesOf[v] /\ cand[v] # n
      BY <1>1, <2>1, <2>3 DEF TypeOK
    <3>2. pc'[v] = pc[v] /\ cand'[v] = cand[v]
      BY <1>1, <2>1, <2>3 DEF Goto, TypeOK
    <3>3. temp'[cand[v]] = temp[cand[v]]
      BY <2>1, <2>2, <3>1
    <3> QED
      BY <3>2, <3>3
  <2>4. /\ pc'[w] = "fill" => temp'[cand'[w]] = Mine(w, FALSE)
        /\ pc'[w] = "open" => temp'[cand'[w]] = Nothing
        /\ pc'[w] \in {"fill", "open"}
    <3>1. cand'[w] = n
      BY <1>1, <2>1 DEF TypeOK
    <3>2. CASE temp' = [temp EXCEPT ![n] = Mine(w, FALSE)] /\ Goto(w, "fill")
      BY <1>1, <2>2, <3>1, <3>2 DEF Goto, TypeOK
    <3>3. CASE UNCHANGED temp /\ Goto(w, "open")
      BY <1>1, <2>1, <3>1, <3>3 DEF Goto, TypeOK
    <3> QED
      BY <2>1, <3>2, <3>3
  <2>5. ASSUME NEW v \in Writers, pc'[v] \in {"open", "fill", "clean"}, v # w
        PROVE  pc[v] = pc'[v]
    BY <1>1, <2>1, <2>5 DEF Goto, TypeOK
  <2> QED
    BY <2>2, <2>3, <2>4, <2>5, OutsideAssumption DEF Mine
<1>4. ASSUME NEW w \in Writers, Open(w) PROVE FacesLate'
  BY <1>1, <1>4 DEF Open, Goto, TypeOK, Mine
<1>5. ASSUME NEW w \in Writers, CreateFails(w) PROVE FacesLate'
  <2>1. CASE pc[w] = "open" /\ UNCHANGED cand
    BY <1>1, <1>5, <2>1 DEF CreateFails, Goto, TypeOK, Mine
  <2>2. CASE pc[w] = "try"
    BY <1>1, <1>5, <2>2, OutsideAssumption DEF CreateFails, Free, Goto, TypeOK, Mine
  <2> QED
    BY <1>5, <2>1, <2>2 DEF CreateFails
<1>6. ASSUME NEW w \in Writers, Fill(w) PROVE FacesLate'
  BY <1>1, <1>6 DEF Fill, Goto, TypeOK, Mine
<1>7. ASSUME NEW w \in Writers, FillFails(w) \/ RenameFails(w) PROVE FacesLate'
  <2>1. temp[cand[w]] # Foreign
    BY <1>1, <1>7, MineIsOutput DEF FillFails, RenameFails, ReadyIsWhole
  <2> QED
    BY <1>1, <1>7, <2>1 DEF FillFails, RenameFails, Goto, TypeOK, Mine
<1>8. ASSUME NEW w \in Writers, Rename(w) \/ Clean(w) PROVE FacesLate'
  <2>1. /\ cand' = cand /\ late' = late /\ life' = life /\ pc' = [pc EXCEPT ![w] = "done"]
        /\ temp' = temp \/ temp' = [temp EXCEPT ![cand[w]] = Nothing]
        /\ cand[w] \in NamesOf[w]
    BY <1>1, <1>8 DEF Rename, Clean, Return, Goto, TypeOK
  <2> QED
    BY <1>1, <2>1, OutsideAssumption DEF TypeOK, Mine
<1>9. ASSUME NEW w \in Writers, Exhausted(w) \/ Die(w) PROVE FacesLate'
  BY <1>1, <1>9 DEF Exhausted, Die, Return, Goto, TypeOK, Mine
<1>10. CASE Appear
  <2>1. UNCHANGED <<pc, cand, life>>
    BY <1>10 DEF Appear
  <2>2. CASE UNCHANGED <<temp, late>>
    BY <2>1, <2>2 DEF Mine
  <2>3. ASSUME NEW n \in Names, temp[n] = Nothing, temp' = [temp EXCEPT ![n] = Foreign],
               late' = IF \E w \in Writers : cand[w] = n /\ pc[w] \in {"open", "clean"}
                       THEN late \cup {n} ELSE late
        PROVE  FacesLate'
    <3>1. \A w \in Writers : Mine(w, FALSE) # Nothing
      BY <1>1, MineIsOutput
    <3> QED
      BY <1>1, <2>1, <2>3, <3>1 DEF TypeOK, Mine
  <2> QED
    BY <1>10, <2>2, <2>3 DEF Appear
<1>11. CASE UNCHANGED vars
  BY <1>11 DEF vars, Mine
<1> QED
  BY <1>2, <1>3, <1>4, <1>5, <1>6, <1>7, <1>8, <1>9, <1>10, <1>11 DEF Next, Step

LEMMA StepKeepsForeign ==
    ASSUME IInv, FacesLate, Next, NEW n \in Names, temp[n] = Foreign, n \notin late
    PROVE  temp'[n] = Foreign
<1>1. TypeOK /\ ReadyIsWhole
  BY DEF IInv
<1>2. ASSUME NEW w \in Writers, pc[w] \in {"open", "fill", "rename", "clean"}
      PROVE  n # cand[w]
  BY <1>1, <1>2, MineIsOutput DEF FacesLate, ReadyIsWhole
<1>3. ASSUME NEW w \in Writers, Choose(w) PROVE temp'[n] = Foreign
  BY <1>1, <1>3, OutsideAssumption DEF Choose, Free, TypeOK
<1>4. ASSUME NEW w \in Writers, Open(w) \/ Fill(w) \/ Rename(w) \/ Clean(w)
      PROVE  temp'[n] = Foreign
  BY <1>1, <1>2, <1>4 DEF Open, Fill, Rename, Clean, TypeOK
<1>5. ASSUME NEW w \in Writers,
             Occupied(w) \/ CreateFails(w) \/ FillFails(w) \/ RenameFails(w)
               \/ Exhausted(w) \/ Die(w)
      PROVE  temp'[n] = Foreign
  BY <1>5 DEF Occupied, CreateFails, FillFails, RenameFails, Exhausted, Die
<1>6. CASE Appear
  BY <1>1, <1>6, OutsideAssumption DEF Appear, TypeOK
<1> QED
  BY <1>3, <1>4, <1>5, <1>6 DEF Next, Step

\* A file that sits at a temp path is never written, renamed or removed,
\* unless it got there after the writer looked (writeAtomicMode).
THEOREM ForeignFilesKept == Spec => ForeignKept
<1> DEFINE Kept == \A n \in Names : temp[n] = Foreign /\ n \notin late => temp'[n] = Foreign
<1>1. Init => IInv /\ FacesLate
  BY InitIInv DEF Init, FacesLate
<1>2. IInv /\ FacesLate /\ [Next]_vars => IInv' /\ FacesLate'
  BY StepIInv, StepFacesLate
<1>3. IInv /\ FacesLate /\ [Next]_vars => [Kept]_vars
  BY StepKeepsForeign
<1> QED
  BY <1>1, <1>2, <1>3, PTL DEF Spec, ForeignKept

LEMMA StepWarnedOrHeld == IInv /\ WarnedOrHeld /\ [Next]_vars => WarnedOrHeld'
<1> SUFFICES ASSUME IInv, [Next]_vars, WarnedOrHeld, \A w \in Writers : life'[w] = 0,
                    NEW n \in Names, temp'[n] \in Output
             PROVE  \/ n \in warned'
                    \/ \E w \in Writers : pc'[w] \in {"fill", "rename", "clean"} /\ cand'[w] = n
  BY DEF WarnedOrHeld
<1> USE WriteAssumption
<1>1. TypeOK /\ TypeOK'
  BY StepIInv DEF IInv
<1>2. ASSUME NEW w \in Writers, Die(w) PROVE FALSE
  BY <1>1, <1>2 DEF Die, TypeOK
<1>3. life' = life
  BY <1>2 DEF Next, Step, Occupied, Choose, Open, CreateFails, Fill, FillFails, Rename,
     RenameFails, Clean, Exhausted, Appear, vars
<1> DEFINE Held(v) == pc[v] \in {"fill", "rename", "clean"} /\ cand[v] = n
<1>4. temp[n] \in Output => n \in warned \/ \E v \in Writers : Held(v)
  BY <1>3 DEF WarnedOrHeld
<1>5. Nothing \notin Output /\ Foreign \notin Output
  BY OutsideAssumption
<1> DEFINE Goal == \/ n \in warned'
                   \/ \E v \in Writers : pc'[v] \in {"fill", "rename", "clean"} /\ cand'[v] = n
<1>6. ASSUME NEW w \in Writers, pc[w] \notin {"fill", "rename", "clean"} , temp'[n] = temp[n],
             warned' = warned, \A v \in Writers \ {w} : pc'[v] = pc[v] /\ cand'[v] = cand[v]
      PROVE  Goal
  BY <1>4, <1>6
<1>7. ASSUME NEW w \in Writers, pc'[w] \in {"fill", "rename", "clean"}, cand'[w] = n PROVE Goal
  BY <1>7
<1>8. ASSUME NEW w \in Writers, Occupied(w) \/ Exhausted(w) PROVE Goal
  BY <1>1, <1>6, <1>8 DEF Occupied, Exhausted, Return, Goto, TypeOK
<1>9. ASSUME NEW w \in Writers, Choose(w) PROVE Goal
  <2>1. PICK m \in NamesOf[w] :
          /\ cand' = [cand EXCEPT ![w] = m]
          /\ \/ temp' = [temp EXCEPT ![m] = Mine(w, FALSE)] /\ Goto(w, "fill")
             \/ UNCHANGED temp /\ Goto(w, "open")
    BY <1>9, Zenon DEF Choose
  <2>2. pc[w] = "try" /\ warned' = warned /\ m \in Names
    BY <1>9 DEF Choose
  <2>3. CASE m = n /\ Goto(w, "fill")
    BY <1>1, <1>7, <2>1, <2>3 DEF Goto, TypeOK
  <2>4. CASE temp'[n] = temp[n]
    BY <1>1, <1>6, <2>1, <2>2, <2>4 DEF Goto, TypeOK
  <2>5. CASE UNCHANGED temp
    BY <2>4, <2>5
  <2>6. CASE temp' = [temp EXCEPT ![m] = Mine(w, FALSE)] /\ Goto(w, "fill")
    BY <1>1, <2>3, <2>4, <2>6 DEF TypeOK
  <2> QED
    BY <2>1, <2>5, <2>6
<1>10. ASSUME NEW w \in Writers, Open(w) PROVE Goal
  <2>1. CASE cand[w] = n
    BY <1>1, <1>7, <1>10, <2>1 DEF Open, Goto, TypeOK
  <2>2. CASE cand[w] # n
    BY <1>1, <1>6, <1>10, <2>2 DEF Open, Goto, TypeOK
  <2> QED
    BY <2>1, <2>2
<1>11. ASSUME NEW w \in Writers, CreateFails(w) PROVE Goal
  BY <1>1, <1>6, <1>11 DEF CreateFails, Goto, TypeOK
<1>12. ASSUME NEW w \in Writers, Fill(w) \/ FillFails(w) \/ RenameFails(w) PROVE Goal
  <2>1. /\ pc[w] \in {"fill", "rename"} /\ pc'[w] \in {"rename", "clean"}
        /\ \A v \in Writers \ {w} : pc'[v] = pc[v]
        /\ cand' = cand /\ warned' = warned
        /\ cand[w] # n => temp'[n] = temp[n]
    <3>1. CASE Fill(w)
      BY <1>1, <3>1 DEF Fill, Goto, TypeOK
    <3>2. CASE FillFails(w) \/ RenameFails(w)
      BY <1>1, <3>2 DEF FillFails, RenameFails, Goto, TypeOK
    <3> QED
      BY <1>12, <3>1, <3>2
  <2>2. CASE cand[w] = n
    BY <1>7, <2>1, <2>2
  <2>3. CASE cand[w] # n
    BY <1>4, <2>1, <2>3
  <2> QED
    BY <2>2, <2>3
<1>13. ASSUME NEW w \in Writers, Rename(w) \/ Clean(w) PROVE Goal
  <2>1. /\ cand' = cand /\ pc' = [pc EXCEPT ![w] = "done"] /\ cand[w] \in Names
        /\ \/ temp' = [temp EXCEPT ![cand[w]] = Nothing] /\ warned' = warned
           \/ temp' = temp /\ warned' = warned \cup {cand[w]}
    BY <1>1, <1>13 DEF Rename, Clean, Return, Goto, TypeOK
  <2>2. CASE cand[w] = n
    BY <1>1, <1>5, <2>1, <2>2 DEF TypeOK
  <2>3. CASE cand[w] # n
    <3>1. temp'[n] = temp[n] /\ warned \subseteq warned'
      BY <1>1, <2>1, <2>3 DEF TypeOK
    <3>2. \A v \in Writers \ {w} : pc'[v] = pc[v]
      BY <1>1, <2>1 DEF TypeOK
    <3> QED
      BY <1>4, <2>1, <2>3, <3>1, <3>2
  <2> QED
    BY <2>2, <2>3
<1>14. CASE Appear
  <2>1. UNCHANGED <<pc, cand, warned>> /\ temp'[n] = temp[n]
    BY <1>1, <1>5, <1>14 DEF Appear, TypeOK
  <2> QED
    BY <1>4, <2>1
<1>15. CASE UNCHANGED vars
  BY <1>4, <1>15 DEF vars
<1> QED
  BY <1>2, <1>8, <1>9, <1>10, <1>11, <1>12, <1>13, <1>14, <1>15 DEF Next, Step

\* Once every write has returned, a temp file that is left has been warned
\* about, if no process died (removeTemp).
THEOREM LitterHasItsWarning == Spec => []LitterIsWarned
<1>1. Init => IInv /\ WarnedOrHeld
  BY InitIInv, OutsideAssumption DEF Init, WarnedOrHeld
<1>2. IInv /\ WarnedOrHeld /\ [Next]_vars => IInv' /\ WarnedOrHeld'
  BY StepIInv, StepWarnedOrHeld
<1>3. WarnedOrHeld => LitterIsWarned
  BY DEF WarnedOrHeld, LitterIsWarned
<1> QED
  BY <1>1, <1>2, <1>3, PTL DEF Spec
=============================================================================
