---------------------------- MODULE AtomicWrite ----------------------------
(***************************************************************************)
(* writeAtomicMode of go/filehandler.go: a file is replaced by writing a   *)
(* temp file beside it and renaming that over the target. Several          *)
(* processes may write one target at once, each can fail or die at any     *)
(* step and be started again, and files nobody expects may sit at the      *)
(* temp paths.                                                             *)
(***************************************************************************)
EXTENDS Naturals

CONSTANTS
    Writers,     \* processes that write the target
    Names,       \* the temp paths
    NamesOf,     \* the temp paths tmppathFor may give to each process
    Exclusive,   \* the processes whose provider has WriteFileExcl
    Attempts,    \* tmpPathAttempts: 9 in the code
    Faults,      \* what may go wrong
    Nothing,     \* no file at a path
    Foreign,     \* a file that is not a writer's
    MaxDeaths, MaxForeign   \* bounds of the exploration

AllFaults == {"create", "write", "rename", "remove", "crash"}

\* A temp path holds the pid, a counter and random bytes: two processes that
\* are alive never share one, but one started again may meet its own again.
ASSUME WriteAssumption ==
    /\ NamesOf \in [Writers -> SUBSET Names]
    /\ \A v, w \in Writers : v # w => NamesOf[v] \cap NamesOf[w] = {}
    /\ Exclusive \subseteq Writers
    /\ Attempts \in Nat \ {0}
    /\ Faults \subseteq AllFaults
    /\ MaxDeaths \in Nat /\ MaxForeign \in Nat

\* What a process of a writer writes; life tells its restarts apart.
Output == [by : Writers, life : Nat, whole : BOOLEAN]

ASSUME OutsideAssumption ==
    /\ Nothing \notin Output /\ Foreign \notin Output /\ Nothing # Foreign
    /\ Nothing \notin Names

File == Output \cup {Nothing, Foreign}

VARIABLES
    target,   \* the file being replaced
    temp,     \* the file at each temp path
    pc,       \* what each writer does next
    cand,     \* the temp path it is trying
    attempt,  \* how many it has tried
    answer,   \* what writeAtomicMode returned
    warned,   \* temp paths a "temp cleanup failed" warning named
    life,     \* how often each writer has been started again
    foreign,  \* files that appeared from outside
    late      \* history: temp paths where one appeared after a writer had looked

vars == <<target, temp, pc, cand, attempt, answer, warned, life, foreign, late>>

Mine(w, whole) == [by |-> w, life |-> life[w], whole |-> whole]

Goto(w, step) == pc' = [pc EXCEPT ![w] = step]

\* The write is over: ok or error.
Return(w, a) == Goto(w, "done") /\ answer' = [answer EXCEPT ![w] = a]

\* Fault: a candidate that is taken is used all the same on the last try.
Free_LastTry(w, n) == temp[n] = Nothing \/ attempt[w] = Attempts - 1

\* The candidate path is free.
Free(w, n) == temp[n] = Nothing

-----------------------------------------------------------------------------

\* Faults: a taken candidate is not counted; it is counted once too often.
Occupied_Uncounted(w) ==
    /\ pc[w] = "try" /\ attempt[w] < Attempts
    /\ \E n \in NamesOf[w] : ~Free(w, n)
    /\ UNCHANGED vars

Occupied_OneMore(w) ==
    /\ pc[w] = "try" /\ attempt[w] <= Attempts
    /\ \E n \in NamesOf[w] : ~Free(w, n)
    /\ attempt' = [attempt EXCEPT ![w] = @ + 1]
    /\ UNCHANGED <<target, temp, pc, cand, answer, warned, life, foreign, late>>

\* A candidate that is taken costs one attempt.
Occupied(w) ==
    /\ pc[w] = "try" /\ attempt[w] < Attempts
    /\ \E n \in NamesOf[w] : ~Free(w, n)
    /\ attempt' = [attempt EXCEPT ![w] = @ + 1]
    /\ UNCHANGED <<target, temp, pc, cand, answer, warned, life, foreign, late>>

\* WriteFileExcl creates the file; without it Exists is asked first, and the
\* creation is a step of its own.
Choose(w) ==
    /\ pc[w] = "try" /\ attempt[w] < Attempts
    /\ \E n \in NamesOf[w] :
         /\ Free(w, n)
         /\ cand' = [cand EXCEPT ![w] = n]
         /\ IF w \in Exclusive
            THEN temp' = [temp EXCEPT ![n] = Mine(w, FALSE)] /\ Goto(w, "fill")
            ELSE UNCHANGED temp /\ Goto(w, "open")
    /\ attempt' = [attempt EXCEPT ![w] = @ + 1]
    /\ UNCHANGED <<target, answer, warned, life, foreign, late>>

\* WriteFile creates the file, or truncates what got there since.
Open(w) ==
    /\ pc[w] = "open"
    /\ temp' = [temp EXCEPT ![cand[w]] = Mine(w, FALSE)]
    /\ Goto(w, "fill")
    /\ UNCHANGED <<target, cand, attempt, answer, warned, life, foreign, late>>

\* The create fails and leaves no file: the temp path is removed all the same.
CreateFails(w) ==
    /\ "create" \in Faults
    /\ \/ /\ pc[w] = "try" /\ w \in Exclusive /\ attempt[w] < Attempts
          /\ \E n \in NamesOf[w] : Free(w, n) /\ cand' = [cand EXCEPT ![w] = n]
          /\ attempt' = [attempt EXCEPT ![w] = @ + 1]
       \/ pc[w] = "open" /\ UNCHANGED <<cand, attempt>>
    /\ Goto(w, "clean")
    /\ UNCHANGED <<target, temp, answer, warned, life, foreign, late>>

Fill(w) ==
    /\ pc[w] = "fill"
    /\ temp' = [temp EXCEPT ![cand[w]] = Mine(w, TRUE)]
    /\ Goto(w, "rename")
    /\ UNCHANGED <<target, cand, attempt, answer, warned, life, foreign, late>>

\* Fault: a short write goes unnoticed.
FillFails_Unnoticed(w) ==
    /\ "write" \in Faults /\ pc[w] = "fill"
    /\ Goto(w, "rename")
    /\ UNCHANGED <<target, temp, cand, attempt, answer, warned, life, foreign, late>>

\* The disk is full: part of the file is there.
FillFails(w) ==
    /\ "write" \in Faults /\ pc[w] = "fill"
    /\ Goto(w, "clean")
    /\ UNCHANGED <<target, temp, cand, attempt, answer, warned, life, foreign, late>>

Rename(w) ==
    /\ pc[w] = "rename"
    /\ target' = temp[cand[w]]
    /\ temp' = [temp EXCEPT ![cand[w]] = Nothing]
    /\ Return(w, "ok")
    /\ UNCHANGED <<cand, attempt, warned, life, foreign, late>>

\* Fault: the temp file of a failed rename is left behind without a word.
RenameFails_Littering(w) ==
    /\ "rename" \in Faults /\ pc[w] = "rename"
    /\ Return(w, "error")
    /\ UNCHANGED <<target, temp, cand, attempt, warned, life, foreign, late>>

RenameFails(w) ==
    /\ "rename" \in Faults /\ pc[w] = "rename"
    /\ Goto(w, "clean")
    /\ UNCHANGED <<target, temp, cand, attempt, answer, warned, life, foreign, late>>

\* removeTemp: the temp file goes, or a warning names it; the write failed.
Clean(w) ==
    /\ pc[w] = "clean"
    /\ \/ /\ temp' = [temp EXCEPT ![cand[w]] = Nothing]
          /\ UNCHANGED warned
       \/ /\ "remove" \in Faults /\ temp[cand[w]] # Nothing
          /\ warned' = warned \cup {cand[w]}
          /\ UNCHANGED temp
    /\ Return(w, "error")
    /\ UNCHANGED <<target, cand, attempt, life, foreign, late>>

\* Every attempt met a taken path: an error, never a write.
Exhausted(w) ==
    /\ pc[w] = "try" /\ attempt[w] = Attempts
    /\ Return(w, "error")
    /\ UNCHANGED <<target, temp, cand, attempt, warned, life, foreign, late>>

\* The process dies where it is, and another run writes the target again.
Die(w) ==
    /\ "crash" \in Faults /\ pc[w] # "done" /\ life[w] < MaxDeaths
    /\ life' = [life EXCEPT ![w] = @ + 1]
    /\ attempt' = [attempt EXCEPT ![w] = 0]
    /\ Goto(w, "try")
    /\ UNCHANGED <<target, temp, cand, answer, warned, foreign, late>>

\* A file appears at a temp path, or the target is replaced or removed.
Appear ==
    /\ foreign < MaxForeign
    /\ \/ /\ \E n \in Names :
               /\ temp[n] = Nothing
               /\ temp' = [temp EXCEPT ![n] = Foreign]
               /\ late' = IF \E w \in Writers : cand[w] = n /\ pc[w] \in {"open", "clean"}
                          THEN late \cup {n} ELSE late
          /\ UNCHANGED target
       \/ /\ target' \in {Nothing, Foreign}
          /\ UNCHANGED <<temp, late>>
    /\ foreign' = foreign + 1
    /\ UNCHANGED <<pc, cand, attempt, answer, warned, life>>

-----------------------------------------------------------------------------

Init ==
    /\ target \in {Nothing, Foreign}
    /\ temp \in [Names -> {Nothing, Foreign}]
    /\ pc = [w \in Writers |-> "try"]
    /\ cand = [w \in Writers |-> Nothing]
    /\ attempt = [w \in Writers |-> 0]
    /\ answer = [w \in Writers |-> "none"]
    /\ warned = {}
    /\ life = [w \in Writers |-> 0]
    /\ foreign = 0 /\ late = {}

Step(w) == \/ Occupied(w) \/ Choose(w) \/ Open(w) \/ CreateFails(w) \/ Fill(w) \/ FillFails(w)
           \/ Rename(w) \/ RenameFails(w) \/ Clean(w) \/ Exhausted(w)

Next == (\E w \in Writers : Step(w) \/ Die(w)) \/ Appear

Spec == Init /\ [][Next]_vars

\* A process that is alive runs on.
FairSpec == Spec /\ \A w \in Writers : WF_vars(Step(w))

-----------------------------------------------------------------------------

TypeOK ==
    /\ target \in File /\ temp \in [Names -> File]
    /\ pc \in [Writers -> {"try", "open", "fill", "rename", "clean", "done"}]
    /\ cand \in [Writers -> Names \cup {Nothing}]
    /\ \A w \in Writers : pc[w] \in {"open", "fill", "rename", "clean"}
                            => cand[w] \in NamesOf[w]
    /\ attempt \in [Writers -> 0..Attempts]
    /\ answer \in [Writers -> {"none", "ok", "error"}]
    /\ warned \subseteq Names
    /\ life \in [Writers -> Nat]
    /\ foreign \in 0..MaxForeign /\ late \subseteq Names

\* writeAtomicMode is an atomic write: a reader of the target never sees part
\* of a file, another process's bytes or those of an earlier life under this
\* writer's success, and a write that reports an error changed nothing.
Store == INSTANCE AtomicStore WITH value <- target

WritesAtomically == Store!Spec

\* A file that already sits at a temp path is never written, renamed or
\* removed, when every attempt meets one and when a run before died there
\* (comment of writeAtomicMode: "the one path that was supposed to protect an
\* occupied file was the path that destroyed it"). One that appears after
\* the writer looked may be: without WriteFileExcl the code says so.
ForeignKept ==
    [][\A n \in Names : temp[n] = Foreign /\ n \notin late => temp'[n] = Foreign]_vars

\* Once every write has returned, and no process died, a temp file that is
\* still there has been warned about (removeTemp).
LitterIsWarned ==
    (\A w \in Writers : pc[w] = "done" /\ life[w] = 0) =>
        \A n \in Names : temp[n] \in Output => n \in warned

\* Every write returns, however many temp paths are taken.
EveryWriteEnds == \A w \in Writers : pc[w] = "try" ~> pc[w] = "done"
=============================================================================
