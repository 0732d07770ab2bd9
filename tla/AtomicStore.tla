---------------------------- MODULE AtomicStore ----------------------------
(***************************************************************************)
(* What an atomic write promises: the value changes in one step, to the    *)
(* whole of what one writer wrote, and exactly when that writer is told    *)
(* its write succeeded.                                                    *)
(***************************************************************************)
EXTENDS Naturals

CONSTANTS Writers, Nothing, Foreign

VARIABLES value,   \* what a reader of the target sees
          answer,  \* what each writer has been told: "none", "ok" or "error"
          life     \* how often each writer has been started again

storeVars == <<value, answer, life>>

Init == /\ value \in {Nothing, Foreign}
        /\ answer = [w \in Writers |-> "none"]
        /\ life = [w \in Writers |-> 0]

Told(w, a) ==
    /\ answer[w] = "none" /\ answer' = [answer EXCEPT ![w] = a]
    /\ UNCHANGED life

\* The value becomes what this writer wrote since it was last started, all of it.
Publish(w) ==
    /\ Told(w, "ok")
    /\ value' = [by |-> w, life |-> life[w], whole |-> TRUE]

Fail(w) == Told(w, "error") /\ UNCHANGED value

\* Someone who is not a writer replaces or removes the target.
Outside == value' \in {Nothing, Foreign} /\ UNCHANGED <<answer, life>>

\* A writer that has not been told dies and starts over; nothing was written.
Restart(w) == /\ answer[w] = "none" /\ life' = [life EXCEPT ![w] = @ + 1]
              /\ UNCHANGED <<value, answer>>

Next == (\E w \in Writers : Publish(w) \/ Fail(w) \/ Restart(w)) \/ Outside

Spec == Init /\ [][Next]_storeVars
=============================================================================
