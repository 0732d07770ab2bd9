------------------------------ MODULE Generate ------------------------------
(***************************************************************************)
(* A whole Generate, the define and the build phase, against the plan of   *)
(* its program; and what must hold on the way.                             *)
(***************************************************************************)
EXTENDS Build

VARIABLE plan   \* the plan of the program, kept to compare with

allVars == <<vars, plan>>

Plan == INSTANCE OutputPlan WITH
            status <- IF phase \in Ended THEN phase ELSE "running"

GInit == Init /\ plan = Plan!PlanOf(prog)

GNext == Next /\ UNCHANGED plan

GSpec == GInit /\ [][GNext]_allVars /\ WF_allVars(GNext)

-----------------------------------------------------------------------------

\* The nodes form a tree whose children come after their parent, and no path
\* is a file and a directory.
TypeOK ==
    /\ phase \in {"read", "define", "build"} \cup Ended
    /\ \A i \in DOMAIN nodes : \A k \in DOMAIN nodes[i].kids :
          nodes[i].kids[k] \in i+1..Len(nodes)
    /\ DOMAIN disk \cap dirs = {}

\* Whatever the callbacks, passes and hooks do on the way, the output folder
\* changes as the tree says, operation by operation and in order: each text
\* at the path its enclosing components declare, with what its children
\* render, and nothing at all for a tree that is refused (go/build.go:33,
\* go/fragment.go:47, go/jostraca.go:185).
FollowsPlan == Plan!Spec

\* The visited set of a copy is the way to the directory it is in, each
\* directory on it once, and it is empty when no copy is going on
\* (walkCopyDepth, go/build.go:578).
VisitedIsTheWay ==
    /\ visited = {copying[k].real : k \in DOMAIN copying}
    /\ \A j, k \in DOMAIN copying : copying[j].real = copying[k].real => j = k

Passes(i) == {k \in DOMAIN calls : calls[k].at = i /\ calls[k].why \in {"scan", "replay"}}

\* A node filters its children exactly while one pass of its Fragment over
\* the body is going on, and the pass that only learns the slot names
\* attaches nothing anywhere (renderFragment, go/fragment.go:60).
PassesLeaveNoTrace ==
    phase = "define" =>
        /\ \A i \in DOMAIN nodes :
              /\ nodes[i].filter # Nothing <=> Passes(i) # {}
              /\ Cardinality(Passes(i)) <= 1
        /\ \A k \in DOMAIN calls :
              calls[k].why = "scan" => calls[k].at = Len(nodes) /\ k = Len(calls)

IsFile(i) == nodes[i].kind = "file" /\ nodes[i].full # <<>>

\* No two Files of a run get one output path: the second would win and the
\* output of the first be missing without a word (claimFile,
\* go/build.go:308).
OneFilePerPath ==
    \A i, j \in DOMAIN nodes :
        IsFile(i) /\ IsFile(j) /\ nodes[i].full = nodes[j].full => i = j

\* Every run ends: the replays, the walk of the copied directories with
\* their links, and the scan of an Inject (go/build.go:792).
EveryRunEnds == <>(phase \in Ended)
=============================================================================
