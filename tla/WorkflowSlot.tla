---------------------------- MODULE WorkflowSlot ----------------------------
(***************************************************************************)
(* What AppController promises: a slot that runs one workflow at a time    *)
(* and remembers at most one more, which it starts in the same step that   *)
(* ends the running one.  No workflow is started twice.                    *)
(***************************************************************************)
CONSTANTS Flows, NoFlow

VARIABLES
    running,    \* the workflow in the slot, or NoFlow
    next,       \* the workflow that is started after it, or NoFlow
    started     \* every workflow that was ever started

slotVars == <<running, next, started>>

Init ==
    /\ running = NoFlow
    /\ next = NoFlow
    /\ started = {}

Fresh(f) == f \in Flows /\ f \notin started

Start(f) ==
    /\ running = NoFlow /\ Fresh(f)
    /\ running' = f
    /\ started' = started \cup {f}
    /\ UNCHANGED next

Enqueue(f) ==
    /\ running # NoFlow /\ next = NoFlow /\ Fresh(f)
    /\ next' = f
    /\ UNCHANGED <<running, started>>

\* A workflow may ask for its successor with its last breath.
Finish(successor) ==
    /\ running # NoFlow
    /\ next \in {NoFlow, successor}
    /\ successor # NoFlow => Fresh(successor)
    /\ running' = successor
    /\ next' = NoFlow
    /\ started' = started \cup ({successor} \ {NoFlow})

\* A shutdown forgets the workflow that waits.
Forget ==
    /\ next' = NoFlow
    /\ UNCHANGED <<running, started>>

Next ==
    \/ \E f \in Flows : Start(f) \/ Enqueue(f)
    \/ \E f \in Flows \cup {NoFlow} : Finish(f)
    \/ Forget

Spec == Init /\ [][Next]_slotVars
=============================================================================
