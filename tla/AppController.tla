---------------------------- MODULE AppController ----------------------------
(***************************************************************************)
(* The admission of workflows and the shutdown of the application:         *)
(* src/core/controller/AppController.cpp.                                  *)
(*                                                                         *)
(* Everything here runs on the main thread.  Requests arrive as queued     *)
(* signals of the user interfaces and the activation handlers, so they     *)
(* wait in the event loop ("posted", a FIFO queue) before a slot of        *)
(* AppController looks at them; the end of a workflow takes two further    *)
(* trips through the same queue (QStateMachine::finished -> fireComplete   *)
(* -> onWorkflowFinished, both Qt::QueuedConnection).                      *)
(*                                                                         *)
(* A workflow is abstracted to what AppController can see of it: whether   *)
(* it still runs, waits in FinalState for approval, or has stopped its     *)
(* state machine (WorkflowController, FinalState).                         *)
(***************************************************************************)
EXTENDS Integers, Sequences

CONSTANTS
    Requests,       \* identities of the workflow requests that are ever made
    TickLimit,      \* timer ticks completeShutdown waits for open connections
    MaxQuits        \* bound: how often doShutdown is requested

ASSUME AppAssumption ==
    /\ TickLimit \in Nat \ {0}
    /\ MaxQuits \in Nat

Kinds == {"AUTH", "PIN", "SELF", "REMOTE_SERVICE"}

(***************************************************************************)
(* A flow is a workflow somebody asked for: <<r, FALSE>> is the request r  *)
(* itself, <<r, TRUE>> the PIN change onWorkflowFinished asks for when the *)
(* authentication r ended because no PIN was set.                          *)
(***************************************************************************)
Flows  == Requests \X BOOLEAN
NoFlow == <<>>

Status == {"unused", "posted", "waiting", "running", "done",
           "rejected", "ignored", "dropped"}

EventTypes == {"request", "machineFinished", "complete",
               "uiLoaderShutdown", "uiShutdownComplete"}
Event(t, f) == [type |-> t, flow |-> f]
Events      == [type : EventTypes, flow : Flows \cup {NoFlow}]

VARIABLES
    currentAction,      \* mCurrentAction
    active,             \* mActiveController: the flow it runs, or NoFlow
    waiting,            \* mWaitingRequest: the flow it holds, or NoFlow
    shutdownRunning,    \* mShutdownRunning
    kind,               \* Action of each flow
    status,             \* what became of each flow
    phase,              \* of the active workflow's state machine
    approved,           \* WorkflowContext::mStateApproved
    killed,             \* WorkflowContext::mWorkflowKilled
    noActivePin,        \* getLastPaceResult() == NO_ACTIVE_PIN_SET
    posted,             \* the event queue of the main thread
    timers,             \* running timers of completeShutdown
    ticks,              \* the static timesInvoked
    uiDown,             \* UILoader::shutdown has destroyed the plug-ins
    exited,             \* QCoreApplication::exit
    quits,              \* doShutdown calls so far
    awaited             \* observed only: what ran when doShutdown came first

workflow == <<phase, approved, killed, noActivePin>>
closing  == <<timers, ticks, uiDown, exited>>
vars == <<currentAction, active, waiting, shutdownRunning, kind,
          status, workflow, posted, closing, quits, awaited>>

TypeOK ==
    /\ currentAction \in Kinds \cup {"NONE"}
    /\ active \in Flows \cup {NoFlow}
    /\ waiting \in Flows \cup {NoFlow}
    /\ shutdownRunning \in BOOLEAN
    /\ kind \in [Flows -> Kinds \cup {"NONE"}]
    /\ status \in [Flows -> Status]
    /\ phase \in {"none", "running", "final", "finished"}
    /\ approved \in BOOLEAN
    /\ killed \in BOOLEAN
    /\ noActivePin \in BOOLEAN
    /\ posted \in Seq(Events)
    /\ timers \in Nat
    /\ ticks \in Nat
    /\ uiDown \in BOOLEAN
    /\ exited \in BOOLEAN
    /\ quits \in Nat
    /\ awaited \in Flows \cup {NoFlow}

Init ==
    /\ currentAction = "NONE"
    /\ active = NoFlow
    /\ waiting = NoFlow
    /\ shutdownRunning = FALSE
    /\ kind = [f \in Flows |-> "NONE"]
    /\ status = [f \in Flows |-> "unused"]
    /\ phase = "none"
    /\ approved = FALSE
    /\ killed = FALSE
    /\ noActivePin = FALSE
    /\ posted = <<>>
    /\ timers = 0
    /\ ticks = 0
    /\ uiDown = FALSE
    /\ exited = FALSE
    /\ quits = 0
    /\ awaited = NoFlow
-----------------------------------------------------------------------------
(* Helpers *)

\* WorkflowContext::isWorkflowFinished: set on entry of FinalState.
IsWorkflowFinished == phase \in {"final", "finished"}

MutCanStartNewAction == currentAction = "NONE" \/ IsWorkflowFinished
CanStartNewAction == currentAction = "NONE" /\ active = NoFlow

MutWaitingPlaceFree == TRUE
WaitingPlaceFree == waiting = NoFlow

\* startNewWorkflow: the controller runs a fresh context.
StartNewWorkflow(f, k) ==
    /\ active' = f
    /\ currentAction' = k
    /\ phase' = "running"
    /\ approved' = FALSE
    /\ killed' = FALSE
    /\ noActivePin' = FALSE

MutFreeSlot ==
    /\ active' = NoFlow
    /\ UNCHANGED currentAction

\* mActiveController.reset() and mCurrentAction = Action::NONE.
FreeSlot ==
    /\ active' = NoFlow
    /\ currentAction' = "NONE"

\* The slot consumes the event it was called for and posts nothing.
Deliver(t, f) ==
    /\ ~exited
    /\ posted # <<>>
    /\ Head(posted) = Event(t, f)
    /\ posted' = Tail(posted)

Outcome(f, s) == status' = [status EXCEPT ![f] = s]

\* completeShutdown: emits fireShutdown and starts one more timer.
CompleteShutdown == timers' = timers + 1

DeleteTimer == timers' = timers - 1

\* WorkflowContext::killWorkflow
MutKillWorkflow == UNCHANGED <<killed, approved>>
KillWorkflow == killed' = TRUE /\ approved' = TRUE

MutAutoApproveState == UNCHANGED approved
AutoApproveState == approved' = TRUE
-----------------------------------------------------------------------------
(***************************************************************************)
(* The environment: plug-ins ask for workflows while they exist.  The      *)
(* activation handlers are stopped by doShutdown, the user interfaces only *)
(* by UILoader::shutdown.                                                  *)
(***************************************************************************)
PostRequest(r, k) ==
    LET f == <<r, FALSE>> IN
    /\ ~exited /\ ~uiDown
    /\ status[f] = "unused"
    /\ kind' = [kind EXCEPT ![f] = k]
    /\ Outcome(f, "posted")
    /\ posted' = Append(posted, Event("request", f))
    /\ UNCHANGED <<currentAction, active, waiting, shutdownRunning,
                   workflow, closing, quits, awaited>>

OnChangePinRequested(f) ==
    /\ kind[f] = "PIN"
    /\ Deliver("request", f)
    /\ \/ /\ CanStartNewAction
          /\ StartNewWorkflow(f, "PIN")
          /\ Outcome(f, "running")
          /\ UNCHANGED waiting
       \/ /\ ~CanStartNewAction
          /\ WaitingPlaceFree
          /\ waiting' = f
          /\ Outcome(f, "waiting")
          /\ UNCHANGED <<currentAction, active, workflow>>
       \/ /\ ~CanStartNewAction
          /\ ~WaitingPlaceFree
          /\ Outcome(f, "ignored")
          /\ UNCHANGED <<currentAction, active, waiting, workflow>>
    /\ UNCHANGED <<shutdownRunning, kind, closing, quits, awaited>>

\* Self-authentication and the remote service start or are ignored.
OnSimpleRequest(f) ==
    /\ kind[f] \in {"SELF", "REMOTE_SERVICE"}
    /\ Deliver("request", f)
    /\ \/ /\ CanStartNewAction
          /\ StartNewWorkflow(f, kind[f])
          /\ Outcome(f, "running")
       \/ /\ ~CanStartNewAction
          /\ Outcome(f, "ignored")
          /\ UNCHANGED <<currentAction, active, workflow>>
    /\ UNCHANGED <<waiting, shutdownRunning, kind, closing, quits, awaited>>

MayWaitFor == currentAction \in {"AUTH", "SELF", "PIN"} /\ IsWorkflowFinished

OnAuthenticationContextRequest(f) ==
    /\ kind[f] = "AUTH"
    /\ Deliver("request", f)
    /\ \/ /\ CanStartNewAction
          /\ StartNewWorkflow(f, "AUTH")
          /\ Outcome(f, "running")
          /\ UNCHANGED waiting
       \/ /\ ~CanStartNewAction
          /\ MayWaitFor
          /\ WaitingPlaceFree
          /\ waiting' = f
          /\ AutoApproveState
          /\ Outcome(f, "waiting")
          /\ UNCHANGED <<currentAction, active, phase, killed, noActivePin>>
       \/ /\ ~CanStartNewAction
          /\ ~(MayWaitFor /\ WaitingPlaceFree)
          /\ Outcome(f, "rejected") \* sendOperationAlreadyActive
          /\ UNCHANGED <<currentAction, active, waiting, workflow>>
    /\ UNCHANGED <<shutdownRunning, kind, closing, quits, awaited>>
-----------------------------------------------------------------------------
(* The workflow itself, as far as AppController depends on it. *)

\* The state machine enters FinalState.  A killed workflow approves every
\* state it enters, others wait for the user there.
WorkflowReachesFinalState ==
    /\ ~exited
    /\ phase = "running"
    /\ phase' = "final"
    /\ approved' = killed
    /\ noActivePin' \in BOOLEAN
    /\ noActivePin' => currentAction \in {"AUTH", "SELF"}
    /\ UNCHANGED <<currentAction, active, waiting, shutdownRunning,
                   kind, status, killed, posted, closing, quits, awaited>>

\* The user closes the result view.
UserApproves ==
    /\ ~exited
    /\ phase = "final" /\ ~approved
    /\ approved' = TRUE
    /\ UNCHANGED <<currentAction, active, waiting, shutdownRunning,
                   kind, status, phase, killed, noActivePin,
                   posted, closing, quits, awaited>>

MutFinalStateApproved == phase \in {"final", "finished"} /\ approved
FinalStateApproved == phase = "final" /\ approved

\* FinalState::run: the state machine reaches its QFinalState.
FinalStateRun ==
    /\ ~exited
    /\ FinalStateApproved
    /\ phase' = "finished"
    /\ approved' = FALSE        \* AbstractState::onExit
    /\ posted' = Append(posted, Event("machineFinished", active))
    /\ UNCHANGED <<currentAction, active, waiting, shutdownRunning,
                   kind, status, killed, noActivePin, closing,
                   quits, awaited>>

\* WorkflowController emits fireComplete, again as a queued signal.
FireComplete(f) ==
    /\ ~exited
    /\ posted # <<>> /\ Head(posted) = Event("machineFinished", f)
    /\ posted' = Append(Tail(posted), Event("complete", f))
    /\ UNCHANGED <<currentAction, active, waiting, shutdownRunning,
                   kind, status, workflow, closing, quits, awaited>>

(***************************************************************************)
(* The slot first lets an authentication that failed for want of a PIN ask *)
(* for a PIN change (the controller is still set, so this can only         *)
(* enqueue), then frees the slot and starts what waits, and last completes *)
(* a shutdown that waited for this workflow.                               *)
(***************************************************************************)
WaitingAfterFinish(f) ==
    IF noActivePin /\ WaitingPlaceFree
    THEN <<f[1], TRUE>> ELSE waiting

OnWorkflowFinished(f) ==
    /\ Deliver("complete", f)
    /\ LET next == WaitingAfterFinish(f)
           asksForPin == next # waiting
           k == IF asksForPin THEN "PIN" ELSE kind[next]
       IN  \/ /\ next # NoFlow
              /\ StartNewWorkflow(next, k)
              /\ kind' = [kind EXCEPT ![next] = k]
              /\ status' = [status EXCEPT ![f] = "done", ![next] = "running"]
           \/ /\ next = NoFlow
              /\ FreeSlot
              /\ phase' = "none"
              /\ approved' = FALSE
              /\ killed' = FALSE
              /\ noActivePin' = FALSE
              /\ Outcome(f, "done")
              /\ UNCHANGED kind
    /\ waiting' = NoFlow
    /\ IF shutdownRunning THEN CompleteShutdown ELSE UNCHANGED timers
    /\ UNCHANGED <<shutdownRunning, ticks, uiDown, exited, quits, awaited>>
-----------------------------------------------------------------------------
(* Shutdown *)

MutWorkflowToAwait == FALSE
WorkflowToAwait == active # NoFlow

DoShutdown ==
    /\ ~exited /\ ~uiDown
    /\ quits < MaxQuits
    /\ quits' = quits + 1
    /\ shutdownRunning' = TRUE
    /\ awaited' = IF shutdownRunning THEN awaited ELSE active
    /\ \/ /\ WorkflowToAwait
          /\ waiting' = NoFlow
          /\ status' = [f \in Flows |-> IF f = waiting THEN "dropped" ELSE status[f]]
          /\ KillWorkflow
          /\ UNCHANGED timers
       \/ /\ ~WorkflowToAwait
          /\ CompleteShutdown
          /\ UNCHANGED <<waiting, status, killed, approved>>
    /\ UNCHANGED <<currentAction, active, kind, phase, noActivePin,
                   posted, ticks, uiDown, exited>>

\* The timer of completeShutdown, every 50 ms.
ShutdownTick ==
    /\ ~exited
    /\ timers > 0
    /\ \/ /\ ticks + 1 < TickLimit      \* connections are still open
          /\ ticks' = ticks + 1
          /\ UNCHANGED <<timers, posted>>
       \/ /\ \/ ticks' = ticks             \* none is left
             \/ ticks + 1 >= TickLimit /\ ticks' = TickLimit
          /\ DeleteTimer
          /\ posted' = Append(posted, Event("uiLoaderShutdown", NoFlow))
    /\ UNCHANGED <<currentAction, active, waiting, shutdownRunning,
                   kind, status, workflow, uiDown, exited, quits, awaited>>

\* UILoader::shutdown destroys the plug-ins; the last one reports it.
UILoaderShutdown ==
    /\ ~exited
    /\ posted # <<>> /\ Head(posted) = Event("uiLoaderShutdown", NoFlow)
    /\ uiDown' = TRUE
    /\ posted' = IF uiDown THEN Tail(posted)
                 ELSE Append(Tail(posted), Event("uiShutdownComplete", NoFlow))
    /\ UNCHANGED <<currentAction, active, waiting, shutdownRunning,
                   kind, status, workflow, timers, ticks, exited,
                   quits, awaited>>

OnUILoaderShutdownComplete ==
    /\ Deliver("uiShutdownComplete", NoFlow)
    /\ exited' = TRUE
    /\ UNCHANGED <<currentAction, active, waiting, shutdownRunning,
                   kind, status, workflow, timers, ticks, uiDown,
                   quits, awaited>>
-----------------------------------------------------------------------------
Next ==
    \/ \E r \in Requests, k \in Kinds : PostRequest(r, k)
    \/ \E f \in Flows :
          \/ OnChangePinRequested(f)
          \/ OnSimpleRequest(f)
          \/ OnAuthenticationContextRequest(f)
          \/ FireComplete(f)
          \/ OnWorkflowFinished(f)
    \/ WorkflowReachesFinalState
    \/ UserApproves
    \/ FinalStateRun
    \/ DoShutdown
    \/ ShutdownTick
    \/ UILoaderShutdown
    \/ OnUILoaderShutdownComplete

Spec == Init /\ [][Next]_vars

\* The event loop delivers what is posted, timers fire, an approved state
\* runs, and a killed workflow needs nobody to reach its end.
EventLoop ==
    \/ \E f \in Flows :
          \/ OnChangePinRequested(f)
          \/ OnSimpleRequest(f)
          \/ OnAuthenticationContextRequest(f)
          \/ FireComplete(f)
          \/ OnWorkflowFinished(f)
    \/ UILoaderShutdown
    \/ OnUILoaderShutdownComplete

Fairness ==
    /\ WF_vars(EventLoop)
    /\ WF_vars(FinalStateRun)
    /\ WF_vars(ShutdownTick)
    /\ WF_vars(killed /\ WorkflowReachesFinalState)

FairSpec == Spec /\ Fairness
-----------------------------------------------------------------------------
(***************************************************************************)
(* What AppController promises to those who ask for workflows, as a slot   *)
(* for one workflow with one waiting place: see WorkflowSlot.              *)
(***************************************************************************)
Slot == INSTANCE WorkflowSlot WITH
            running <- active,
            next    <- waiting,
            started <- {f \in Flows : status[f] \in {"running", "done"}}

\* Every step of AppController is a step of the abstract slot: one workflow
\* at a time, each request run at most once, and the waiting one started in
\* the very step that ends the running one.
SlotSpec == Slot!Spec

(***************************************************************************)
(* startNewWorkflow and canStartNewAction test mCurrentAction and          *)
(* mActiveController as if they were one fact, onChangePinRequested        *)
(* dereferences the controller on the strength of the action alone, and    *)
(* nothing but the end of a workflow ever looks at mWaitingRequest: a      *)
(* request that waits while nothing runs would wait for ever.  It then     *)
(* handles PIN changes and authentications, so nothing else may wait.      *)
(***************************************************************************)
SlotConsistent ==
    /\ currentAction = "NONE" <=> active = NoFlow
    /\ phase = "none" <=> active = NoFlow
    /\ active # NoFlow => kind[active] = currentAction
    /\ waiting # NoFlow => /\ active # NoFlow
                           /\ waiting # active
                           /\ kind[waiting] \in {"PIN", "AUTH"}

(***************************************************************************)
(* No request is lost or doubled on its way: it is in the event queue,     *)
(* in the waiting place or in the slot exactly when its last outcome says  *)
(* so, and it is queued only once.                                         *)
(***************************************************************************)
Places == 1..Len(posted)
IsRequest(i) == posted[i].type = "request"

SlotsAccounted ==
    \A f \in Flows :
        /\ status[f] = "running" <=> active = f
        /\ status[f] = "waiting" <=> waiting = f

QueueAccounted ==
    /\ \A f \in Flows : status[f] = "posted" =>
          \E i \in Places : posted[i] = Event("request", f)
    /\ \A i \in Places : IsRequest(i) =>
          /\ posted[i].flow \in Flows
          /\ status[posted[i].flow] = "posted"
          /\ \A j \in Places : posted[j] = posted[i] => i = j

RequestsAccounted == SlotsAccounted /\ QueueAccounted

(***************************************************************************)
(* The assertion of onWorkflowFinished (AppController.cpp:233): when       *)
(* fireComplete arrives there is a controller, and it is the one that      *)
(* completed; its machine has stopped and it reports only once.            *)
(***************************************************************************)
IsCompletion(i) == posted[i].type \in {"machineFinished", "complete"}

CompletionMatchesController ==
    \A i \in Places : IsCompletion(i) =>
        /\ posted[i].flow = active
        /\ phase = "finished"
        /\ \A j \in Places : IsCompletion(j) => i = j

\* A PIN change that follows an authentication without PIN was asked for by
\* an authentication that is over.  Supports the refinement of WorkflowSlot.
FollowUps ==
    /\ noActivePin => currentAction \in {"AUTH", "SELF"}
    /\ \A r \in Requests : status[<<r, TRUE>>] # "unused" =>
        /\ status[<<r, FALSE>>] = "done"
        /\ kind[<<r, TRUE>>] = "PIN"

\* The inductive invariant behind the theorems of AppControllerProofs.
IInv ==
    /\ TypeOK
    /\ SlotConsistent
    /\ RequestsAccounted
    /\ CompletionMatchesController
    /\ FollowUps

(***************************************************************************)
(* The order of a shutdown (doShutdown, onWorkflowFinished and the chain   *)
(* that completeShutdown starts).  While the workflow that ran when the    *)
(* user first quit still holds the controller, it has been killed, nothing *)
(* on its way to the end needs a user, the end it has reached is reported, *)
(* and nothing of the program is torn down under it.  From its end on (at  *)
(* once, if nothing ran) the closing is under way without a gap: a timer   *)
(* runs, or UILoader is about to be stopped or to report, or the program   *)
(* has left.  A workflow admitted after that has no such promise: a later  *)
(* quit kills it, but the timer started earlier does not wait for it.      *)
(***************************************************************************)
Posted(t) == \E i \in Places : posted[i].type = t

AwaitsWorkflow == active # NoFlow /\ active = awaited

NeedsNobody ==
    /\ killed
    /\ phase = "final" => approved
    /\ phase = "finished" => Posted("machineFinished") \/ Posted("complete")

Closing ==
    timers > 0 \/ Posted("uiLoaderShutdown") \/ Posted("uiShutdownComplete") \/ exited

ShutdownInOrder ==
    shutdownRunning =>
        /\ AwaitsWorkflow => NeedsNobody
        /\ AwaitsWorkflow <=> ~Closing

\* What ShutdownInOrder needs beside it to be kept by every step.
ShutdownInv ==
    /\ ShutdownInOrder
    /\ ~shutdownRunning => awaited = NoFlow /\ ~Closing
    /\ awaited # NoFlow => status[awaited] \in {"running", "done"}
    /\ uiDown => Posted("uiShutdownComplete") \/ exited
    /\ phase = "finished" => Posted("machineFinished") \/ Posted("complete")

\* Quitting ends the application, whatever workflow runs and however many
\* connections stay open.
ShutdownTerminates == shutdownRunning ~> exited

\* A caller that asked for an authentication is answered: it is started, or
\* told that another operation is active, unless the application quits.
AuthenticationAnswered ==
    \A f \in Flows :
        (status[f] \in {"posted", "waiting"} /\ kind[f] = "AUTH")
            ~> (status[f] \in {"running", "rejected"} \/ shutdownRunning)
=============================================================================
