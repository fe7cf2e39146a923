------------------------- MODULE AppControllerProofs -------------------------
(***************************************************************************)
(* Proofs about AppController for every set of requests and every bound:   *)
(* the inductive invariant IInv, and that each step of AppController is a  *)
(* step of WorkflowSlot.                                                   *)
(***************************************************************************)
EXTENDS AppController, TLAPS

-----------------------------------------------------------------------------
(* The event queue *)

\* No workflow is confused with the empty slot.
LEMMA NoFlowIsNoFlow == NoFlow \notin Flows
  BY DEF NoFlow, Flows

\* Posting puts one event behind all others.
LEMMA Posting ==
    ASSUME NEW s \in Seq(Events), NEW e \in Events
    PROVE  /\ Append(s, e) \in Seq(Events)
           /\ Len(Append(s, e)) = Len(s) + 1
           /\ Len(s) \in Nat
           /\ \A i \in 1..Len(s) : Append(s, e)[i] = s[i]
           /\ Append(s, e)[Len(s) + 1] = e
  OBVIOUS

\* Delivering takes the first event and moves the others up.
LEMMA Delivering ==
    ASSUME NEW s \in Seq(Events), s # <<>>
    PROVE  /\ Tail(s) \in Seq(Events)
           /\ Len(s) \in Nat /\ Len(s) > 0
           /\ Len(Tail(s)) = Len(s) - 1
           /\ Head(s) = s[1]
           /\ \A i \in 1..Len(Tail(s)) : Tail(s)[i] = s[i + 1]
  OBVIOUS

LEMMA EventTyped ==
    ASSUME NEW t \in EventTypes, NEW f \in Flows \cup {NoFlow}
    PROVE  Event(t, f) \in Events
  BY DEF Event, Events

-----------------------------------------------------------------------------
(* The inductive invariant *)

LEMMA InitIInv == ASSUME Init PROVE IInv
  <1> USE DEF Init
  <1>1. TypeOK
    <2>1. posted \in Seq(Events)
      OBVIOUS
    <2>2. status \in [Flows -> Status] /\ kind \in [Flows -> Kinds \cup {"NONE"}]
      BY DEF Status
    <2> QED
      BY <2>1, <2>2 DEF TypeOK
  <1>2. SlotConsistent
    BY DEF SlotConsistent
  <1>3. RequestsAccounted /\ CompletionMatchesController
    BY NoFlowIsNoFlow DEF RequestsAccounted, SlotsAccounted, QueueAccounted,
                          CompletionMatchesController, Places
  <1>4. FollowUps
    BY DEF FollowUps, Flows
  <1> QED
    BY <1>1, <1>2, <1>3, <1>4 DEF IInv

\* A slot that takes request f out of the queue: f was posted, so it neither
\* runs nor waits, and what stays in the queue is about other flows.
LEMMA RequestTaken ==
    ASSUME IInv, NEW f \in Flows, Deliver("request", f)
    PROVE  /\ status[f] = "posted"
           /\ f # active /\ f # waiting
           /\ posted' \in Seq(Events)
           /\ Places' \subseteq Int
           /\ \A i \in Places' : i + 1 \in Places /\ posted'[i] = posted[i + 1]
           /\ \A i \in Places' : IsRequest(i)' => posted'[i].flow # f
           /\ \A g \in Flows \ {f} : status[g] = "posted" =>
                 \E i \in Places' : posted'[i] = Event("request", g)
  <1> USE DEF IInv, TypeOK, RequestsAccounted
  <1>1. /\ posted' = Tail(posted) /\ posted # <<>> /\ posted[1] = Event("request", f)
        /\ 1 \in Places
    BY Delivering DEF Deliver, Places
  <1>2. IsRequest(1) /\ posted[1].flow = f
    BY <1>1 DEF Event, IsRequest
  <1>3. status[f] = "posted"
    BY <1>1, <1>2 DEF QueueAccounted
  <1>4. f # active /\ f # waiting
    BY <1>3 DEF SlotsAccounted
  <1>5. /\ posted' \in Seq(Events)
        /\ Places' \subseteq Int
        /\ \A i \in Places' : i + 1 \in Places /\ i + 1 # 1 /\ posted'[i] = posted[i + 1]
    BY <1>1, Delivering DEF Places
  <1>6. ASSUME NEW i \in Places', IsRequest(i)', posted'[i].flow = f
        PROVE  FALSE
    <2>1. posted[i + 1] \in Events /\ posted[i + 1].type = "request"
      BY <1>5, <1>6 DEF IsRequest, Places
    <2>2. posted[i + 1] = posted[1]
      BY <1>1, <1>5, <1>6, <2>1 DEF Events, Event
    <2> QED
      BY <1>1, <1>2, <1>5, <2>2, <1>6 DEF QueueAccounted
  <1>7. ASSUME NEW g \in Flows \ {f}, status[g] = "posted"
        PROVE  \E i \in Places' : posted'[i] = Event("request", g)
    <2>1. PICK j \in Places : posted[j] = Event("request", g)
      BY <1>7 DEF QueueAccounted
    <2>2. j # 1
      BY <2>1, <1>2, <1>7 DEF Event
    <2>3. j - 1 \in Places' /\ posted'[j - 1] = posted[j]
      BY <2>2, <1>1, Delivering DEF Places
    <2> QED
      BY <2>1, <2>3
  <1> QED
    BY <1>3, <1>4, <1>5, <1>6, <1>7

\* Handling it gives f an outcome and leaves the rest of the queue in order.
LEMMA RequestHandled ==
    ASSUME IInv, NEW f \in Flows, Deliver("request", f),
           NEW s \in Status \ {"posted", "unused", "done"}, Outcome(f, s)
    PROVE  /\ status' \in [Flows -> Status]
           /\ posted' \in Seq(Events)
           /\ QueueAccounted'
           /\ \A g \in Flows \ {f} : status'[g] = status[g]
           /\ status'[f] = s
  <1> USE RequestTaken DEF IInv, TypeOK, RequestsAccounted
  <1>1. /\ status' \in [Flows -> Status]
        /\ \A g \in Flows \ {f} : status'[g] = status[g]
        /\ status'[f] = s
    BY DEF Outcome
  <1>2. ASSUME NEW g \in Flows, status'[g] = "posted"
        PROVE  \E i \in Places' : posted'[i] = Event("request", g)
    BY <1>1, <1>2
  <1>3. ASSUME NEW i \in Places', IsRequest(i)'
        PROVE  /\ posted'[i].flow \in Flows
               /\ status'[posted'[i].flow] = "posted"
               /\ \A j \in Places' : posted'[j] = posted'[i] => i = j
    <2>1. i + 1 \in Places /\ IsRequest(i + 1) /\ posted'[i] = posted[i + 1]
      BY <1>3 DEF IsRequest
    <2>2. posted'[i].flow # f
      BY <1>3
    <2>3. posted[i + 1].flow \in Flows /\ status[posted[i + 1].flow] = "posted"
      BY <2>1 DEF QueueAccounted
    <2>4. ASSUME NEW j \in Places', posted'[j] = posted'[i] PROVE i = j
      <3>1. j + 1 \in Places /\ posted[j + 1] = posted[i + 1]
        BY <2>1, <2>4
      <3>2. j + 1 = i + 1
        BY <2>1, <3>1 DEF QueueAccounted
      <3> QED
        BY <3>2
    <2> QED
      BY <1>1, <2>1, <2>2, <2>3, <2>4
  <1> QED
    BY <1>1, <1>2, <1>3 DEF QueueAccounted

\* What stays in the queue after a delivery about the completion of the
\* active workflow was in it before.
LEMMA CompletionsKept ==
    ASSUME IInv, posted # <<>>, posted' = Tail(posted),
           UNCHANGED active, UNCHANGED phase
    PROVE  CompletionMatchesController'
  <1> USE DEF IInv, TypeOK
  <1>1. \A i \in Places' : i \in Int /\ i + 1 \in Places /\ posted'[i] = posted[i + 1]
    BY Delivering DEF Places
  <1>2. ASSUME NEW i \in Places', IsCompletion(i)'
        PROVE  /\ posted'[i].flow = active'
               /\ phase' = "finished"
               /\ \A j \in Places' : IsCompletion(j)' => i = j
    <2>1. i + 1 \in Places /\ IsCompletion(i + 1)
      BY <1>1, <1>2 DEF IsCompletion
    <2>2. posted[i + 1].flow = active /\ phase = "finished"
      BY <2>1 DEF CompletionMatchesController
    <2>3. ASSUME NEW j \in Places', IsCompletion(j)' PROVE i = j
      <3>1. j + 1 \in Places /\ IsCompletion(j + 1)
        BY <1>1, <2>3 DEF IsCompletion
      <3>2. i + 1 = j + 1
        BY <2>1, <3>1 DEF CompletionMatchesController
      <3> QED
        BY <1>1, <3>2
    <2> QED
      BY <1>1, <2>2, <2>3
  <1> QED
    BY <1>2 DEF CompletionMatchesController

\* An empty slot has no completion on its way.
LEMMA NoCompletionForEmptySlot ==
    ASSUME IInv, posted # <<>>, posted' = Tail(posted), active = NoFlow
    PROVE  \A i \in Places' : ~IsCompletion(i)'
  <1> USE DEF IInv, TypeOK
  <1>1. \A i \in Places' : i + 1 \in Places /\ posted'[i] = posted[i + 1]
    BY Delivering DEF Places
  <1>2. \A i \in Places : ~IsCompletion(i)
    BY DEF SlotConsistent, CompletionMatchesController
  <1> QED
    BY <1>1, <1>2 DEF IsCompletion

\* QueueAccounted for any sequence of events, to follow what is done to the
\* queue one operation at a time.
Accounted(s) ==
    /\ \A f \in Flows : status[f] = "posted" =>
          \E i \in 1..Len(s) : s[i] = Event("request", f)
    /\ \A i \in 1..Len(s) : s[i].type = "request" =>
          /\ s[i].flow \in Flows
          /\ status[s[i].flow] = "posted"
          /\ \A j \in 1..Len(s) : s[j] = s[i] => i = j

LEMMA AccountedAppend ==
    ASSUME NEW s \in Seq(Events), Accounted(s),
           NEW e \in Events, e.type # "request"
    PROVE  Accounted(Append(s, e))
  <1> DEFINE t == Append(s, e)
  <1>1. /\ Len(t) = Len(s) + 1 /\ Len(s) \in Nat
        /\ \A i \in 1..Len(s) : t[i] = s[i]
        /\ t[Len(s) + 1] = e
    BY Posting
  <1> HIDE DEF t
  <1>2. \A i \in 1..Len(t) : t[i].type = "request" => i \in 1..Len(s)
    BY <1>1
  <1>3. \A f \in Flows : status[f] = "posted" =>
            \E i \in 1..Len(t) : t[i] = Event("request", f)
    BY <1>1 DEF Accounted
  <1>4. ASSUME NEW i \in 1..Len(t), t[i].type = "request"
        PROVE  /\ t[i].flow \in Flows
               /\ status[t[i].flow] = "posted"
               /\ \A j \in 1..Len(t) : t[j] = t[i] => i = j
    <2>1. i \in 1..Len(s) /\ t[i] = s[i] /\ s[i].type = "request"
      BY <1>1, <1>2, <1>4
    <2>2. ASSUME NEW j \in 1..Len(t), t[j] = t[i] PROVE i = j
      <3>1. j \in 1..Len(s) /\ t[j] = s[j]
        BY <1>1, <1>2, <1>4, <2>2
      <3> QED
        BY <2>1, <2>2, <3>1 DEF Accounted
    <2> QED
      BY <2>1, <2>2 DEF Accounted
  <1>5. Accounted(t)
    BY <1>3, <1>4 DEF Accounted
  <1> QED
    BY <1>5 DEF t

LEMMA AccountedTail ==
    ASSUME NEW s \in Seq(Events), s # <<>>, Accounted(s), s[1].type # "request"
    PROVE  Accounted(Tail(s))
  <1> DEFINE t == Tail(s)
  <1>1. /\ Len(t) = Len(s) - 1 /\ Len(s) \in Nat
        /\ \A i \in 1..Len(t) : i + 1 \in 1..Len(s) /\ t[i] = s[i + 1]
    BY Delivering
  <1> HIDE DEF t
  <1>2. ASSUME NEW f \in Flows, status[f] = "posted"
        PROVE  \E i \in 1..Len(t) : t[i] = Event("request", f)
    <2>1. PICK i \in 1..Len(s) : s[i] = Event("request", f)
      BY <1>2 DEF Accounted
    <2>2. i # 1
      BY <2>1 DEF Event
    <2>3. i - 1 \in 1..Len(t) /\ t[i - 1] = s[i]
      BY <1>1, <2>2
    <2> QED
      BY <2>1, <2>3
  <1>3. ASSUME NEW i \in 1..Len(t), t[i].type = "request"
        PROVE  /\ t[i].flow \in Flows
               /\ status[t[i].flow] = "posted"
               /\ \A j \in 1..Len(t) : t[j] = t[i] => i = j
    <2>1. i + 1 \in 1..Len(s) /\ t[i] = s[i + 1]
      BY <1>1
    <2>2. ASSUME NEW j \in 1..Len(t), t[j] = t[i] PROVE i = j
      <3>1. j + 1 \in 1..Len(s) /\ t[j] = s[j + 1]
        BY <1>1
      <3>2. i + 1 = j + 1
        BY <2>1, <2>2, <3>1, <1>3 DEF Accounted
      <3> QED
        BY <3>2
    <2> QED
      BY <2>1, <2>2, <1>3 DEF Accounted
  <1>4. Accounted(t)
    BY <1>2, <1>3 DEF Accounted
  <1> QED
    BY <1>4 DEF t

LEMMA AccountedIsQueueAccounted == Accounted(posted) <=> QueueAccounted
  BY DEF Accounted, QueueAccounted, Places, IsRequest

LEMMA AccountedNext ==
    ASSUME Accounted(posted'), UNCHANGED status PROVE QueueAccounted'
  BY DEF Accounted, QueueAccounted, Places, IsRequest

\* Asking for a workflow keeps the invariant.
LEMMA PostKeepsIInv ==
    ASSUME IInv, NEW r \in Requests, NEW k \in Kinds, PostRequest(r, k)
    PROVE  IInv'
  <1> DEFINE f == <<r, FALSE>>
  <1> DEFINE e == Event("request", f)
  <1> USE DEF IInv, TypeOK, RequestsAccounted
  <1>1. f \in Flows /\ e \in Events /\ e.type = "request" /\ e.flow = f
    BY EventTyped DEF Flows, EventTypes, Event
  <1>2. /\ status[f] = "unused" /\ status' = [status EXCEPT ![f] = "posted"]
        /\ kind' = [kind EXCEPT ![f] = k]
        /\ posted' = Append(posted, e)
        /\ UNCHANGED <<currentAction, active, waiting, shutdownRunning,
                       workflow, closing, quits, awaited>>
    BY DEF PostRequest, Outcome
  <1>3. f # active /\ f # waiting
    BY <1>1, <1>2 DEF SlotsAccounted
  <1>4. TypeOK'
    <2>1. posted' \in Seq(Events)
      BY <1>1, <1>2, Posting
    <2>2. status' \in [Flows -> Status] /\ kind' \in [Flows -> Kinds \cup {"NONE"}]
      BY <1>1, <1>2 DEF Status
    <2>3. UNCHANGED <<currentAction, active, waiting, shutdownRunning,
                      phase, approved, killed, noActivePin, timers, ticks, uiDown,
                      exited, quits, awaited>>
      BY <1>2 DEF workflow, closing
    <2> HIDE DEF f, e
    <2> QED
      BY <2>1, <2>2, <2>3
  <1>5. SlotConsistent'
    BY <1>1, <1>2, <1>3 DEF SlotConsistent, workflow
  <1>6. SlotsAccounted'
    BY <1>1, <1>2, <1>3 DEF SlotsAccounted
  <1>7. /\ Places' = Places \cup {Len(posted) + 1}
        /\ Len(posted) + 1 \notin Places
        /\ \A i \in Places : posted'[i] = posted[i]
        /\ posted'[Len(posted) + 1] = e
    BY <1>1, <1>2, Posting DEF Places
  <1>8. \A i \in Places : IsRequest(i) => posted[i].flow # f
    BY <1>2 DEF QueueAccounted
  <1>9. QueueAccounted'
    <2>1. ASSUME NEW g \in Flows, status'[g] = "posted"
          PROVE  \E i \in Places' : posted'[i] = Event("request", g)
      <3>1. CASE g = f
        BY <1>7, <3>1
      <3>2. CASE g # f
        <4>1. status[g] = "posted"
          BY <1>1, <1>2, <2>1, <3>2
        <4> QED
          BY <4>1, <1>7 DEF QueueAccounted
      <3> QED
        BY <3>1, <3>2
    <2>2. ASSUME NEW i \in Places', IsRequest(i)'
          PROVE  /\ posted'[i].flow \in Flows
                 /\ status'[posted'[i].flow] = "posted"
                 /\ \A j \in Places' : posted'[j] = posted'[i] => i = j
      <3>1. CASE i \in Places
        <4>1. IsRequest(i) /\ posted'[i] = posted[i]
          BY <1>7, <2>2, <3>1 DEF IsRequest
        <4>2. posted[i].flow \in Flows \ {f} /\ status[posted[i].flow] = "posted"
          BY <4>1, <1>8, <3>1 DEF QueueAccounted
        <4>3. status'[posted[i].flow] = "posted"
          BY <4>2, <1>1, <1>2
        <4>4. ASSUME NEW j \in Places', posted'[j] = posted'[i] PROVE i = j
          <5>1. j \in Places
            BY <1>1, <1>7, <4>1, <4>2, <4>4
          <5> QED
            BY <5>1, <4>1, <4>4, <1>7, <3>1 DEF QueueAccounted
        <4> QED
          BY <4>1, <4>2, <4>3, <4>4
      <3>2. CASE i = Len(posted) + 1
        <4>1. posted'[i].flow = f /\ status'[f] = "posted"
          BY <1>1, <1>2, <1>7, <3>2
        <4>2. ASSUME NEW j \in Places', posted'[j] = posted'[i] PROVE i = j
          <5>1. ASSUME j \in Places PROVE FALSE
            <6>1. posted[j] = e
              BY <5>1, <4>2, <1>7, <3>2
            <6> QED
              BY <6>1, <5>1, <1>1, <1>8 DEF IsRequest
          <5> QED
            BY <5>1, <1>7, <3>2
        <4> QED
          BY <1>1, <4>1, <4>2
      <3> QED
        BY <1>7, <3>1, <3>2
    <2> QED
      BY <2>1, <2>2 DEF QueueAccounted
  <1>10. CompletionMatchesController'
    <2>1. \A i \in Places' : IsCompletion(i)' => i \in Places /\ IsCompletion(i)
      BY <1>1, <1>7 DEF IsCompletion
    <2>2. \A i \in Places : posted'[i] = posted[i]
      BY <1>7
    <2>3. phase' = phase /\ active' = active
      BY <1>2 DEF workflow
    <2> QED
      BY <2>1, <2>2, <2>3 DEF CompletionMatchesController
  <1>11. FollowUps'
    <2>1. noActivePin' => currentAction' \in {"AUTH", "SELF"}
      BY <1>2 DEF FollowUps, workflow
    <2>2. ASSUME NEW q \in Requests, status'[<<q, TRUE>>] # "unused"
          PROVE  status'[<<q, FALSE>>] = "done" /\ kind'[<<q, TRUE>>] = "PIN"
      <3>1. /\ <<q, TRUE>> \in Flows /\ <<q, FALSE>> \in Flows
            /\ <<q, TRUE>> # f
        BY DEF Flows
      <3>2. status[<<q, FALSE>>] = "done" /\ kind[<<q, TRUE>>] = "PIN"
        BY <1>1, <1>2, <2>2, <3>1 DEF FollowUps
      <3> QED
        BY <1>1, <1>2, <3>1, <3>2
    <2> QED
      BY <2>1, <2>2 DEF FollowUps
  <1> QED
    BY <1>4, <1>5, <1>6, <1>9, <1>10, <1>11

\* An outcome other than "done" for a flow that was posted leaves follow-ups
\* alone.
LEMMA FollowUpsKept ==
    ASSUME IInv, NEW f \in Flows, status[f] = "posted",
           NEW s \in Status \ {"posted", "unused", "done"}, Outcome(f, s),
           UNCHANGED kind,
           noActivePin' => currentAction' \in {"AUTH", "SELF"}
    PROVE  FollowUps'
  <1> USE DEF IInv, TypeOK
  <1>1. ASSUME NEW q \in Requests, status'[<<q, TRUE>>] # "unused"
        PROVE  status'[<<q, FALSE>>] = "done" /\ kind'[<<q, TRUE>>] = "PIN"
    <2>1. <<q, TRUE>> \in Flows /\ <<q, FALSE>> \in Flows
      BY DEF Flows
    <2>2. status[<<q, TRUE>>] # "unused"
      BY <1>1, <2>1 DEF Outcome
    <2>3. status[<<q, FALSE>>] = "done" /\ kind[<<q, TRUE>>] = "PIN"
      BY <2>2 DEF FollowUps
    <2> QED
      BY <2>1, <2>3 DEF Outcome
  <1> QED
    BY <1>1 DEF FollowUps

\* A request that finds the slot empty is started.
LEMMA StartKeepsIInv ==
    ASSUME IInv, NEW f \in Flows, kind[f] \in Kinds,
           Deliver("request", f), CanStartNewAction,
           StartNewWorkflow(f, kind[f]), Outcome(f, "running"),
           UNCHANGED <<waiting, shutdownRunning, kind, closing, quits, awaited>>
    PROVE  IInv'
  <1>1. /\ status' \in [Flows -> Status] /\ posted' \in Seq(Events)
        /\ QueueAccounted'
        /\ \A g \in Flows \ {f} : status'[g] = status[g]
        /\ status'[f] = "running"
    BY RequestHandled DEF Status
  <1>2. status[f] = "posted" /\ f # active /\ f # waiting
    BY RequestTaken
  <1>3. active = NoFlow /\ waiting = NoFlow /\ f # NoFlow
    BY NoFlowIsNoFlow DEF IInv, SlotConsistent, CanStartNewAction
  <1>4. TypeOK'
    BY <1>1 DEF IInv, TypeOK, StartNewWorkflow, closing
  <1>5. SlotConsistent'
    <2>1. kind[f] # "NONE"
      BY DEF Kinds
    <2> QED
      BY <1>3, <2>1 DEF SlotConsistent, StartNewWorkflow
  <1>6. SlotsAccounted'
    BY <1>1, <1>3, NoFlowIsNoFlow DEF IInv, RequestsAccounted, SlotsAccounted, StartNewWorkflow
  <1>7. CompletionMatchesController'
    <2>1. \A i \in Places' : ~IsCompletion(i)'
      BY <1>3, NoCompletionForEmptySlot DEF Deliver
    <2> QED
      BY <2>1 DEF CompletionMatchesController
  <1>8. FollowUps'
    BY <1>2, FollowUpsKept DEF StartNewWorkflow, Status
  <1> QED
    BY <1>1, <1>4, <1>5, <1>6, <1>7, <1>8 DEF IInv, RequestsAccounted

\* A request that finds the slot taken and the waiting place free waits.
LEMMA WaitKeepsIInv ==
    ASSUME IInv, NEW f \in Flows, kind[f] \in {"PIN", "AUTH"},
           Deliver("request", f), ~CanStartNewAction, WaitingPlaceFree, waiting' = f,
           approved' \in BOOLEAN, Outcome(f, "waiting"),
           UNCHANGED <<currentAction, active, phase, killed, noActivePin,
                       shutdownRunning, kind, closing, quits, awaited>>
    PROVE  IInv'
  <1>1. /\ status' \in [Flows -> Status] /\ posted' \in Seq(Events)
        /\ QueueAccounted'
        /\ \A g \in Flows \ {f} : status'[g] = status[g]
        /\ status'[f] = "waiting"
    BY RequestHandled DEF Status
  <1>2. status[f] = "posted" /\ f # active /\ f # waiting
    BY RequestTaken
  <1>3. active # NoFlow /\ waiting = NoFlow
    BY DEF IInv, SlotConsistent, CanStartNewAction, WaitingPlaceFree
  <1>4. TypeOK'
    BY <1>1 DEF IInv, TypeOK, closing
  <1>5. SlotConsistent'
    BY <1>2, <1>3 DEF IInv, SlotConsistent
  <1>6. SlotsAccounted'
    BY <1>1, <1>2, <1>3, NoFlowIsNoFlow DEF IInv, RequestsAccounted, SlotsAccounted
  <1>7. CompletionMatchesController'
    BY CompletionsKept DEF Deliver
  <1>8. FollowUps'
    BY <1>2, FollowUpsKept DEF Status, IInv, FollowUps
  <1> QED
    BY <1>1, <1>4, <1>5, <1>6, <1>7, <1>8 DEF IInv, RequestsAccounted

\* A request that can neither start nor wait is refused.
LEMMA RefuseKeepsIInv ==
    ASSUME IInv, NEW f \in Flows, Deliver("request", f),
           NEW s \in {"ignored", "rejected"}, Outcome(f, s),
           UNCHANGED <<currentAction, active, waiting, workflow,
                       shutdownRunning, kind, closing, quits, awaited>>
    PROVE  IInv'
  <1>0. s \in Status \ {"posted", "unused", "done"}
    BY DEF Status
  <1>1. /\ status' \in [Flows -> Status] /\ posted' \in Seq(Events)
        /\ QueueAccounted'
        /\ \A g \in Flows \ {f} : status'[g] = status[g]
        /\ status'[f] = s
    BY <1>0, RequestHandled
  <1>2. status[f] = "posted" /\ f # active /\ f # waiting
    BY RequestTaken
  <1>4. TypeOK'
    BY <1>1 DEF IInv, TypeOK, workflow, closing
  <1>5. SlotConsistent'
    BY DEF IInv, SlotConsistent, workflow
  <1>6. SlotsAccounted'
    BY <1>1, <1>2 DEF IInv, RequestsAccounted, SlotsAccounted
  <1>7. CompletionMatchesController'
    BY CompletionsKept DEF Deliver, workflow
  <1>8. FollowUps'
    BY <1>0, <1>2, FollowUpsKept DEF IInv, FollowUps, workflow
  <1> QED
    BY <1>1, <1>4, <1>5, <1>6, <1>7, <1>8 DEF IInv, RequestsAccounted

\* The three slots that take requests keep the invariant.
LEMMA RequestSlotsKeepIInv ==
    ASSUME IInv, NEW f \in Flows,
           \/ OnChangePinRequested(f)
           \/ OnSimpleRequest(f)
           \/ OnAuthenticationContextRequest(f)
    PROVE  IInv'
  <1>1. CASE OnChangePinRequested(f)
    <2>1. kind[f] \in Kinds
      BY <1>1 DEF OnChangePinRequested, Kinds
    <2>2. CASE CanStartNewAction
      BY <1>1, <2>1, <2>2, StartKeepsIInv DEF OnChangePinRequested
    <2>3. CASE ~CanStartNewAction /\ WaitingPlaceFree
      BY <1>1, <2>3, WaitKeepsIInv DEF OnChangePinRequested, workflow, IInv, TypeOK
    <2>4. CASE ~CanStartNewAction /\ ~WaitingPlaceFree
      BY <1>1, <2>4, RefuseKeepsIInv DEF OnChangePinRequested
    <2> QED
      BY <2>2, <2>3, <2>4
  <1>2. CASE OnSimpleRequest(f)
    <2>1. kind[f] \in Kinds
      BY <1>2 DEF OnSimpleRequest, Kinds
    <2>2. CASE CanStartNewAction
      BY <1>2, <2>1, <2>2, StartKeepsIInv DEF OnSimpleRequest
    <2>3. CASE ~CanStartNewAction
      BY <1>2, <2>3, RefuseKeepsIInv DEF OnSimpleRequest
    <2> QED
      BY <2>2, <2>3
  <1>3. CASE OnAuthenticationContextRequest(f)
    <2>1. kind[f] \in Kinds
      BY <1>3 DEF OnAuthenticationContextRequest, Kinds
    <2>2. CASE CanStartNewAction
      BY <1>3, <2>1, <2>2, StartKeepsIInv DEF OnAuthenticationContextRequest
    <2>3. CASE ~CanStartNewAction /\ MayWaitFor /\ WaitingPlaceFree
      BY <1>3, <2>3, WaitKeepsIInv DEF OnAuthenticationContextRequest, AutoApproveState
    <2>4. CASE ~CanStartNewAction /\ ~(MayWaitFor /\ WaitingPlaceFree)
      BY <1>3, <2>4, RefuseKeepsIInv DEF OnAuthenticationContextRequest
    <2> QED
      BY <2>2, <2>3, <2>4
  <1> QED
    BY <1>1, <1>2, <1>3

\* CompletionMatchesController for any sequence of events.
IsEnd(e) == e.type \in {"machineFinished", "complete"}

Ends(s) ==
    \A i \in 1..Len(s) : IsEnd(s[i]) =>
        /\ s[i].flow = active
        /\ phase = "finished"
        /\ \A j \in 1..Len(s) : IsEnd(s[j]) => i = j

NoEnds(s) == \A i \in 1..Len(s) : ~IsEnd(s[i])

LEMMA EndsIsCompletion ==
    /\ Ends(posted) <=> CompletionMatchesController
    /\ (Ends(posted') /\ UNCHANGED <<active, phase>>) => CompletionMatchesController'
    /\ NoEnds(posted') => CompletionMatchesController'
  BY DEF Ends, NoEnds, IsEnd, CompletionMatchesController, IsCompletion, Places

LEMMA EndsTail ==
    ASSUME NEW s \in Seq(Events), s # <<>>, Ends(s)
    PROVE  /\ Ends(Tail(s))
           /\ IsEnd(s[1]) => NoEnds(Tail(s))
  <1> DEFINE t == Tail(s)
  <1>1. /\ Len(s) \in Nat /\ 1 \in 1..Len(s)
        /\ \A i \in 1..Len(t) : i + 1 \in 1..Len(s) /\ i + 1 # 1 /\ t[i] = s[i + 1]
    BY Delivering
  <1> HIDE DEF t
  <1>2. ASSUME NEW i \in 1..Len(t), IsEnd(t[i])
        PROVE  /\ t[i].flow = active
               /\ phase = "finished"
               /\ \A j \in 1..Len(t) : IsEnd(t[j]) => i = j
    <2>1. i + 1 \in 1..Len(s) /\ IsEnd(s[i + 1])
      BY <1>1, <1>2
    <2>2. ASSUME NEW j \in 1..Len(t), IsEnd(t[j]) PROVE i = j
      <3>1. j + 1 \in 1..Len(s) /\ IsEnd(s[j + 1])
        BY <1>1, <2>2
      <3>2. i + 1 = j + 1
        BY <2>1, <3>1 DEF Ends
      <3> QED
        BY <3>2
    <2> QED
      BY <1>1, <2>1, <2>2 DEF Ends
  <1>3. ASSUME IsEnd(s[1]), NEW i \in 1..Len(t), IsEnd(t[i]) PROVE FALSE
    BY <1>1, <1>3 DEF Ends
  <1>4. Ends(t) /\ (IsEnd(s[1]) => NoEnds(t))
    BY <1>2, <1>3 DEF Ends, NoEnds
  <1> QED
    BY <1>4 DEF t

LEMMA EndsAppend ==
    ASSUME NEW s \in Seq(Events), NEW e \in Events
    PROVE  /\ (Ends(s) /\ ~IsEnd(e)) => Ends(Append(s, e))
           /\ (NoEnds(s) /\ e.flow = active /\ phase = "finished") => Ends(Append(s, e))
           /\ (NoEnds(s) /\ ~IsEnd(e)) => NoEnds(Append(s, e))
  <1> DEFINE t == Append(s, e)
  <1>1. /\ Len(s) \in Nat /\ Len(t) = Len(s) + 1
        /\ \A i \in 1..Len(s) : t[i] = s[i]
        /\ t[Len(s) + 1] = e
    BY Posting
  <1> HIDE DEF t
  <1>2. (Ends(s) /\ ~IsEnd(e)) => Ends(t)
    <2>1. ASSUME Ends(s), ~IsEnd(e), NEW i \in 1..Len(t), IsEnd(t[i])
          PROVE  i \in 1..Len(s) /\ IsEnd(s[i])
      BY <1>1, <2>1
    <2> QED
      BY <2>1, <1>1 DEF Ends
  <1>3. (NoEnds(s) /\ e.flow = active /\ phase = "finished") => Ends(t)
    BY <1>1 DEF Ends, NoEnds
  <1>4. (NoEnds(s) /\ ~IsEnd(e)) => NoEnds(t)
    BY <1>1 DEF NoEnds
  <1>5. /\ (Ends(s) /\ ~IsEnd(e)) => Ends(t)
        /\ (NoEnds(s) /\ e.flow = active /\ phase = "finished") => Ends(t)
        /\ (NoEnds(s) /\ ~IsEnd(e)) => NoEnds(t)
    BY <1>2, <1>3, <1>4
  <1> QED
    BY <1>5 DEF t

\* The machine of an approved FinalState stops and reports.
LEMMA FinalStateRunKeepsIInv ==
    ASSUME IInv, FinalStateRun PROVE IInv'
  <1> DEFINE e == Event("machineFinished", active)
  <1> USE DEF IInv, RequestsAccounted, FinalStateRun, FinalStateApproved
  <1>1. posted \in Seq(Events) /\ e \in Events /\ posted' = Append(posted, e)
    BY EventTyped DEF TypeOK, EventTypes
  <1>2. e.type # "request" /\ e.flow = active
    BY DEF Event
  <1>3. TypeOK'
    BY <1>1, Posting DEF TypeOK, closing
  <1>4. SlotConsistent' /\ SlotsAccounted' /\ FollowUps'
    BY DEF SlotConsistent, SlotsAccounted, FollowUps
  <1>5. QueueAccounted'
    BY <1>1, <1>2, AccountedAppend, AccountedIsQueueAccounted, AccountedNext
  <1>6. CompletionMatchesController'
    <2>1. NoEnds(posted)
      BY EndsIsCompletion DEF Ends, NoEnds
    <2>2. \A i \in 1..Len(posted) : ~IsEnd(posted[i])
      BY <2>1 DEF NoEnds
    <2>3. /\ Len(posted) \in Nat /\ Len(posted') = Len(posted) + 1
          /\ \A i \in 1..Len(posted) : posted'[i] = posted[i]
          /\ posted'[Len(posted) + 1] = e
      BY <1>1, Posting
    <2>4. \A i \in Places' : IsCompletion(i)' => i = Len(posted) + 1
      BY <2>2, <2>3 DEF Places, IsCompletion, IsEnd
    <2> QED
      BY <1>2, <2>3, <2>4 DEF CompletionMatchesController
  <1> QED
    BY <1>3, <1>4, <1>5, <1>6

\* The report moves from the state machine to the controller.
LEMMA FireCompleteKeepsIInv ==
    ASSUME IInv, NEW f \in Flows, FireComplete(f) PROVE IInv'
  <1> DEFINE e == Event("complete", f)
  <1> USE DEF IInv, RequestsAccounted, FireComplete
  <1>1. posted \in Seq(Events) /\ e \in Events /\ posted' = Append(Tail(posted), e)
    BY EventTyped DEF TypeOK, EventTypes
  <1>2. /\ Tail(posted) \in Seq(Events) /\ 1 \in 1..Len(posted)
        /\ posted[1] = Event("machineFinished", f)
    BY <1>1, Delivering
  <1>3. /\ e.type # "request" /\ posted[1].type # "request" /\ e.flow = f
        /\ IsEnd(posted[1]) /\ posted[1].flow = f
    BY <1>2 DEF Event, IsEnd
  <1>4. f = active /\ phase = "finished"
    BY <1>2, <1>3, EndsIsCompletion DEF Ends
  <1>5. TypeOK'
    BY <1>1, <1>2, Posting DEF TypeOK, workflow, closing
  <1>6. SlotConsistent' /\ SlotsAccounted' /\ FollowUps'
    BY DEF SlotConsistent, SlotsAccounted, FollowUps, workflow
  <1>7. QueueAccounted'
    BY <1>1, <1>2, <1>3, AccountedTail, AccountedAppend, AccountedIsQueueAccounted,
       AccountedNext
  <1>8. CompletionMatchesController'
    <2>1. NoEnds(Tail(posted))
      BY <1>1, <1>3, EndsTail, EndsIsCompletion
    <2>2. Ends(posted')
      BY <1>1, <1>2, <1>3, <1>4, <2>1, EndsAppend
    <2> QED
      BY <2>2, EndsIsCompletion DEF workflow
  <1> QED
    BY <1>5, <1>6, <1>7, <1>8

\* What onWorkflowFinished finds: the completed workflow is the active one,
\* and what it starts next, if anything, waited or never ran.
LEMMA FinishedWorkflow ==
    ASSUME IInv, NEW f \in Flows, OnWorkflowFinished(f)
    PROVE  LET next == WaitingAfterFinish(f) IN
           /\ f = active /\ f # NoFlow /\ status[f] = "running"
           /\ next \in Flows \cup {NoFlow} /\ next # f
           /\ \/ next = waiting
              \/ /\ waiting = NoFlow /\ status[next] = "unused"
                 /\ \E q \in Requests : f = <<q, FALSE>> /\ next = <<q, TRUE>>
           /\ next # NoFlow => status[next] \in {"unused", "waiting"}
  <1> DEFINE next == WaitingAfterFinish(f)
  <1> USE DEF IInv, RequestsAccounted
  <1>1. posted \in Seq(Events) /\ posted # <<>> /\ posted[1] = Event("complete", f)
    BY Delivering DEF TypeOK, OnWorkflowFinished, Deliver
  <1>2. 1 \in 1..Len(posted) /\ IsEnd(posted[1]) /\ posted[1].flow = f
    BY <1>1, Delivering DEF Event, IsEnd
  <1>3. f = active
    BY <1>2, EndsIsCompletion DEF Ends
  <1>4. status[f] = "running" /\ f # NoFlow
    BY <1>3, NoFlowIsNoFlow DEF SlotsAccounted
  <1>5. CASE noActivePin /\ WaitingPlaceFree
    <2>1. next = <<f[1], TRUE>> /\ waiting = NoFlow
      BY <1>5 DEF WaitingAfterFinish, WaitingPlaceFree
    <2>2. PICK q \in Requests, b \in BOOLEAN : f = <<q, b>>
      BY DEF Flows
    <2>3. <<q, TRUE>> \in Flows /\ <<q, FALSE>> \in Flows
      BY DEF Flows
    <2>4. kind[f] \in {"AUTH", "SELF"}
      BY <1>3, <1>4, <1>5 DEF FollowUps, SlotConsistent
    <2>5. b = FALSE
      <3>1. CASE b = TRUE
        <4>1. kind[<<q, TRUE>>] = "PIN"
          BY <1>4, <2>2, <3>1 DEF FollowUps
        <4> QED
          BY <2>2, <2>4, <3>1, <4>1
      <3> QED
        BY <3>1
    <2>6. status[<<q, TRUE>>] = "unused"
      BY <1>4, <2>2, <2>5 DEF FollowUps
    <2>7. next = <<q, TRUE>> /\ f = <<q, FALSE>>
      BY <2>1, <2>2, <2>5
    <2>8. next # f
      BY <2>7
    <2> QED
      BY <1>3, <1>4, <2>1, <2>3, <2>6, <2>7, <2>8
  <1>6. CASE ~(noActivePin /\ WaitingPlaceFree)
    <2>1. next = waiting
      BY <1>6 DEF WaitingAfterFinish
    <2>2. next \in Flows \cup {NoFlow}
      BY <2>1 DEF TypeOK
    <2>3. next # NoFlow => status[next] = "waiting"
      BY <2>1, <2>2 DEF SlotsAccounted
    <2> QED
      BY <1>3, <1>4, <2>1, <2>2, <2>3
  <1> QED
    BY <1>5, <1>6

\* The end of a workflow frees the slot or hands it to the next one.
LEMMA FinishKeepsIInv ==
    ASSUME IInv, NEW f \in Flows, OnWorkflowFinished(f) PROVE IInv'
  <1> DEFINE next == WaitingAfterFinish(f)
  <1> USE DEF IInv, RequestsAccounted
  <1>1. /\ f = active /\ f # NoFlow /\ status[f] = "running"
        /\ next \in Flows \cup {NoFlow} /\ next # f
        /\ \/ next = waiting
           \/ /\ waiting = NoFlow /\ status[next] = "unused"
              /\ \E q \in Requests : f = <<q, FALSE>> /\ next = <<q, TRUE>>
        /\ next # NoFlow => status[next] \in {"unused", "waiting"}
    BY FinishedWorkflow
  <1>2. /\ posted \in Seq(Events) /\ posted # <<>> /\ posted[1] = Event("complete", f)
        /\ posted' = Tail(posted)
    BY Delivering DEF TypeOK, OnWorkflowFinished, Deliver
  <1>3. posted' \in Seq(Events) /\ posted[1].type # "request" /\ IsEnd(posted[1])
    BY <1>2, Delivering DEF Event, IsEnd
  <1>4. CompletionMatchesController'
    BY <1>2, <1>3, EndsTail, EndsIsCompletion
  <1>5. timers' \in Nat
    BY DEF OnWorkflowFinished, CompleteShutdown, TypeOK
  <1>6. Accounted(posted')
    BY <1>2, <1>3, AccountedTail, AccountedIsQueueAccounted
  <1>7. waiting' = NoFlow
    BY DEF OnWorkflowFinished
  <1>8. CASE next # NoFlow
    <2> DEFINE k == IF next # waiting THEN "PIN" ELSE kind[next]
    <2>1. /\ StartNewWorkflow(next, k)
          /\ kind' = [kind EXCEPT ![next] = k]
          /\ status' = [status EXCEPT ![f] = "done", ![next] = "running"]
          /\ UNCHANGED <<shutdownRunning, ticks, uiDown, exited, quits, awaited>>
      BY <1>8 DEF OnWorkflowFinished, FreeSlot
    <2>2. next \in Flows
      BY <1>1, <1>8
    <2>3. k \in Kinds
      <3>1. CASE next = waiting
        <4>1. status[next] = "waiting"
          BY <2>2, <3>1 DEF SlotsAccounted
        <4> QED
          BY <1>8, <3>1, <4>1 DEF SlotConsistent, Kinds
      <3> QED
        BY <3>1 DEF Kinds
    <2>4. /\ status' \in [Flows -> Status]
          /\ status'[f] = "done" /\ status'[next] = "running"
          /\ \A g \in Flows \ {f, next} : status'[g] = status[g]
      BY <1>1, <2>1, <2>2 DEF TypeOK, Status
    <2>5. TypeOK'
      BY <1>3, <1>5, <1>7, <2>1, <2>2, <2>3, <2>4 DEF TypeOK, StartNewWorkflow
    <2>6. SlotConsistent'
      BY <1>7, <2>1, <2>2, <2>3, NoFlowIsNoFlow
      DEF SlotConsistent, StartNewWorkflow, TypeOK, Kinds
    <2>7. SlotsAccounted'
      <3>1. \A g \in Flows \ {f, next} : status'[g] \notin {"running", "waiting"}
        BY <1>1, <2>4, NoFlowIsNoFlow DEF SlotsAccounted
      <3> QED
        BY <1>1, <1>7, <2>1, <2>2, <2>4, <3>1, NoFlowIsNoFlow
        DEF SlotsAccounted, StartNewWorkflow
    <2>8. QueueAccounted'
      <3>1. \A g \in Flows : status'[g] = "posted" <=> status[g] = "posted"
        BY <1>1, <1>8, <2>2, <2>4
      <3> QED
        BY <1>6, <3>1 DEF Accounted, QueueAccounted, Places, IsRequest
    <2>9. FollowUps'
      <3>1. ASSUME NEW q \in Requests, status'[<<q, TRUE>>] # "unused"
            PROVE  status'[<<q, FALSE>>] = "done" /\ kind'[<<q, TRUE>>] = "PIN"
        <4>1. <<q, TRUE>> \in Flows /\ <<q, FALSE>> \in Flows /\ <<q, TRUE>> # <<q, FALSE>>
          BY DEF Flows
        <4>2. CASE <<q, TRUE>> = next
          <5>1. CASE next = waiting
            <6>1. status[<<q, TRUE>>] = "waiting"
              BY <2>2, <4>2, <5>1 DEF SlotsAccounted
            <6>2. status[<<q, FALSE>>] = "done" /\ kind[<<q, TRUE>>] = "PIN"
              BY <6>1 DEF FollowUps
            <6> QED
              BY <1>1, <2>1, <2>2, <2>4, <4>1, <4>2, <5>1, <6>2 DEF TypeOK
          <5>2. CASE next # waiting
            <6>1. <<q, FALSE>> = f
              <7>1. PICK p \in Requests : f = <<p, FALSE>> /\ next = <<p, TRUE>>
                BY <1>1, <5>2
              <7>2. p = q
                BY <7>1, <4>2
              <7> QED
                BY <7>1, <7>2
            <6>2. kind'[<<q, TRUE>>] = "PIN"
              BY <2>1, <2>2, <4>2, <5>2 DEF TypeOK
            <6> QED
              BY <2>4, <6>1, <6>2
          <5> QED
            BY <5>1, <5>2
        <4>3. CASE <<q, TRUE>> # next
          <5>1. status[<<q, TRUE>>] # "unused"
            BY <1>1, <2>4, <3>1, <4>1, <4>3
          <5>2. status[<<q, FALSE>>] = "done" /\ kind[<<q, TRUE>>] = "PIN"
            BY <5>1 DEF FollowUps
          <5>3. kind'[<<q, TRUE>>] = "PIN"
            BY <2>1, <4>1, <4>3, <5>2 DEF TypeOK
          <5>4. <<q, FALSE>> # next
            BY <1>1, <1>8, <5>2
          <5> QED
            BY <2>4, <4>1, <5>2, <5>3, <5>4
        <4> QED
          BY <4>2, <4>3
      <3> QED
        BY <2>1, <3>1 DEF FollowUps, StartNewWorkflow
    <2> QED
      BY <1>4, <2>5, <2>6, <2>7, <2>8, <2>9
  <1>9. CASE next = NoFlow
    <2>1. /\ FreeSlot /\ phase' = "none" /\ approved' = FALSE /\ killed' = FALSE
          /\ noActivePin' = FALSE
          /\ status' = [status EXCEPT ![f] = "done"]
          /\ UNCHANGED <<kind, shutdownRunning, ticks, uiDown, exited, quits, awaited>>
      BY <1>9 DEF OnWorkflowFinished, Outcome, StartNewWorkflow
    <2>2. /\ status' \in [Flows -> Status] /\ status'[f] = "done"
          /\ \A g \in Flows \ {f} : status'[g] = status[g]
      BY <2>1 DEF TypeOK, Status
    <2>3. waiting = NoFlow
      BY <1>1, <1>9, NoFlowIsNoFlow
    <2>4. TypeOK'
      BY <1>3, <1>5, <1>7, <2>1, <2>2 DEF TypeOK, FreeSlot
    <2>5. SlotConsistent'
      BY <1>7, <2>1 DEF SlotConsistent, FreeSlot
    <2>6. SlotsAccounted'
      BY <1>1, <1>7, <2>1, <2>2, <2>3, NoFlowIsNoFlow DEF SlotsAccounted, FreeSlot
    <2>7. QueueAccounted'
      <3>1. \A g \in Flows : status'[g] = "posted" <=> status[g] = "posted"
        BY <1>1, <2>2
      <3> QED
        BY <1>6, <3>1 DEF Accounted, QueueAccounted, Places, IsRequest
    <2>8. FollowUps'
      <3>1. ASSUME NEW q \in Requests, status'[<<q, TRUE>>] # "unused"
            PROVE  status'[<<q, FALSE>>] = "done" /\ kind'[<<q, TRUE>>] = "PIN"
        <4>1. <<q, TRUE>> \in Flows /\ <<q, FALSE>> \in Flows
          BY DEF Flows
        <4>2. status[<<q, TRUE>>] # "unused"
          BY <1>1, <2>2, <3>1, <4>1
        <4>3. status[<<q, FALSE>>] = "done" /\ kind[<<q, TRUE>>] = "PIN"
          BY <4>2 DEF FollowUps
        <4> QED
          BY <2>1, <2>2, <4>1, <4>3
      <3> QED
        BY <2>1, <3>1 DEF FollowUps
    <2> QED
      BY <1>4, <2>4, <2>5, <2>6, <2>7, <2>8
  <1> QED
    BY <1>8, <1>9

\* A step that moves no workflow and posts nothing.
LEMMA QuietStepKeepsIInv ==
    ASSUME IInv, TypeOK',
           UNCHANGED <<currentAction, active, waiting, kind, status, posted>>,
           phase' = "none" <=> phase = "none",
           phase = "finished" => phase' = "finished",
           noActivePin' => currentAction \in {"AUTH", "SELF"}
    PROVE  IInv'
  <1> USE DEF IInv, RequestsAccounted
  <1>1. SlotConsistent' /\ SlotsAccounted'
    BY DEF SlotConsistent, SlotsAccounted
  <1>2. QueueAccounted'
    BY DEF QueueAccounted, Places, IsRequest
  <1>3. CompletionMatchesController'
    BY DEF CompletionMatchesController, Places, IsCompletion
  <1>4. FollowUps'
    BY DEF FollowUps
  <1> QED
    BY <1>1, <1>2, <1>3, <1>4

\* A shutdown empties the waiting place and nothing else of the bookkeeping.
LEMMA ShutdownKeepsIInv ==
    ASSUME IInv, DoShutdown PROVE IInv'
  <1> USE DEF IInv, RequestsAccounted
  <1>1. /\ UNCHANGED <<currentAction, active, kind, phase,
                       noActivePin, posted, ticks, uiDown, exited>>
        /\ shutdownRunning' = TRUE /\ quits' = quits + 1
        /\ awaited' \in Flows \cup {NoFlow}
    BY DEF DoShutdown, TypeOK
  <1>2. CASE WorkflowToAwait
    <2>1. /\ waiting' = NoFlow /\ killed' = TRUE /\ approved' = TRUE
          /\ status' = [f \in Flows |-> IF f = waiting THEN "dropped" ELSE status[f]]
          /\ timers' = timers
      BY <1>2 DEF DoShutdown, KillWorkflow
    <2>2. \A f \in Flows : status'[f] = IF f = waiting THEN "dropped" ELSE status[f]
      BY <2>1
    <2>3. TypeOK'
      BY <1>1, <2>1 DEF TypeOK, Status
    <2>4. SlotConsistent'
      BY <1>1, <2>1 DEF SlotConsistent
    <2>5. SlotsAccounted'
      BY <1>1, <2>1, <2>2, NoFlowIsNoFlow DEF SlotsAccounted, SlotConsistent
    <2>6. QueueAccounted'
      <3>1. \A f \in Flows : status'[f] = "posted" <=> status[f] = "posted"
        BY <2>2 DEF SlotsAccounted
      <3> QED
        BY <1>1, <3>1 DEF QueueAccounted, Places, IsRequest
    <2>7. CompletionMatchesController'
      BY <1>1 DEF CompletionMatchesController, Places, IsCompletion
    <2>8. FollowUps'
      <3>1. ASSUME NEW q \in Requests, status'[<<q, TRUE>>] # "unused"
            PROVE  status'[<<q, FALSE>>] = "done" /\ kind'[<<q, TRUE>>] = "PIN"
        <4>1. <<q, TRUE>> \in Flows /\ <<q, FALSE>> \in Flows
          BY DEF Flows
        <4>2. status[<<q, TRUE>>] # "unused"
          BY <2>2, <3>1, <4>1 DEF SlotsAccounted
        <4>3. status[<<q, FALSE>>] = "done" /\ kind[<<q, TRUE>>] = "PIN"
          BY <4>2 DEF FollowUps
        <4>4. <<q, FALSE>> # waiting
          BY <4>1, <4>3 DEF SlotsAccounted
        <4> QED
          BY <1>1, <2>2, <4>1, <4>3, <4>4
      <3> QED
        BY <1>1, <3>1 DEF FollowUps
    <2> QED
      BY <2>3, <2>4, <2>5, <2>6, <2>7, <2>8
  <1>3. CASE ~WorkflowToAwait
    <2>1. timers' = timers + 1 /\ UNCHANGED <<waiting, status, killed, approved>>
      BY <1>3 DEF DoShutdown, CompleteShutdown
    <2>2. TypeOK'
      BY <1>1, <2>1 DEF TypeOK
    <2> QED
      BY <1>1, <2>1, <2>2, QuietStepKeepsIInv DEF FollowUps
  <1> QED
    BY <1>2, <1>3

\* The last events of the application say nothing about workflows.
LEMMA ClosingKeepsIInv ==
    ASSUME IInv, ShutdownTick \/ UILoaderShutdown \/ OnUILoaderShutdownComplete
    PROVE  IInv'
  <1> DEFINE load == Event("uiLoaderShutdown", NoFlow)
  <1> DEFINE done == Event("uiShutdownComplete", NoFlow)
  <1> USE DEF IInv, RequestsAccounted
  <1>1. posted \in Seq(Events) /\ load \in Events /\ done \in Events
    BY EventTyped DEF TypeOK, EventTypes
  <1>2. /\ load.type # "request" /\ done.type # "request"
        /\ ~IsEnd(load) /\ ~IsEnd(done)
    BY DEF Event, IsEnd
  <1>3. Accounted(posted) /\ Ends(posted)
    BY AccountedIsQueueAccounted, EndsIsCompletion
  <1>4. ASSUME posted # <<>>, posted[1] \in {load, done}
        PROVE  /\ Tail(posted) \in Seq(Events)
               /\ Accounted(Tail(posted)) /\ Ends(Tail(posted))
    BY <1>1, <1>2, <1>3, <1>4, AccountedTail, EndsTail, Delivering
  <1>5. /\ posted' \in Seq(Events) /\ Accounted(posted') /\ Ends(posted')
        /\ UNCHANGED <<currentAction, active, waiting, shutdownRunning,
                       kind, status, workflow, quits, awaited>>
        /\ timers' \in Nat /\ ticks' \in Nat /\ uiDown' \in BOOLEAN
        /\ exited' \in BOOLEAN
    <2>1. CASE ShutdownTick
      <3>1. posted' \in {posted, Append(posted, load)}
        BY <2>1 DEF ShutdownTick
      <3>2. posted' \in Seq(Events) /\ Accounted(posted') /\ Ends(posted')
        BY <1>1, <1>2, <1>3, <3>1, AccountedAppend, EndsAppend, Posting
      <3>3. timers' \in Nat /\ ticks' \in Nat
        BY <2>1, AppAssumption DEF ShutdownTick, DeleteTimer, TypeOK
      <3> QED
        BY <2>1, <3>2, <3>3 DEF ShutdownTick, TypeOK
    <2>2. CASE UILoaderShutdown
      <3>1. posted # <<>> /\ posted[1] = load
        BY <2>2, <1>1, Delivering DEF UILoaderShutdown
      <3>2. posted' \in {Tail(posted), Append(Tail(posted), done)}
        BY <2>2 DEF UILoaderShutdown
      <3>3. posted' \in Seq(Events) /\ Accounted(posted') /\ Ends(posted')
        BY <1>1, <1>2, <1>4, <3>1, <3>2, AccountedAppend, EndsAppend, Posting
      <3> QED
        BY <2>2, <3>3 DEF UILoaderShutdown, TypeOK
    <2>3. CASE OnUILoaderShutdownComplete
      <3>1. posted # <<>> /\ posted[1] = done /\ posted' = Tail(posted)
        BY <2>3, <1>1, Delivering DEF OnUILoaderShutdownComplete, Deliver
      <3> QED
        BY <2>3, <1>4, <3>1 DEF OnUILoaderShutdownComplete, TypeOK
    <2> QED
      BY <2>1, <2>2, <2>3
  <1>6. TypeOK'
    BY <1>5 DEF TypeOK, workflow
  <1>7. SlotConsistent' /\ SlotsAccounted' /\ FollowUps'
    BY <1>5 DEF SlotConsistent, SlotsAccounted, FollowUps, workflow
  <1>8. QueueAccounted' /\ CompletionMatchesController'
    BY <1>5, AccountedNext, EndsIsCompletion DEF workflow
  <1> QED
    BY <1>6, <1>7, <1>8

LEMMA NextKeepsIInv ==
    ASSUME IInv, [Next]_vars PROVE IInv'
  <1> USE DEF IInv, RequestsAccounted
  <1>1. CASE \E r \in Requests, k \in Kinds : PostRequest(r, k)
    BY <1>1, PostKeepsIInv
  <1>2. CASE \E f \in Flows : \/ OnChangePinRequested(f)
                              \/ OnSimpleRequest(f)
                              \/ OnAuthenticationContextRequest(f)
    BY <1>2, RequestSlotsKeepIInv
  <1>3. CASE \E f \in Flows : FireComplete(f)
    BY <1>3, FireCompleteKeepsIInv
  <1>4. CASE \E f \in Flows : OnWorkflowFinished(f)
    BY <1>4, FinishKeepsIInv
  <1>5. CASE FinalStateRun
    BY <1>5, FinalStateRunKeepsIInv
  <1>6. CASE DoShutdown
    BY <1>6, ShutdownKeepsIInv
  <1>7. CASE ShutdownTick \/ UILoaderShutdown \/ OnUILoaderShutdownComplete
    BY <1>7, ClosingKeepsIInv
  <1>8. CASE WorkflowReachesFinalState
    <2>1. TypeOK'
      BY <1>8 DEF WorkflowReachesFinalState, TypeOK, closing
    <2> QED
      BY <1>8, <2>1, QuietStepKeepsIInv DEF WorkflowReachesFinalState
  <1>9. CASE UserApproves
    <2>1. TypeOK'
      BY <1>9 DEF UserApproves, TypeOK, closing
    <2> QED
      BY <1>9, <2>1, QuietStepKeepsIInv DEF UserApproves, FollowUps
  <1>10. CASE UNCHANGED vars
    <2>1. TypeOK'
      BY <1>10 DEF vars, closing, workflow, TypeOK
    <2> QED
      BY <1>10, <2>1, QuietStepKeepsIInv DEF FollowUps, vars, workflow
  <1> QED
    BY <1>1, <1>2, <1>3, <1>4, <1>5, <1>6, <1>7, <1>8, <1>9, <1>10
    DEF Next

-----------------------------------------------------------------------------
(* The theorems *)

\* The inductive invariant holds in every behaviour of AppController.
THEOREM InductiveInvariant == Spec => []IInv
  <1>1. Init => IInv
    BY InitIInv
  <1>2. IInv /\ [Next]_vars => IInv'
    BY NextKeepsIInv
  <1> QED
    BY <1>1, <1>2, PTL DEF Spec

\* mCurrentAction and mActiveController agree, and a request waits only while
\* a workflow runs (AppController.cpp: canStartNewAction, onChangePinRequested).
THEOREM SlotIsConsistent == Spec => [](TypeOK /\ SlotConsistent)
  <1>1. IInv => TypeOK /\ SlotConsistent
    BY DEF IInv
  <1> QED
    BY <1>1, InductiveInvariant, PTL

\* No request for a workflow is lost or served twice between the event loop,
\* the waiting place and the slot.
THEOREM NoRequestLost == Spec => []RequestsAccounted
  <1>1. IInv => RequestsAccounted
    BY DEF IInv
  <1> QED
    BY <1>1, InductiveInvariant, PTL

\* Q_ASSERT(mActiveController) of onWorkflowFinished never fails: a completion
\* is always that of the controller in the slot.
THEOREM CompletionFindsController == Spec => []CompletionMatchesController
  <1>1. IInv => CompletionMatchesController
    BY DEF IInv
  <1> QED
    BY <1>1, InductiveInvariant, PTL

-----------------------------------------------------------------------------
(* The order of a shutdown *)

\* An event of type t is in the sequence s.
Holds(s, t) == \E i \in 1..Len(s) : s[i].type = t

LEMMA HoldsPosted ==
    ASSUME NEW t
    PROVE  (Posted(t) <=> Holds(posted, t)) /\ (Posted(t)' <=> Holds(posted', t))
  BY DEF Posted, Holds, Places

LEMMA HoldsAppend ==
    ASSUME NEW s \in Seq(Events), NEW e \in Events, NEW t
    PROVE  Holds(Append(s, e), t) <=> Holds(s, t) \/ e.type = t
  <1> DEFINE u == Append(s, e)
  <1>1. /\ Len(s) \in Nat /\ Len(u) = Len(s) + 1
        /\ \A i \in 1..Len(s) : u[i] = s[i]
        /\ u[Len(s) + 1] = e
    BY Posting
  <1> HIDE DEF u
  <1>2. Holds(u, t) <=> Holds(s, t) \/ e.type = t
    BY <1>1 DEF Holds
  <1> QED
    BY <1>2 DEF u

LEMMA HoldsTail ==
    ASSUME NEW s \in Seq(Events), s # <<>>, NEW t
    PROVE  Holds(s, t) <=> Holds(Tail(s), t) \/ s[1].type = t
  <1> DEFINE u == Tail(s)
  <1>1. /\ Len(s) \in Nat /\ Len(s) > 0 /\ Len(u) = Len(s) - 1
        /\ \A i \in 1..Len(u) : u[i] = s[i + 1]
    BY Delivering
  <1> HIDE DEF u
  <1>2. ASSUME Holds(s, t), s[1].type # t PROVE Holds(u, t)
    <2>1. PICK i \in 1..Len(s) : s[i].type = t
      BY <1>2 DEF Holds
    <2>2. i - 1 \in 1..Len(u) /\ u[i - 1] = s[i]
      BY <1>1, <1>2, <2>1
    <2> QED
      BY <2>1, <2>2 DEF Holds
  <1>3. Holds(u, t) \/ s[1].type = t => Holds(s, t)
    BY <1>1 DEF Holds
  <1>4. Holds(s, t) <=> Holds(u, t) \/ s[1].type = t
    BY <1>2, <1>3
  <1> QED
    BY <1>4 DEF u

\* Delivering an event of type t leaves those of every other type.
LEMMA OthersStay ==
    ASSUME IInv, posted # <<>>, posted' = Tail(posted), NEW t, posted[1].type # t
    PROVE  Posted(t)' <=> Posted(t)
  BY HoldsTail, HoldsPosted DEF IInv, TypeOK

\* What a step must leave alone to keep the order of the shutdown.
LEMMA QuietForShutdown ==
    ASSUME ShutdownInv,
           UNCHANGED <<active, awaited, killed, phase, approved, timers, uiDown,
                       exited, shutdownRunning>>,
           \A t \in EventTypes \ {"request"} : Posted(t)' <=> Posted(t),
           awaited # NoFlow => status'[awaited] \in {"running", "done"}
    PROVE  ShutdownInv'
  <1>1. /\ Posted("machineFinished")' <=> Posted("machineFinished")
        /\ Posted("complete")' <=> Posted("complete")
        /\ Posted("uiLoaderShutdown")' <=> Posted("uiLoaderShutdown")
        /\ Posted("uiShutdownComplete")' <=> Posted("uiShutdownComplete")
    BY DEF EventTypes
  <1>2. (Closing' <=> Closing) /\ (AwaitsWorkflow' <=> AwaitsWorkflow)
        /\ (NeedsNobody' <=> NeedsNobody)
    BY <1>1 DEF Closing, AwaitsWorkflow, NeedsNobody
  <1> QED
    BY <1>1, <1>2 DEF ShutdownInv, ShutdownInOrder

\* A request that is delivered starts at most a workflow nobody awaits.
LEMMA RequestsKeepOrder ==
    ASSUME IInv, ShutdownInv, NEW f \in Flows,
           \/ OnChangePinRequested(f)
           \/ OnSimpleRequest(f)
           \/ OnAuthenticationContextRequest(f)
    PROVE  ShutdownInv'
  <1>1. /\ Deliver("request", f)
        /\ UNCHANGED <<awaited, timers, uiDown, exited, shutdownRunning>>
        /\ \/ /\ active = NoFlow /\ active' = f /\ phase' = "running"
           \/ /\ UNCHANGED <<active, phase, killed>>
              /\ approved' = approved \/ approved' = TRUE
        /\ \E s \in {"running", "waiting", "ignored", "rejected"} : Outcome(f, s)
    BY DEF OnChangePinRequested, OnSimpleRequest, OnAuthenticationContextRequest,
       CanStartNewAction, StartNewWorkflow, AutoApproveState, workflow, closing
  <1>2. status[f] = "posted"
    BY <1>1, RequestTaken
  <1>3. \A g \in Flows \ {f} : status'[g] = status[g]
    BY <1>1 DEF Outcome, IInv, TypeOK
  <1>4. awaited # f
    BY <1>2, NoFlowIsNoFlow DEF ShutdownInv
  <1>5. awaited # NoFlow => status'[awaited] \in {"running", "done"}
    BY <1>3, <1>4 DEF ShutdownInv, IInv, TypeOK
  <1>6. posted # <<>> /\ posted' = Tail(posted) /\ posted[1].type = "request"
    BY <1>1, Delivering DEF Deliver, Event, IInv, TypeOK
  <1>7. \A t \in EventTypes \ {"request"} : Posted(t)' <=> Posted(t)
    BY <1>6, OthersStay
  <1>8. /\ Posted("machineFinished")' <=> Posted("machineFinished")
        /\ Posted("complete")' <=> Posted("complete")
        /\ Posted("uiLoaderShutdown")' <=> Posted("uiLoaderShutdown")
        /\ Posted("uiShutdownComplete")' <=> Posted("uiShutdownComplete")
    BY <1>7 DEF EventTypes
  <1>9. Closing' <=> Closing
    BY <1>1, <1>8 DEF Closing
  <1>10. AwaitsWorkflow' <=> AwaitsWorkflow
    BY <1>1, <1>4 DEF AwaitsWorkflow
  <1>11. NeedsNobody /\ AwaitsWorkflow => NeedsNobody'
    BY <1>1, <1>8 DEF NeedsNobody, AwaitsWorkflow
  <1>12. ShutdownInOrder'
    BY <1>1, <1>9, <1>10, <1>11 DEF ShutdownInv, ShutdownInOrder
  <1>13. phase' = "finished" => Posted("machineFinished")' \/ Posted("complete")'
    BY <1>1, <1>8 DEF ShutdownInv
  <1> QED
    BY <1>1, <1>5, <1>8, <1>9, <1>12, <1>13 DEF ShutdownInv

\* The end of a workflow completes a shutdown, and what it starts is not
\* what the shutdown awaited.
LEMMA FinishKeepsOrder ==
    ASSUME IInv, ShutdownInv, NEW f \in Flows, OnWorkflowFinished(f)
    PROVE  ShutdownInv'
  <1> DEFINE successor == WaitingAfterFinish(f)
  <1>1. /\ f = active /\ f # NoFlow /\ status[f] = "running"
        /\ successor \in Flows \cup {NoFlow} /\ successor # f
        /\ successor # NoFlow => status[successor] \in {"unused", "waiting"}
    BY FinishedWorkflow
  <1>2. /\ active' = successor
        /\ phase' \in {"none", "running"}
        /\ \A g \in Flows : status'[g] = status[g] \/ status'[g] \in {"running", "done"}
        /\ UNCHANGED <<awaited, shutdownRunning, uiDown, exited>>
        /\ IF shutdownRunning THEN timers' = timers + 1 ELSE timers' = timers
    <2>1. CASE successor # NoFlow
      BY <1>1, <2>1
      DEF OnWorkflowFinished, StartNewWorkflow, CompleteShutdown, IInv, TypeOK
    <2>2. CASE successor = NoFlow
      BY <1>1, <2>2
      DEF OnWorkflowFinished, FreeSlot, Outcome, CompleteShutdown, IInv, TypeOK
    <2> QED
      BY <2>1, <2>2
  <1>3. posted # <<>> /\ posted' = Tail(posted) /\ posted[1].type = "complete"
    BY Delivering DEF OnWorkflowFinished, Deliver, Event, IInv, TypeOK
  <1>4. /\ Posted("uiLoaderShutdown")' <=> Posted("uiLoaderShutdown")
        /\ Posted("uiShutdownComplete")' <=> Posted("uiShutdownComplete")
    BY <1>3, OthersStay
  <1>5. awaited # NoFlow => awaited # successor
    BY <1>1 DEF ShutdownInv
  <1>6. ~AwaitsWorkflow'
    BY <1>2, <1>5 DEF AwaitsWorkflow
  <1>7. shutdownRunning => Closing'
    BY <1>2 DEF Closing, IInv, TypeOK
  <1>8. ~shutdownRunning => (Closing' <=> Closing)
    BY <1>2, <1>4 DEF Closing
  <1>9. awaited # NoFlow => status'[awaited] \in {"running", "done"}
    BY <1>2 DEF ShutdownInv, IInv, TypeOK
  <1> QED
    BY <1>2, <1>4, <1>6, <1>7, <1>8, <1>9 DEF ShutdownInv, ShutdownInOrder

\* The first quit kills what runs or closes at once; later ones kill again.
LEMMA QuitKeepsOrder ==
    ASSUME IInv, ShutdownInv, DoShutdown PROVE ShutdownInv'
  <1>1. /\ UNCHANGED <<active, phase, posted, uiDown, exited>>
        /\ shutdownRunning' = TRUE
        /\ awaited' = IF shutdownRunning THEN awaited ELSE active
    BY DEF DoShutdown
  <1>2. \A t : Posted(t)' <=> Posted(t)
    BY <1>1 DEF Posted, Places
  <1>3. \A g \in Flows : status[g] \in {"running", "done"} => status'[g] = status[g]
    BY DEF DoShutdown, WorkflowToAwait, IInv, RequestsAccounted, SlotsAccounted
  <1>4. active # NoFlow => status[active] = "running"
    BY DEF IInv, TypeOK, RequestsAccounted, SlotsAccounted
  <1>5. awaited' # NoFlow => status'[awaited'] \in {"running", "done"}
    BY <1>1, <1>3, <1>4 DEF ShutdownInv, IInv, TypeOK
  <1>6. CASE active # NoFlow
    <2>1. killed' = TRUE /\ approved' = TRUE /\ timers' = timers
      BY <1>6 DEF DoShutdown, WorkflowToAwait, KillWorkflow
    <2>2. Closing' <=> Closing
      BY <1>1, <1>2, <2>1 DEF Closing
    <2>3. NeedsNobody'
      BY <1>1, <1>2, <2>1 DEF NeedsNobody, ShutdownInv
    <2>4. CASE shutdownRunning
      <3>1. AwaitsWorkflow' <=> AwaitsWorkflow
        BY <1>1, <2>4 DEF AwaitsWorkflow
      <3> QED
        BY <1>1, <1>2, <1>5, <2>2, <2>3, <2>4, <3>1 DEF ShutdownInv, ShutdownInOrder
    <2>5. CASE ~shutdownRunning
      <3>1. AwaitsWorkflow' /\ ~Closing'
        BY <1>1, <1>6, <2>2, <2>5 DEF AwaitsWorkflow, ShutdownInv
      <3> QED
        BY <1>1, <1>2, <1>5, <2>3, <3>1 DEF ShutdownInv, ShutdownInOrder
    <2> QED
      BY <2>4, <2>5
  <1>7. CASE active = NoFlow
    <2>1. timers' = timers + 1
      BY <1>7 DEF DoShutdown, WorkflowToAwait, CompleteShutdown
    <2>2. Closing' /\ ~AwaitsWorkflow'
      BY <1>1, <1>7, <2>1 DEF Closing, AwaitsWorkflow, IInv, TypeOK
    <2> QED
      BY <1>1, <1>2, <1>5, <2>2 DEF ShutdownInv, ShutdownInOrder
  <1> QED
    BY <1>6, <1>7

\* The chain of the closing hands over without a gap.
LEMMA ClosingKeepsOrder ==
    ASSUME IInv, ShutdownInv,
           ShutdownTick \/ UILoaderShutdown \/ OnUILoaderShutdownComplete
    PROVE  ShutdownInv'
  <1> DEFINE load == Event("uiLoaderShutdown", NoFlow)
  <1> DEFINE done == Event("uiShutdownComplete", NoFlow)
  <1>1. /\ posted \in Seq(Events) /\ load \in Events /\ done \in Events
        /\ load.type = "uiLoaderShutdown" /\ done.type = "uiShutdownComplete"
    BY EventTyped DEF IInv, TypeOK, EventTypes, Event
  <1>2. UNCHANGED <<active, awaited, killed, phase, approved, shutdownRunning, status>>
    BY DEF ShutdownTick, UILoaderShutdown, OnUILoaderShutdownComplete, workflow
  <1>3. Closing
    BY <1>1, Delivering DEF ShutdownTick, UILoaderShutdown, OnUILoaderShutdownComplete,
       Deliver, Closing, Posted, Places
  <1>4. /\ Posted("machineFinished")' <=> Posted("machineFinished")
        /\ Posted("complete")' <=> Posted("complete")
        /\ Closing'
        /\ uiDown' => Posted("uiShutdownComplete")' \/ exited'
    <2>1. CASE ShutdownTick
      <3>1. UNCHANGED <<uiDown, exited>>
        BY <2>1 DEF ShutdownTick
      <3>2. CASE UNCHANGED <<timers, posted>>
        BY <1>3, <2>1, <3>1, <3>2 DEF Closing, ShutdownInv, Posted, Places
      <3>3. CASE posted' = Append(posted, load)
        BY <1>1, <3>1, <3>3, HoldsAppend, HoldsPosted DEF Closing, ShutdownInv
      <3> QED
        BY <2>1, <3>2, <3>3 DEF ShutdownTick
    <2>2. CASE UILoaderShutdown
      <3>1. posted # <<>> /\ posted[1] = load /\ uiDown' = TRUE /\ exited' = exited
        BY <1>1, <2>2, Delivering DEF UILoaderShutdown
      <3>2. \A t : t # "uiLoaderShutdown" => (Holds(Tail(posted), t) <=> Holds(posted, t))
        BY <1>1, <3>1, HoldsTail
      <3>3. CASE uiDown /\ posted' = Tail(posted)
        BY <3>1, <3>2, <3>3, HoldsPosted DEF Closing, ShutdownInv
      <3>4. CASE posted' = Append(Tail(posted), done)
        <4>1. Tail(posted) \in Seq(Events)
          BY <1>1, <3>1, Delivering
        <4>2. \A t : Holds(posted', t) <=> Holds(Tail(posted), t) \/ done.type = t
          BY <1>1, <3>4, <4>1, HoldsAppend
        <4> QED
          BY <1>1, <3>2, <4>2, HoldsPosted DEF Closing
      <3> QED
        BY <2>2, <3>3, <3>4 DEF UILoaderShutdown
    <2>3. CASE OnUILoaderShutdownComplete
      <3>1. /\ posted # <<>> /\ posted[1] = done /\ posted' = Tail(posted)
            /\ exited' = TRUE
        BY <1>1, <2>3, Delivering DEF OnUILoaderShutdownComplete, Deliver
      <3> QED
        BY <1>1, <3>1, OthersStay DEF Closing
    <2> QED
      BY <2>1, <2>2, <2>3
  <1>5. (AwaitsWorkflow' <=> AwaitsWorkflow) /\ shutdownRunning /\ ~AwaitsWorkflow
    BY <1>2, <1>3 DEF AwaitsWorkflow, ShutdownInv, ShutdownInOrder
  <1> QED
    BY <1>2, <1>4, <1>5 DEF ShutdownInv, ShutdownInOrder

\* The state machine of the active workflow moves on.
LEMMA WorkflowKeepsOrder ==
    ASSUME IInv, ShutdownInv,
           \/ WorkflowReachesFinalState \/ UserApproves \/ FinalStateRun
           \/ \E f \in Flows : FireComplete(f)
    PROVE  ShutdownInv'
  <1>1. UNCHANGED <<active, awaited, killed, status, timers, uiDown, exited,
                    shutdownRunning>>
    BY DEF WorkflowReachesFinalState, UserApproves, FinalStateRun, FireComplete,
       closing, workflow
  <1>2. /\ Posted("uiLoaderShutdown")' <=> Posted("uiLoaderShutdown")
        /\ Posted("uiShutdownComplete")' <=> Posted("uiShutdownComplete")
        /\ phase' = "finished" => Posted("machineFinished")' \/ Posted("complete")'
        /\ NeedsNobody => (phase' = "final" => approved')
    <2>1. CASE WorkflowReachesFinalState \/ UserApproves
      BY <2>1 DEF WorkflowReachesFinalState, UserApproves, Posted, Places, NeedsNobody
    <2>2. CASE FinalStateRun
      <3>1. Event("machineFinished", active) \in Events
        BY EventTyped DEF IInv, TypeOK, EventTypes
      <3>2. \A t : Posted(t)' <=> Posted(t) \/ t = "machineFinished"
        BY <2>2, <3>1, HoldsAppend, HoldsPosted DEF FinalStateRun, Event, IInv, TypeOK
      <3> QED
        BY <2>2, <3>2 DEF FinalStateRun
    <2>3. CASE \E f \in Flows : FireComplete(f)
      <3>1. PICK f \in Flows : FireComplete(f)
        BY <2>3
      <3>2. /\ posted # <<>> /\ posted[1].type = "machineFinished"
            /\ posted' = Append(Tail(posted), Event("complete", f))
            /\ Event("complete", f) \in Events /\ Tail(posted) \in Seq(Events)
            /\ UNCHANGED workflow
        BY <3>1, Delivering, EventTyped DEF FireComplete, Event, IInv, TypeOK, EventTypes
      <3>3. \A t : Holds(posted', t) <=> Holds(Tail(posted), t) \/ t = "complete"
        BY <3>2, HoldsAppend DEF Event
      <3>4. \A t : t # "machineFinished" => (Holds(Tail(posted), t) <=> Holds(posted, t))
        BY <3>2, HoldsTail DEF IInv, TypeOK
      <3> QED
        BY <3>2, <3>3, <3>4, HoldsPosted DEF workflow, NeedsNobody
    <2> QED
      BY <2>1, <2>2, <2>3
  <1>3. (Closing' <=> Closing) /\ (AwaitsWorkflow' <=> AwaitsWorkflow)
    BY <1>1, <1>2 DEF Closing, AwaitsWorkflow
  <1>4. NeedsNobody => NeedsNobody'
    BY <1>1, <1>2 DEF NeedsNobody
  <1> QED
    BY <1>1, <1>2, <1>3, <1>4 DEF ShutdownInv, ShutdownInOrder

LEMMA NextKeepsOrder ==
    ASSUME IInv, ShutdownInv, [Next]_vars PROVE ShutdownInv'
  <1>1. CASE \E r \in Requests, k \in Kinds : PostRequest(r, k)
    <2>1. PICK r \in Requests, k \in Kinds : PostRequest(r, k)
      BY <1>1
    <2> DEFINE f == <<r, FALSE>>
    <2>2. /\ f \in Flows /\ status[f] = "unused" /\ Outcome(f, "posted")
          /\ posted' = Append(posted, Event("request", f))
          /\ Event("request", f) \in Events /\ Event("request", f).type = "request"
          /\ UNCHANGED <<active, awaited, workflow, closing, shutdownRunning>>
      BY <2>1, EventTyped DEF PostRequest, Flows, EventTypes, Event
    <2>3. \A t \in EventTypes \ {"request"} : Posted(t)' <=> Posted(t)
      BY <2>2, HoldsAppend, HoldsPosted DEF IInv, TypeOK
    <2>4. awaited # NoFlow => status'[awaited] \in {"running", "done"}
      BY <2>2 DEF Outcome, ShutdownInv, IInv, TypeOK
    <2> QED
      BY <2>2, <2>3, <2>4, QuietForShutdown DEF workflow, closing
  <1>2. CASE \E f \in Flows : \/ OnChangePinRequested(f)
                              \/ OnSimpleRequest(f)
                              \/ OnAuthenticationContextRequest(f)
    BY <1>2, RequestsKeepOrder
  <1>3. CASE \E f \in Flows : OnWorkflowFinished(f)
    BY <1>3, FinishKeepsOrder
  <1>4. CASE DoShutdown
    BY <1>4, QuitKeepsOrder
  <1>5. CASE ShutdownTick \/ UILoaderShutdown \/ OnUILoaderShutdownComplete
    BY <1>5, ClosingKeepsOrder
  <1>6. CASE \/ WorkflowReachesFinalState \/ UserApproves \/ FinalStateRun
             \/ \E f \in Flows : FireComplete(f)
    BY <1>6, WorkflowKeepsOrder
  <1>7. CASE UNCHANGED vars
    <2>1. UNCHANGED <<active, shutdownRunning, status, workflow, posted, closing, awaited>>
      BY <1>7 DEF vars
    <2>2. \A t : Posted(t)' <=> Posted(t)
      BY <2>1 DEF Posted, Places
    <2> QED
      BY <2>1, <2>2, QuietForShutdown DEF ShutdownInv, workflow, closing
  <1> QED
    BY <1>1, <1>2, <1>3, <1>4, <1>5, <1>6, <1>7 DEF Next

\* A shutdown keeps its order: the workflow the first quit found is killed and
\* ends by itself before anything is torn down, and from then on the closing
\* is under way until the program has left (doShutdown, completeShutdown,
\* onWorkflowFinished).
THEOREM ShutdownKeepsOrder == Spec => []ShutdownInOrder
  <1>1. Init => ShutdownInv
    BY DEF Init, ShutdownInv, ShutdownInOrder, Closing, Posted, Places
  <1>2. IInv /\ ShutdownInv /\ [Next]_vars => ShutdownInv'
    BY NextKeepsOrder
  <1>3. ShutdownInv => ShutdownInOrder
    BY DEF ShutdownInv
  <1> QED
    BY <1>1, <1>2, <1>3, InductiveInvariant, PTL DEF Spec

-----------------------------------------------------------------------------
(* AppController implements the abstract slot *)

Started == {f \in Flows : status[f] \in {"running", "done"}}

\* A step that changes neither the slot nor who was started is a stutter.
LEMMA SlotStutter ==
    ASSUME UNCHANGED <<active, waiting>>, Started' = Started
    PROVE  UNCHANGED Slot!slotVars
  BY DEF Slot!slotVars, Started

\* A request taken from the queue starts, waits, or leaves the slot alone.
LEMMA RequestMapsToSlot ==
    ASSUME IInv, NEW f \in Flows,
           \/ OnChangePinRequested(f)
           \/ OnSimpleRequest(f)
           \/ OnAuthenticationContextRequest(f)
    PROVE  [Slot!Next]_(Slot!slotVars)
  <1> USE DEF IInv
  <1>1. /\ Deliver("request", f)
        /\ \/ active = NoFlow /\ active' = f /\ waiting' = waiting /\ Outcome(f, "running")
           \/ /\ active # NoFlow /\ active' = active
              /\ waiting = NoFlow /\ waiting' = f /\ Outcome(f, "waiting")
           \/ /\ active' = active /\ waiting' = waiting
              /\ Outcome(f, "ignored") \/ Outcome(f, "rejected")
    BY DEF OnChangePinRequested, OnSimpleRequest, OnAuthenticationContextRequest,
       CanStartNewAction, StartNewWorkflow, WaitingPlaceFree, SlotConsistent
  <1>2. status[f] = "posted"
    BY <1>1, RequestTaken
  <1>3. f \notin Started
    BY <1>2 DEF Started
  <1>4. CASE active = NoFlow /\ active' = f /\ waiting' = waiting /\ Outcome(f, "running")
    <2>1. Started' = Started \cup {f}
      BY <1>4 DEF Started, Outcome, TypeOK
    <2>2. Slot!Start(f)
      BY <1>3, <1>4, <2>1 DEF Slot!Start, Slot!Fresh, Started
    <2> QED
      BY <2>2 DEF Slot!Next
  <1>5. CASE /\ active # NoFlow /\ active' = active
             /\ waiting = NoFlow /\ waiting' = f /\ Outcome(f, "waiting")
    <2>1. Started' = Started
      BY <1>2, <1>5 DEF Started, Outcome, TypeOK
    <2>2. Slot!Enqueue(f)
      BY <1>3, <1>5, <2>1 DEF Slot!Enqueue, Slot!Fresh, Started
    <2> QED
      BY <2>2 DEF Slot!Next
  <1>6. CASE /\ active' = active /\ waiting' = waiting
             /\ Outcome(f, "ignored") \/ Outcome(f, "rejected")
    <2>1. Started' = Started
      BY <1>2, <1>6 DEF Started, Outcome, TypeOK
    <2> QED
      BY <1>6, <2>1, SlotStutter
  <1> QED
    BY <1>1, <1>4, <1>5, <1>6

LEMMA FinishMapsToSlot ==
    ASSUME IInv, NEW f \in Flows, OnWorkflowFinished(f)
    PROVE  Slot!Next
  <1> DEFINE successor == WaitingAfterFinish(f)
  <1> USE DEF IInv
  <1>1. /\ f = active /\ f # NoFlow /\ status[f] = "running"
        /\ successor \in Flows \cup {NoFlow} /\ successor # f
        /\ successor = waiting \/ waiting = NoFlow
        /\ successor # NoFlow => status[successor] \in {"unused", "waiting"}
    BY FinishedWorkflow
  <1>2. waiting' = NoFlow
    BY DEF OnWorkflowFinished
  <1>3. CASE successor # NoFlow
    <2>1. /\ active' = successor
          /\ status' = [status EXCEPT ![f] = "done", ![successor] = "running"]
      BY <1>3 DEF OnWorkflowFinished, StartNewWorkflow
    <2>2. Started' = Started \cup {successor} /\ successor \notin Started /\ successor \in Flows
      BY <1>1, <1>3, <2>1 DEF Started, TypeOK
    <2>3. PICK g \in Flows \cup {NoFlow} : g = successor
      BY <2>2
    <2>4. Slot!Finish(g)
      BY <1>1, <1>2, <1>3, <2>1, <2>2, <2>3, NoFlowIsNoFlow
      DEF Slot!Finish, Slot!Fresh, Started
    <2> QED
      BY <2>4 DEF Slot!Next
  <1>4. CASE successor = NoFlow
    <2>1. active' = NoFlow /\ status' = [status EXCEPT ![f] = "done"]
      BY <1>4 DEF OnWorkflowFinished, FreeSlot, Outcome
    <2>2. Started' = Started
      BY <1>1, <2>1 DEF Started, TypeOK
    <2>3. Slot!Finish(NoFlow)
      BY <1>1, <1>2, <1>4, <2>1, <2>2 DEF Slot!Finish, Slot!Fresh, Started
    <2>4. NoFlow \in Flows \cup {NoFlow}
      OBVIOUS
    <2>5. \E g \in Flows \cup {NoFlow} : Slot!Finish(g)
      BY <2>3, <2>4
    <2> QED
      BY <2>5 DEF Slot!Next
  <1> QED
    BY <1>3, <1>4

LEMMA ShutdownMapsToSlot ==
    ASSUME IInv, DoShutdown PROVE [Slot!Next]_(Slot!slotVars)
  <1> USE DEF IInv, RequestsAccounted
  <1>1. active' = active
    BY DEF DoShutdown
  <1>2. CASE WorkflowToAwait
    <2>1. /\ waiting' = NoFlow
          /\ status' = [f \in Flows |-> IF f = waiting THEN "dropped" ELSE status[f]]
      BY <1>2 DEF DoShutdown
    <2>2. \A f \in Flows : f = waiting => status[f] = "waiting"
      BY DEF SlotsAccounted
    <2>3. Started' = Started
      BY <2>1, <2>2 DEF Started
    <2>4. Slot!Forget
      BY <1>1, <2>1, <2>3 DEF Slot!Forget, Started
    <2> QED
      BY <2>4 DEF Slot!Next
  <1>3. CASE ~WorkflowToAwait
    <2>1. waiting' = waiting /\ status' = status
      BY <1>3 DEF DoShutdown
    <2>2. Started' = Started
      BY <2>1 DEF Started
    <2> QED
      BY <1>1, <2>1, <2>2, SlotStutter
  <1> QED
    BY <1>2, <1>3

\* AppController behaves like a slot for one workflow with one waiting place:
\* one workflow at a time, none started twice, the waiting one started in the
\* step that ends the running one.
THEOREM ImplementsWorkflowSlot == Spec => SlotSpec
  <1>1. Init => Slot!Init
    <2>1. Init => Started = {}
      BY DEF Init, Started
    <2> QED
      BY <2>1 DEF Init, Slot!Init, Started
  <1>2. ASSUME IInv, [Next]_vars PROVE [Slot!Next]_(Slot!slotVars)
    <2>1. CASE \E f \in Flows : \/ OnChangePinRequested(f)
                                \/ OnSimpleRequest(f)
                                \/ OnAuthenticationContextRequest(f)
      BY <1>2, <2>1, RequestMapsToSlot
    <2>2. CASE \E f \in Flows : OnWorkflowFinished(f)
      BY <1>2, <2>2, FinishMapsToSlot
    <2>3. CASE DoShutdown
      BY <1>2, <2>3, ShutdownMapsToSlot
    <2>4. CASE \E r \in Requests, k \in Kinds : PostRequest(r, k)
      <3>1. PICK r \in Requests : /\ status[<<r, FALSE>>] = "unused"
                                  /\ Outcome(<<r, FALSE>>, "posted")
                                  /\ UNCHANGED <<active, waiting>>
        BY <2>4 DEF PostRequest
      <3>2. Started' = Started
        BY <1>2, <3>1 DEF Started, Outcome, IInv, TypeOK
      <3> QED
        BY <3>1, <3>2, SlotStutter
    <2>5. CASE \/ \E f \in Flows : FireComplete(f)
               \/ WorkflowReachesFinalState \/ UserApproves \/ FinalStateRun
               \/ ShutdownTick \/ UILoaderShutdown \/ OnUILoaderShutdownComplete
               \/ UNCHANGED vars
      <3>1. UNCHANGED <<active, waiting, status>>
        BY <2>5 DEF FireComplete, WorkflowReachesFinalState, UserApproves, FinalStateRun,
           ShutdownTick, UILoaderShutdown, OnUILoaderShutdownComplete,
           vars
      <3>2. Started' = Started
        BY <3>1 DEF Started
      <3> QED
        BY <3>1, <3>2, SlotStutter
    <2> QED
      BY <1>2, <2>1, <2>2, <2>3, <2>4, <2>5 DEF Next
  <1>3. IInv /\ [Next]_vars => [Slot!Next]_(Slot!slotVars)
    BY <1>2
  <1> QED
    BY <1>1, <1>3, InductiveInvariant, PTL DEF Spec, SlotSpec, Slot!Spec
=============================================================================
