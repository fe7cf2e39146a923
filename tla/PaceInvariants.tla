-------------------------- MODULE PaceInvariants --------------------------
(***************************************************************************)
(* The inductive invariants of PaceChannel and ChangePin: what the states, *)
(* the queue of events and the commands of the reader thread have to do    *)
(* with each other.  PaceChannelProofs proves them.                        *)
(***************************************************************************)
EXTENDS ChangePin

\* What is stored where.  A password may be none of the three known types.
PaceTypes == Types \cup {"UNKNOWN"}
PaceEvents ==
    [type : {"run"}, state : Inner \cup Left]
    \cup [type : NewsTypes, reader : Readers, card : Secrets, counter : Counters,
          subscribed : BOOLEAN]
    \cup [type : Ops, reader : Readers, password : PaceTypes, code : Codes, wanted : BOOLEAN]
PaceJobs == [op : Ops, reader : Readers, password : PaceTypes, secret : Secrets,
             wanted : BOOLEAN]
MachineTyped ==
    state \in Inner \cup Left /\ events \in Seq(PaceEvents) /\ jobs \in Seq(PaceJobs)
DataTyped ==
    /\ pw \in [Types \cup {"NEW"} -> Secrets] /\ pwType \in PaceTypes
    /\ conn \in Connections /\ info \in [Readers -> Counters]
    /\ session \in [Readers -> Secrets \cup {"dead"}]
    /\ slot \in [Readers -> Secrets] /\ counter \in [Cards -> Tries]
-----------------------------------------------------------------------------
(* A cancellation may take the composite state to its end without run() of   *)
(* StateClearPacePasswords.  That it is called nevertheless, and before the  *)
(* next state of the workflow, is a matter of the order of the queue.        *)

\* The passwords are gone ("gone"), or run() of a state that clears them comes
\* first: before run() of the state that follows an abort, and as long as a state
\* is active from which there is no way but to that.
Clearing == {Run("ClearPacePasswordsOnError"), Run("ClearPacePasswordsBeforeDestroy")}
Closing == {"ClearPacePasswordsOnError", "ClearPacePasswordsBeforeDestroy",
            "DestroyPace", "Aborted"}
Clears(queue) == \E i \in DOMAIN queue : queue[i] \in Clearing
InOrder(queue, gone) ==
    \A j \in DOMAIN queue : queue[j] = Run("Aborted") =>
        gone \/ \E i \in 1..(j - 1) : queue[i] \in Clearing
QueueOK(queue, gone, s) ==
    /\ InOrder(queue, gone)
    /\ s \in Closing => gone \/ Clears(queue)
    /\ s # "Aborted" => \A i \in DOMAIN queue : queue[i] # Run("Aborted")
PaceIInv == MachineTyped /\ DataTyped /\ QueueOK(events, pw = NoPasswords, state)
-----------------------------------------------------------------------------
(* What the states rely on when they use the connection or a password is     *)
(* that one thing is under way at a time (Control): run() of the active      *)
(* state, or the command it waits for, or the result of that.  That holds    *)
(* until there is an error.  A cancellation may then leave a result or run() *)
(* of another state in the queue, but never one that would use a connection  *)
(* that is gone.  It takes TypesFixed: a user who changes the types of       *)
(* readers starts the states anew whatever is under way.                     *)

\* What the queues are about: run() of which states, results and commands of
\* which kinds.
Kind(e) == IF e.type = "run" THEN e.state ELSE e.type
Kinds(queue) == [i \in DOMAIN queue |-> Kind(queue[i])]
Commands(js) == [i \in DOMAIN js |-> js[i].op]
AllKinds == Inner \cup Left \cup NewsTypes \cup Ops

\* No element of a sequence is in K; at most one is.
None(seq, K) == \A i \in DOMAIN seq : seq[i] \notin K
Few(seq, K) == \A i, j \in DOMAIN seq : seq[i] \in K /\ seq[j] \in K => i = j

CoreOps   == {"update", "pace", "destroy"}
CoreKinds == Inner \cup Left \cup CoreOps
Aside     == NewsTypes \cup {"connect"}
Ending == {"MaintainCardConnection", "ClearPacePasswordsOnError", "Aborted", "Established"}

\* What a state waits for: its own run() or the result of its command.
Own(s) == {s} \cup {op \in CoreOps : s \in Waiting[op]}
Empty(ks, os) == None(ks, CoreKinds) /\ None(os, CoreOps)
Orderly(ks, os, s) ==
    /\ Few(ks, CoreKinds) /\ Few(os, CoreOps)
    /\ None(ks, CoreKinds) \/ None(os, CoreOps)
    /\ None(ks, CoreKinds \ Own(s)) /\ None(os, CoreOps \ Own(s))

\* Nobody waits for a connection.
Unheard(queue, js) ==
    /\ \A i \in DOMAIN queue : queue[i].type = "connect" => ~queue[i].wanted
    /\ \A i \in DOMAIN js : js[i].op = "connect" => ~js[i].wanted
NoConnect == "ConnectCard" \notin armed /\ Unheard(events, jobs)

HasConn == {"VerifyRetryCounter", "PreparePace", "EnterPacePassword", "EstablishPaceChannel",
            "ClearPacePasswordsBeforeDestroy", "DestroyPace"}
Chosen == conn.reader \notin BasicReaders \/ Password(pwType) # NoCard
NoUpdate == None(Kinds(events), {"update"}) /\ None(Commands(jobs), {"update"})
Normal ==
    /\ Orderly(Kinds(events), Commands(jobs), state)
    /\ "SelectReader" \in armed => state = "SelectReader" /\ None(Kinds(events), CoreKinds)
    /\ conn # NoConn \/ NoUpdate
    /\ ~killed /\ state \notin {"ClearPacePasswordsOnError", "Aborted"}
    /\ NoConnect \/ (state = "ConnectCard" /\ None(Kinds(events), CoreKinds))
    /\ state \in HasConn => conn # NoConn
    /\ state = "EnterPacePassword" =>
           pwType \in Types /\ (Chosen \/ None(Kinds(events), {"EnterPacePassword"}))
    /\ state = "EstablishPaceChannel" => Chosen

Gone(ks, os, c) ==
    /\ None(ks, {"pace"}) /\ None(os, {"pace"})
    /\ \/ None(ks, {"DestroyPace"})
       \/ c # NoConn /\ None(ks, {"update", "UpdateRetryCounter"}) /\ None(os, {"update"})
Flying(ks, os) ==
    /\ None(ks, CoreKinds \ (Ending \cup {"pace"})) /\ None(os, {"update", "destroy"})
    /\ Few(ks, {"pace"}) /\ Few(os, {"pace"})
    /\ None(ks, {"pace"}) \/ None(os, {"pace"})
Cancelled ==
    /\ state \in Ending \cup {"DestroyPace"}
    /\ \/ Gone(Kinds(events), Commands(jobs), conn)
       \/ Flying(Kinds(events), Commands(jobs)) /\ NoConnect /\ conn # NoConn
Control == IF error THEN Cancelled ELSE Normal
-----------------------------------------------------------------------------
(* What the states know of a card's tries is a copy of a copy: the Reader    *)
(* asks the card, and tells the CardConnection in an event.  TriesInv says   *)
(* when the copies can be trusted: the news on their way end with what the   *)
(* Reader knows (Heard), a Reader with a live session has asked the card     *)
(* (SeenKnown), and from the result of an update on nothing is on its way    *)
(* that could change what the connection knows (Followed), until the PIN is  *)
(* with the card (PinSafe).  It takes CardsAreActive.                        *)

\* A deactivated card ends the workflow, unless the program is used as an SDK:
\* then StateConnectCard keeps the connection and waits for another card.  When
\* connecting that card fails, the old connection goes on with a retry counter
\* that nobody has fetched again.
CardsAreActive == CanAllowed \/ ~UsedAsSDK \/ Deactivated = {}

\* News the CardConnection will take over, and what it will know by then.
Told(e, r) == e.type \in NewsTypes /\ e.subscribed /\ e.reader = r
Quiet(queue, r) == \A i \in DOMAIN queue : ~Told(queue[i], r)
QuietAfter(queue, k, r) == \A i \in DOMAIN queue : i > k => ~Told(queue[i], r)
Tracks(queue, r, last, known) ==
    \/ Quiet(queue, r) /\ last = known
    \/ \E k \in DOMAIN queue : /\ Told(queue[k], r) /\ queue[k].counter = known
                               /\ QuietAfter(queue, k, r)
Heard == conn # NoConn => Tracks(events, conn.reader, conn.counter, info[conn.reader])
SeenKnown ==
    /\ seen \in [Readers -> BOOLEAN]
    /\ \A r \in Readers : (seen[r] => info[r] # Unknown) /\ (Alive(r) => seen[r])

\* Connections are not made while there is one.
Unconnected == {"SelectReader", "ConnectCard", "UnfortunateCardPosition"}
Linked ==
    ~error =>
        /\ conn # NoConn => \A i \in DOMAIN jobs : jobs[i].op # "connect"
        /\ state \in Unconnected => conn = NoConn

\* What is under way is for the connection and waited for.
Ours(job) == job.wanted /\ conn # NoConn /\ job.reader = conn.reader
Waited ==
    ~error => /\ \A i \in DOMAIN jobs : jobs[i].op \in CoreOps => Ours(jobs[i])
              /\ \A i \in DOMAIN events : events[i].type \in CoreOps => events[i].wanted

\* The last result before the end of a channel was not a success.
Resumed ==
    /\ ~error /\ state \in {"ClearPacePasswordsBeforeDestroy", "DestroyPace"} => lastPace # "OK"
    /\ pwType = "PIN" => ~CanAllowed

\* The card's tries are those the connection knows; a CAN that counts has been
\* accepted since; the password is the one for that number of tries.
Settled(queue, c, tries) == Quiet(queue, c.reader) /\ c.counter = tries
Unlocked(c, accepted) == c.can => accepted = "CAN" /\ c.counter = 1
Fitting(told, c, type) ==
    /\ told.counter = c.counter /\ type \in Types
    /\ type = "PIN" => c.counter \in {2, 3} \/ c.can
    /\ type = "CAN" => c.counter = 1
    /\ type = "PUK" => c.counter = 0
Certain(s, result) ==
    \/ s \in {"VerifyRetryCounter", "PreparePace", "EnterPacePassword", "EstablishPaceChannel"}
    \/ (s = "MaintainCardConnection" /\ result = "OK")
Uncertain(s, result) ==
    \/ s \in {"UpdateRetryCounter", "ClearPacePasswordsBeforeDestroy", "DestroyPace"}
    \/ (s = "MaintainCardConnection" /\ result # "OK")
ByState(s, queue, result, told, type, c, tries, accepted) ==
    /\ Certain(s, result) => Settled(queue, c, tries) /\ Unlocked(c, accepted)
    /\ Uncertain(s, result) => ~c.can
    /\ s = "PreparePace" => told.counter = c.counter
    /\ s \in {"EnterPacePassword", "EstablishPaceChannel"} => Fitting(told, c, type)

\* The results on their way, and the attempt that has yet to be made.
Answers(queue, c, known, tries, accepted) ==
    \A k \in DOMAIN queue :
        /\ queue[k].type = "update" /\ queue[k].code = "OK" =>
               known = tries /\ QuietAfter(queue, k, c.reader)
        /\ queue[k].type = "pace" =>
               /\ queue[k].password \in Types
               /\ queue[k].password = "CAN" /\ queue[k].code = "OK" =>
                      Settled(queue, c, tries) /\ c.counter = 1 /\ accepted = "CAN"
               /\ queue[k].password = "PUK" => ~c.can
Attempts(js, queue, c, tries) ==
    \A k \in DOMAIN js : js[k].op = "pace" =>
        /\ js[k].password \in Types
        /\ js[k].password = "CAN" => Settled(queue, c, tries) /\ c.counter = 1
        /\ js[k].password = "PUK" => ~c.can
Trying == \/ \E k \in DOMAIN events : events[k].type = "pace"
          \/ \E k \in DOMAIN jobs : jobs[k].op = "pace"
Watched == ~CanAllowed /\ conn # NoConn /\ Alive(conn.reader)
Followed ==
    LET tries == counter[session[conn.reader]]
        accepted == opened[conn.reader]
    IN  /\ Trying \/ ByState(state, events, lastPace, expected, pwType, conn, tries, accepted)
        /\ Answers(events, conn, info[conn.reader], tries, accepted)
        /\ Attempts(jobs, events, conn, tries)

\* A PIN on its way to a card that is still there.
PinSafe ==
    \A k \in DOMAIN jobs : jobs[k].op = "pace" /\ jobs[k].password = "PIN" =>
        LET r == jobs[k].reader
            tries == counter[session[r]]
        IN  /\ \A i \in DOMAIN jobs : jobs[i].op # "connect"
            /\ Alive(r) => /\ tries = expected.counter
                           /\ tries \in {2, 3} \/ (tries = 1 /\ opened[r] = "CAN")

TriesKept ==
    /\ Linked /\ Waited /\ Resumed /\ PinSafe
    /\ ~error /\ Watched => Followed

\* What the machine knows of the tries, with all it rests on.
OpenedTyped == opened \in [Readers -> {"none", "CAN", "PIN"}]
TriesInv == OpenedTyped /\ SeenKnown /\ Heard /\ TriesKept
-----------------------------------------------------------------------------
(* The PIN change around it, whatever types of readers the user chooses.     *)
(*                                                                           *)
(* A PIN change that ends well has changed a PIN (ChangedInv), the passwords *)
(* are forgotten before it ends (ForgottenInv), and what is left of its      *)
(* connections is closed (ClosedInv): by the end of the scan, or because     *)
(* nobody waits for the result of a connect any more.  The last two need the *)
(* order of the queue (LastRun).                                             *)

Replies == Ops \cup {"setPin"}
ChangeStates == Inner \cup Left \cup Outer
ChangeEvents ==
    [type : {"run"}, state : ChangeStates]
    \cup [type : NewsTypes, reader : Readers, card : Secrets, counter : Counters,
          subscribed : BOOLEAN]
    \cup [type : Replies, reader : Readers, password : PaceTypes, code : Codes,
          wanted : BOOLEAN]
ChangeJobs ==
    [op : Replies, reader : Readers, password : PaceTypes, secret : Secrets, wanted : BOOLEAN]
    \cup [op : {"stopScan"}, reader : {NoReader}, password : PaceTypes, secret : Secrets,
          wanted : BOOLEAN]
ChangeTyped ==
    state \in ChangeStates /\ events \in Seq(ChangeEvents) /\ jobs \in Seq(ChangeJobs)

Due(queue, s) == \E i \in DOMAIN queue : queue[i] = Run(s)
Concluding == {"DestroyPaceFinal", "Aborted", "UpdateRetryCounterFinal", "CleanUpReaderManager",
           "Final"}
ChangedInv ==
    /\ \A i \in DOMAIN events :
           events[i].type = "setPin" /\ events[i].code = "OK" => renewed # {}
    /\ state \in Concluding /\ ~error => renewed # {}
    /\ state = "ClearPacePasswordsOnError" \/ Due(events, "ClearPacePasswordsOnError") => error

Cleared == Concluding \ {"DestroyPaceFinal"}
ForgottenInv ==
    /\ state \in Cleared => pw = NoPasswords \/ Due(events, "Aborted")
    /\ \A j \in DOMAIN events : events[j] = Run("Final") =>
           pw = NoPasswords \/ \E i \in 1..(j - 1) : events[i] = Run("Aborted")

LastRun ==
    /\ state = "CleanUpReaderManager" => Due(events, "CleanUpReaderManager")
    /\ state # "Final" => ~Due(events, "Final")
    /\ \A i, j \in DOMAIN events : events[i] = Run("Final") /\ i < j => events[j].type # "run"
    /\ state = "Final" /\ Due(events, "CleanUpReaderManager") => Due(events, "Final")

\* The scan has been stopped, or will be; later the workflow is over.
Cleaned == state = "Final" /\ ~Due(events, "CleanUpReaderManager")
Finished == state = "Final" /\ ~Due(events, "Final")
Opens(e, r) == e.type = "connect" /\ e.reader = r /\ e.code = "OK"
ClosedLater(r) ==
    \/ \E i \in DOMAIN jobs : jobs[i].op = "stopScan"
    \/ \E j \in DOMAIN events :
           /\ Opens(events[j], r)
           /\ \A i \in DOMAIN events : events[i] = Run("Final") => i < j
Unwaited ==
    /\ armed = {}
    /\ \A i \in DOMAIN events :
           events[i].type # "run" /\ (events[i].type \in Replies => ~events[i].wanted)
    /\ \A i \in DOMAIN jobs : ~jobs[i].wanted
ClosedInv ==
    /\ Cleaned => \A r \in Readers : session[r] \in Cards => ClosedLater(r)
    /\ Finished => Unwaited
ChangeInv ==
    ChangeTyped /\ DataTyped /\ ChangedInv /\ ForgottenInv /\ LastRun /\ ClosedInv
-----------------------------------------------------------------------------
(* A PIN change uses the connection without a look at it (FindInv).  From    *)
(* the moment the channel is open, nothing is under way that could take the  *)
(* connection away: no update of the retry counter and no PACE (KeepsConn).  *)
(* That is so because a PACE that can still succeed has the connection for   *)
(* itself (Opening), whatever else is cancelled, and what runs later is      *)
(* behind it in the queue (InTime).  Without an error one thing is under way *)
(* at a time but for states that wait for a card or the user (OneAtATime).   *)

Idle == {"SelectReader", "ConnectCard"} \cup WaitsForUser
Serial == CoreOps \cup {"setPin"}
Core(e) == (e.type = "run" /\ e.state \notin Idle) \/ e.type \in Serial
Belongs(e, s) == IF e.type = "run" THEN e.state = s ELSE s \in Waiting[e.type]
OneAtATime ==
    /\ \A i \in DOMAIN events : Core(events[i]) => Belongs(events[i], state)
    /\ \A i \in DOMAIN jobs : jobs[i].op \in Serial => state \in Waiting[jobs[i].op]
    /\ \A i, j \in DOMAIN events : Core(events[i]) /\ Core(events[j]) => i = j
    /\ \A i, j \in DOMAIN jobs : jobs[i].op \in Serial /\ jobs[j].op \in Serial => i = j
    /\ \A i \in DOMAIN events, j \in DOMAIN jobs : ~(Core(events[i]) /\ jobs[j].op \in Serial)

\* What may take the connection away: updates of the retry counter and the
\* end of the scan, and a PACE that fails.
Updating == {"UpdateRetryCounter", "UpdateRetryCounterFinal", "CleanUpReaderManager"}
Resets(e) == (e.type = "run" /\ e.state \in Updating) \/ (e.type = "update" /\ e.wanted)
Paced(e) == e.type = "pace" /\ e.wanted
NoResets ==
    /\ \A i \in DOMAIN events : ~Resets(events[i])
    /\ \A i \in DOMAIN jobs : ~(jobs[i].op = "update" /\ jobs[i].wanted)
PaceJob(j) == j.op = "pace" /\ j.wanted
Paces == (\E i \in DOMAIN events : Paced(events[i])) \/ \E i \in DOMAIN jobs : PaceJob(jobs[i])
OnePace ==
    /\ \A i, j \in DOMAIN events : Paced(events[i]) /\ Paced(events[j]) => i = j
    /\ \A i, j \in DOMAIN jobs : PaceJob(jobs[i]) /\ PaceJob(jobs[j]) => i = j
    /\ \A i \in DOMAIN events, j \in DOMAIN jobs : ~(Paced(events[i]) /\ PaceJob(jobs[j]))

Changing == {"Established", "EnterNewPacePin", "ChangePin", "DestroyPaceFinal"}
PaceStates == {"EstablishPaceChannel", "MaintainCardConnection", "ClearPacePasswordsOnError"}
KeepsConn == state \in Changing => conn # NoConn /\ NoResets /\ ~Paces
Opening ==
    state \in Inner /\ Paces => state \in PaceStates /\ conn # NoConn /\ NoResets /\ OnePace
InTime ==
    \A k \in DOMAIN events : events[k] \in {Run("ChangePin"), Run("DestroyPaceFinal")} =>
        conn # NoConn /\ \A i \in 1..(k - 1) : ~Resets(events[i]) /\ ~Paced(events[i])
FindInv == KeepsConn /\ Opening /\ InTime /\ (~error => OneAtATime)
=============================================================================
