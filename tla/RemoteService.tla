---------------------------- MODULE RemoteService ----------------------------
(***************************************************************************)
(* The device that serves as a card reader for another one: the WebSocket  *)
(* server with its one client (RemoteWebSocketServer), the handler of that *)
(* client's messages (ServerMessageHandler) and the workflow that asks the *)
(* user for passwords and opens PACE channels (RemoteServiceController,    *)
(* its states and RemoteServiceContext).                                   *)
(*                                                                         *)
(* The handler works at once on a message.  The workflow only hears of it  *)
(* in StateProcessRemoteMessages: a request that comes at another time is  *)
(* never answered.  Client, workflow and user meet in the context, which   *)
(* is reset when a connection opens or closes; the workflow is not told.   *)
(*                                                                         *)
(* One basic reader, and the service is in pin pad mode: else the handler  *)
(* refuses passwords and the workflow has nothing to do.  What the card    *)
(* answers is left open.  "Crashed" is where an assertion of the source    *)
(* fails or a null pointer is dereferenced; the model ends there.          *)
(***************************************************************************)
EXTENDS Integers, Sequences, FiniteSets

CONSTANTS
    Types,              \* the passwords clients ask for
    MaxClients,         \* bound: connections accepted
    MaxRequests,        \* bound: requests sent
    MaxOpen,            \* bound: requests a client waits for at a time
    MaxMoves,           \* bound: removals of the card, ends of NFC
    MaxCancels          \* bound: cancellations by the user

ASSUME RemoteAssumption ==
    /\ Types \subseteq {"CAN", "PIN", "PUK"}
    /\ {MaxClients, MaxRequests, MaxOpen, MaxMoves, MaxCancels} \subseteq Nat

None == 0                \* no client, no request, no connection
Nobody == -1             \* entered for a request that is gone
Clients  == 1..MaxClients
Requests == 1..MaxRequests
Secrets  == Types \cup {"NEW"}

States == {"StartRemoteService", "ProcessRemoteMessages", "UpdateRetryCounter",
           "VerifyRetryCounter", "PreparePaceRemote", "EnterPacePasswordRemote",
           "EstablishPaceChannelRemote", "EstablishPaceChannelResponse",
           "PrepareChangePinRemote", "EnterNewPacePinRemote", "ChangePinRemote",
           "ChangePinResponse", "ClearPacePasswords", "StopRemoteService",
           "FinalState"}
Prompts == {"EnterPacePasswordRemote", "EnterNewPacePinRemote"}
PaceStates == {"UpdateRetryCounter", "VerifyRetryCounter", "PreparePaceRemote",
               "EnterPacePasswordRemote", "EstablishPaceChannelRemote",
               "EstablishPaceChannelResponse"}

\* Codes of a PACE channel or a new PIN are OK, WRONG, CANCELLED and UNKNOWN,
\* which stands for every error that says nothing of the password.
NoOutput == [code |-> "UNKNOWN", of |-> None]
NoPasswords == [t \in Secrets |-> None]

Run(s) == [type |-> "run", state |-> s]
Removed == [type |-> "removed"]
Done(job, c) == [type |-> job.op, code |-> c, of |-> job.of, client |-> job.client]
Job(o, i, c) == [op |-> o, of |-> i, client |-> c, wanted |-> TRUE]

VARIABLES
    listening,          \* the TLS server accepts connections
    client,             \* the client the message handler belongs to
    clients,            \* clients accepted so far
    handles,            \* slot handles of mCardConnections
    asked,              \* requests for a PACE channel or a new PIN not answered
    requests,           \* requests sent so far
    state,              \* the active state of the workflow
    events,             \* event queue of the main thread
    jobs,               \* card commands the reader thread has yet to execute
    hears,              \* mMessageConnections are made
    watched,            \* the prompt is connected to "destroyed" of the handler
    shown,              \* the view to enter a password is on the screen
    slotHandle,         \* the request of mSlotHandle and mEstablishPaceChannel
    password,           \* its password id, or UNKNOWN
    output,             \* mEstablishPaceChannelOutput and whose it is
    modify,             \* the request of mModifyPinMessage
    modifyOutput,       \* mModifyPinMessageResponseApdu and whose it is
    conn,               \* mCardConnection: its slot handle
    gone,               \* the card of mCardConnection is known to be gone
    expected,           \* mExpectedReader is set
    pw,                 \* passwords of the context: the client they are for
    cancelled,          \* mWorkflowCancelled and mWorkflowCancelledInState
    killed,             \* mWorkflowKilled
    moves, cancels

server  == <<listening, client, clients>>
handler == <<handles, asked, requests>>
machine == <<state, jobs, hears, watched, shown>>
message == <<slotHandle, password, output, modify>>
context == <<message, modifyOutput, conn, gone, expected, pw>>
ending  == <<cancelled, killed>>
bounds  == <<moves, cancels>>
vars == <<server, handler, machine, events, context, ending, bounds>>

RemoteInit ==
    /\ listening = FALSE /\ client = None /\ clients = 0
    /\ handles = {} /\ asked = {} /\ requests = 0
    /\ state = "StartRemoteService" /\ jobs = <<>>
    /\ hears = FALSE /\ watched = FALSE /\ shown = FALSE
    /\ events = <<Run("StartRemoteService")>>
    /\ slotHandle = None /\ password = "UNKNOWN" /\ output = NoOutput
    /\ modify = None /\ modifyOutput = NoOutput
    /\ conn = None /\ gone = FALSE /\ expected = FALSE /\ pw = NoPasswords
    /\ cancelled = FALSE /\ killed = FALSE /\ moves = 0 /\ cancels = 0
-----------------------------------------------------------------------------
(* The state machine, the context and the event queue *)

\* Results a state no longer waits for once it is left: those that are in the
\* event queue already reach it nevertheless.
WaitsFor == [connect |-> "none", update |-> "UpdateRetryCounter",
             pace |-> "EstablishPaceChannelRemote", setPin |-> "ChangePinRemote"]
Forgotten(js, s) ==
    [i \in DOMAIN js |-> IF WaitsFor[js[i].op] = s THEN [js[i] EXCEPT !.wanted = FALSE]
                         ELSE js[i]]

\* A state is entered; the user interface approves it at once, unless it
\* prompts for a password.  A killed workflow is approved in any case.
Enter(queue, s) ==
    /\ state' = s
    /\ jobs' = Forgotten(jobs, state)
    /\ hears' = (hears /\ state # "ProcessRemoteMessages")
    /\ watched' = (s \in Prompts /\ client # None)
    /\ shown' = (s \in Prompts)
    /\ events' = IF s = "Ended" \/ (s \in Prompts /\ ~killed) THEN queue
                 ELSE Append(queue, Run(s))

\* A state signals its end: without effect when it is not the active one.
Fire(queue, s, next) ==
    IF state = s THEN Enter(queue, next)
    ELSE UNCHANGED machine /\ events' = queue

Crash ==
    /\ state' = "Crashed" /\ events' = <<>> /\ jobs' = <<>>
    /\ hears' = FALSE /\ watched' = FALSE /\ shown' = FALSE

\* Where fireAbort leads to (RemoteServiceController).
Aborted(s) ==
    CASE s = "StartRemoteService"    -> "StopRemoteService"
      [] s = "ProcessRemoteMessages" -> "StopRemoteService"
      [] s \in PaceStates \ {"EstablishPaceChannelResponse"} -> "EstablishPaceChannelResponse"
      [] s = "PrepareChangePinRemote" -> "ChangePinRemote"
      [] s \in {"EnterNewPacePinRemote", "ChangePinRemote"} -> "ChangePinResponse"
      [] s \in {"EstablishPaceChannelResponse", "ChangePinResponse", "ClearPacePasswords"}
            -> "ProcessRemoteMessages"
      [] s = "StopRemoteService" -> "FinalState"

\* run() of state s is the next event.
Running(s) == events # <<>> /\ Head(events) = Run(s)
Arrived(o) == events # <<>> /\ Head(events).type = o
Later == Tail(events)

MutSetEstablishPaceChannel(request, type) ==   \* faulty: the output is kept
    slotHandle' = request /\ password' = type /\ UNCHANGED output
SetEstablishPaceChannel(request, type) ==
    slotHandle' = request /\ password' = type /\ output' = NoOutput
ClearEstablishPaceChannel == SetEstablishPaceChannel(None, "UNKNOWN")

MutKeepsPasswords ==                   \* faulty: passwords outlive their client
    /\ conn' = None /\ gone' = FALSE
    /\ ClearEstablishPaceChannel /\ modify' = None
    /\ UNCHANGED <<pw, modifyOutput, expected>>
MutKeepsMessage ==                     \* faulty: the new PIN is still wanted
    /\ pw' = NoPasswords /\ conn' = None /\ gone' = FALSE
    /\ ClearEstablishPaceChannel
    /\ UNCHANGED <<modify, modifyOutput, expected>>
OnResetMessageHandler ==
    /\ pw' = NoPasswords /\ conn' = None /\ gone' = FALSE
    /\ ClearEstablishPaceChannel /\ modify' = None
    /\ UNCHANGED <<modifyOutput, expected>>

\* The state prompts and has not been approved; the user sees it.
IsUnapproved == state \in Prompts /\ Run(state) \notin {events[i] : i \in DOMAIN events}
IsPrompting == IsUnapproved /\ shown
-----------------------------------------------------------------------------
(* run() of the states *)

rest == <<handler, ending, bounds>>
phase == <<state, hears, watched, shown>>

\* StateStartRemoteService::run: the service goes on when it cannot listen.
StartRemoteService ==
    /\ Running("StartRemoteService")
    /\ listening' \in BOOLEAN
    /\ Fire(Later, "StartRemoteService", "ProcessRemoteMessages")
    /\ UNCHANGED <<rest, client, clients, context>>

\* StateProcessRemoteMessages::run connects to a handler that is there, and to
\* those that will be.
ProcessRemoteMessages ==
    /\ Running("ProcessRemoteMessages")
    /\ hears' = TRUE /\ events' = Later
    /\ IF client = None THEN OnResetMessageHandler ELSE UNCHANGED context
    /\ UNCHANGED <<rest, server, state, jobs, watched, shown>>

UpdateRetryCounter ==
    /\ Running("UpdateRetryCounter")
    /\ IF conn = None
       THEN Fire(Later, "UpdateRetryCounter", "EstablishPaceChannelResponse")
       ELSE /\ jobs' = Append(jobs, Job("update", slotHandle, client))
            /\ events' = Later /\ UNCHANGED phase
    /\ UNCHANGED <<rest, server, context>>

\* StateVerifyRetryCounter::run forgets the passwords unless reader and retry
\* counter are the expected ones; a card that is gone has no retry counter.
VerifyWithoutCard ==
    /\ Running("VerifyRetryCounter") /\ conn = None
    /\ Fire(Later, "VerifyRetryCounter", "EstablishPaceChannelResponse")
    /\ UNCHANGED <<rest, server, context>>
VerifyRetryCounter ==
    /\ Running("VerifyRetryCounter") /\ conn # None
    /\ IF gone THEN Crash /\ UNCHANGED <<pw, expected>>
       ELSE \E otherCounter \in BOOLEAN :
            /\ pw' = IF otherCounter \/ ~expected THEN NoPasswords ELSE pw
            /\ expected' = TRUE
            /\ Fire(Later, "VerifyRetryCounter", "PreparePaceRemote")
    /\ UNCHANGED <<rest, server, message, modifyOutput, conn, gone>>

PreparePaceRemote ==
    /\ Running("PreparePaceRemote")
    /\ Fire(Later, "PreparePaceRemote",
            IF password = "UNKNOWN" THEN "EstablishPaceChannelResponse"
            ELSE IF pw[password] = None THEN "EnterPacePasswordRemote"
            ELSE "EstablishPaceChannelRemote")
    /\ UNCHANGED <<rest, server, context>>

\* run() of a state that prompts, once the user or the end of the program has
\* approved it
EnterPacePasswordRemote ==
    /\ Running("EnterPacePasswordRemote")
    /\ Fire(Later, "EnterPacePasswordRemote", "EstablishPaceChannelRemote")
    /\ UNCHANGED <<rest, server, context>>
EnterNewPacePinRemote ==
    /\ Running("EnterNewPacePinRemote")
    /\ Fire(Later, "EnterNewPacePinRemote", "ChangePinRemote")
    /\ UNCHANGED <<rest, server, context>>

EstablishPaceChannelRemote ==
    /\ Running("EstablishPaceChannelRemote")
    /\ IF slotHandle = None \/ (conn # None /\ password # "UNKNOWN" /\ pw[password] = None)
       THEN Crash
       ELSE IF conn = None \/ password = "UNKNOWN"
       THEN Fire(Later, "EstablishPaceChannelRemote", "EstablishPaceChannelResponse")
       ELSE /\ jobs' = Append(jobs, Job("pace", slotHandle, client))
            /\ events' = Later /\ UNCHANGED phase
    /\ UNCHANGED <<rest, server, context>>

MutAnswer(request) == asked' = asked   \* faulty: nothing is sent
\* sendEstablishPaceChannelResponse and sendModifyPinResponse
Answer(request) == asked' = asked \ {request}

\* StateEstablishPaceChannelResponse::run and StateChangePinResponse::run answer
\* the client there is by now.
EstablishPaceChannelResponse ==
    /\ Running("EstablishPaceChannelResponse")
    /\ IF client # None /\ slotHandle = None
       THEN Crash /\ UNCHANGED <<asked, message>>
       ELSE /\ IF client # None THEN Answer(slotHandle) ELSE UNCHANGED asked
            /\ ClearEstablishPaceChannel /\ UNCHANGED modify
            /\ Fire(Later, "EstablishPaceChannelResponse",
                    IF output.code = "WRONG" THEN "ClearPacePasswords"
                    ELSE "ProcessRemoteMessages")
    /\ UNCHANGED <<handles, requests, ending, bounds, server, modifyOutput, conn, gone,
                   expected, pw>>
ChangePinResponse ==
    /\ Running("ChangePinResponse")
    /\ IF client # None /\ modify = None
       THEN Crash /\ UNCHANGED asked
       ELSE /\ IF client # None THEN Answer(modify) ELSE UNCHANGED asked
            /\ Fire(Later, "ChangePinResponse",
                    IF modifyOutput.code = "OK" THEN "ClearPacePasswords"
                    ELSE "ProcessRemoteMessages")
    /\ UNCHANGED <<handles, requests, ending, bounds, server, context>>

PrepareChangePinRemote ==
    /\ Running("PrepareChangePinRemote")
    /\ Fire(Later, "PrepareChangePinRemote",
            IF pw["NEW"] = None THEN "EnterNewPacePinRemote" ELSE "ChangePinRemote")
    /\ UNCHANGED <<rest, server, context>>

\* StateChangePinRemote::run; the reader thread asserts that there is a new PIN.
ChangePinRemote ==
    /\ Running("ChangePinRemote")
    /\ IF modify = None \/ (conn # None /\ pw["NEW"] = None)
       THEN Crash /\ UNCHANGED modifyOutput
       ELSE IF conn = None
       THEN /\ modifyOutput' = NoOutput
            /\ Fire(Later, "ChangePinRemote", "ChangePinResponse")
       ELSE /\ jobs' = Append(jobs, Job("setPin", modify, client))
            /\ events' = Later /\ UNCHANGED <<phase, modifyOutput>>
    /\ UNCHANGED <<rest, server, message, conn, gone, expected, pw>>

ClearPacePasswords ==
    /\ Running("ClearPacePasswords")
    /\ pw' = NoPasswords
    /\ Fire(Later, "ClearPacePasswords", "ProcessRemoteMessages")
    /\ UNCHANGED <<rest, server, message, modifyOutput, conn, gone, expected>>

\* RemoteServerImpl::stop as StateStopRemoteService is left: the handler goes
\* without news of a change of the connection.
StopServer ==
    /\ listening' = FALSE /\ client' = None /\ handles' = {} /\ asked' = {}
    /\ IF hears /\ client # None THEN OnResetMessageHandler ELSE UNCHANGED context
    /\ UNCHANGED <<clients, requests>>
StopRemoteService ==
    /\ Running("StopRemoteService")
    /\ Fire(Later, "StopRemoteService", "FinalState")
    /\ IF state = "StopRemoteService" THEN StopServer
       ELSE UNCHANGED <<server, handler, context>>
    /\ UNCHANGED <<ending, bounds>>

FinalState ==
    /\ Running("FinalState")
    /\ Fire(Later, "FinalState", "Ended")
    /\ UNCHANGED <<rest, server, context>>

RunState ==
    \/ StartRemoteService \/ ProcessRemoteMessages \/ UpdateRetryCounter
    \/ VerifyWithoutCard \/ VerifyRetryCounter \/ PreparePaceRemote
    \/ EnterPacePasswordRemote \/ EnterNewPacePinRemote
    \/ EstablishPaceChannelRemote \/ EstablishPaceChannelResponse
    \/ PrepareChangePinRemote \/ ChangePinRemote \/ ChangePinResponse
    \/ ClearPacePasswords \/ StopRemoteService \/ FinalState
-----------------------------------------------------------------------------
(* The server and the handler of the client's messages *)

\* RemoteWebSocketServerImpl::onWebsocketConnection: one client at a time.  The
\* context learns of a change of the connection after its first handler only.
ClientConnects ==
    /\ listening /\ client = None /\ clients < MaxClients
    /\ state # "Crashed"
    /\ clients' = clients + 1 /\ client' = clients + 1
    /\ IF clients = 0 THEN UNCHANGED context ELSE OnResetMessageHandler
    /\ UNCHANGED <<listening, handler, machine, events, ending, bounds>>

MutPromptGivenUp == shown' = FALSE /\ UNCHANGED <<state, jobs, hears, watched, events>> \* faulty: only the view goes
\* The handler is destroyed: a state that prompts gives up.  Without a client
\* the view goes away in any case.
PromptGivenUp ==
    IF watched THEN Enter(events, Aborted(state))
    ELSE shown' = FALSE /\ UNCHANGED <<state, jobs, hears, watched, events>>

\* The channel closes: ServerMessageHandlerImpl::onClosed, then
\* RemoteWebSocketServerImpl::onConnectionClosed, then the reset of the context.
ClientCloses ==
    /\ client # None /\ state # "Crashed"
    /\ client' = None /\ handles' = {} /\ asked' = {}
    /\ PromptGivenUp
    /\ OnResetMessageHandler
    /\ UNCHANGED <<listening, clients, requests, ending, bounds>>

Asks ==
    /\ client # None /\ state # "Crashed" /\ requests < MaxRequests
    /\ requests' = requests + 1

\* handleIfdConnect; it only knows of cards that are connected already.
Connect ==
    /\ Asks /\ handles = {}
    /\ jobs' = Append(jobs, Job("connect", requests + 1, client))
    /\ UNCHANGED <<server, handles, asked, phase, events, context, ending, bounds>>

\* onCreateCardConnectionCommandDone, unless the handler is gone
Connected ==
    /\ Arrived("connect")
    /\ LET done == Head(events)
       IN handles' = IF done.client = client /\ done.code = "OK"
                     THEN handles \cup {done.of} ELSE handles
    /\ events' = Later
    /\ UNCHANGED <<server, asked, requests, machine, context, ending, bounds>>

\* handleIfdDisconnect
Disconnect ==
    /\ client # None /\ state # "Crashed"
    /\ \E h \in handles : handles' = handles \ {h}
    /\ UNCHANGED <<server, asked, requests, machine, events, context, ending, bounds>>

\* handleIfdEstablishPaceChannel and StateProcessRemoteMessages, if it hears
EstablishPaceChannel ==
    /\ Asks /\ Cardinality(asked) < MaxOpen
    /\ asked' = asked \cup {requests + 1}
    /\ \E h \in handles, t \in Types :
        IF hears
        THEN /\ SetEstablishPaceChannel(requests + 1, t)
             /\ conn' = h /\ gone' = FALSE
             /\ Fire(events, "ProcessRemoteMessages", "UpdateRetryCounter")
             /\ UNCHANGED modify
        ELSE UNCHANGED <<message, conn, gone, machine, events>>
    /\ UNCHANGED <<server, handles, modifyOutput, expected, pw, ending, bounds>>

\* handleIfdModifyPIN and StateProcessRemoteMessages, if it hears
ModifyPin ==
    /\ Asks /\ Cardinality(asked) < MaxOpen
    /\ asked' = asked \cup {requests + 1}
    /\ \E h \in handles :
        IF hears
        THEN /\ modify' = requests + 1 /\ modifyOutput' = NoOutput
             /\ conn' = h /\ gone' = FALSE
             /\ Fire(events, "ProcessRemoteMessages", "PrepareChangePinRemote")
        ELSE UNCHANGED <<modify, modifyOutput, conn, gone, machine, events>>
    /\ UNCHANGED <<server, handles, slotHandle, password, output, expected, pw, ending, bounds>>

\* handleIfdTransmit of an APDU the eService has secured: a channel opened here
\* ends.  Other APDUs are passed on and answered without the workflow.
SecureMessagingStops ==
    /\ client # None /\ state # "Crashed" /\ handles # {}
    /\ hears /\ state = "ProcessRemoteMessages"
    /\ Fire(events, "ProcessRemoteMessages", "ClearPacePasswords")
    /\ UNCHANGED <<server, handler, context, ending, bounds>>
-----------------------------------------------------------------------------
(* The card *)

\* The reader thread executes a command.  A card is connected once, for as long
\* as the connection to it lives.
Outcomes(job) ==
    CASE job.op = "connect" ->
            {"UNKNOWN"} \cup (IF handles = {} /\ (conn = None \/ gone) THEN {"OK"} ELSE {})
      [] job.op \in {"update", "setPin"} -> {"OK", "UNKNOWN"}
      [] job.op = "pace" -> {"OK", "WRONG", "UNKNOWN"}
Execute ==
    /\ jobs # <<>> /\ jobs' = Tail(jobs)
    /\ \E c \in Outcomes(Head(jobs)) :
        events' = IF Head(jobs).wanted THEN Append(events, Done(Head(jobs), c)) ELSE events
    /\ UNCHANGED <<server, handler, phase, context, ending, bounds>>

\* StateUpdateRetryCounter::onUpdateRetryCounterDone looks at the connection.
UpdateRetryCounterDone ==
    /\ Arrived("update")
    /\ IF Head(events).code = "OK"
       THEN IF conn = None THEN Crash /\ UNCHANGED <<conn, gone>>
            ELSE /\ gone' = FALSE /\ UNCHANGED conn
                 /\ Fire(Later, "UpdateRetryCounter", "VerifyRetryCounter")
       ELSE /\ conn' = None /\ gone' = FALSE
            /\ Fire(Later, "UpdateRetryCounter", "EstablishPaceChannelResponse")
    /\ UNCHANGED <<rest, server, message, modifyOutput, expected, pw>>

\* StateEstablishPaceChannelRemote::onEstablishConnectionDone.  A PUK is
\* forgotten once the card has answered.
EstablishConnectionDone ==
    /\ Arrived("pace")
    /\ LET done == Head(events)
           pukUsed == password = "PUK" /\ done.code \in {"OK", "WRONG"}
       IN  /\ output' = [code |-> done.code, of |-> done.of]
           /\ pw' = IF pukUsed THEN NoPasswords ELSE pw
           /\ expected' = (expected /\ ~pukUsed)
    /\ Fire(Later, "EstablishPaceChannelRemote", "EstablishPaceChannelResponse")
    /\ UNCHANGED <<rest, server, slotHandle, password, modify, modifyOutput, conn, gone>>

\* StateChangePinRemote::onChangePinDone
ChangePinDone ==
    /\ Arrived("setPin")
    /\ modifyOutput' = [code |-> Head(events).code, of |-> Head(events).of]
    /\ Fire(Later, "ChangePinRemote", "ChangePinResponse")
    /\ UNCHANGED <<rest, server, message, conn, gone, expected, pw>>

\* The card is taken away: ServerMessageHandlerImpl::onReaderChanged drops the
\* connections, the one of the context lives on.
CardRemoved ==
    /\ moves < MaxMoves /\ moves' = moves + 1
    /\ state \notin {"Ended", "Crashed"}
    /\ events' = Append(events, Removed)
    /\ UNCHANGED <<server, handler, machine, context, ending, cancels>>
ReaderChanged ==
    /\ Arrived("removed") /\ events' = Later
    /\ handles' = {} /\ gone' = (conn # None)
    /\ UNCHANGED <<server, asked, requests, machine, message, modifyOutput, conn,
                   expected, pw, ending, bounds>>

\* StateProcessRemoteMessages::onReaderStatusChanged: NFC is switched off.
NfcEnds ==
    /\ moves < MaxMoves /\ moves' = moves + 1
    /\ hears /\ client # None /\ state = "ProcessRemoteMessages"
    /\ Fire(events, "ProcessRemoteMessages", "StopRemoteService")
    /\ UNCHANGED <<server, handler, context, ending, cancels>>
-----------------------------------------------------------------------------
(* The user *)

\* The password asked for is entered; the last word says for whom.
EnteredFor == IF state = "EnterPacePasswordRemote" \/ modify # None THEN client ELSE Nobody
EnterPassword ==
    /\ IsPrompting
    /\ LET t == IF state = "EnterNewPacePinRemote" THEN "NEW" ELSE password
       IN  /\ t # "UNKNOWN"
           /\ pw' = [pw EXCEPT ![t] = EnteredFor]
    /\ events' = Append(events, Run(state)) /\ shown' = FALSE
    /\ UNCHANGED <<rest, server, state, jobs, hears, watched, message, modifyOutput, conn, gone, expected>>

\* onCancelEstablishPaceChannel and onCancelChangePin
CancelPassword ==
    /\ IsPrompting
    /\ LET told(o, i) == IF client = None THEN o ELSE [code |-> "CANCELLED", of |-> i]
       IN  IF state = "EnterPacePasswordRemote"
           THEN output' = told(output, slotHandle) /\ UNCHANGED modifyOutput
           ELSE modifyOutput' = told(modifyOutput, modify) /\ UNCHANGED output
    /\ Enter(events, Aborted(state))
    /\ UNCHANGED <<rest, server, slotHandle, password, modify, conn, gone, expected, pw>>

\* AbstractState::onUserCancelled; the final state has no such transition yet.
Abort(queue) ==
    /\ cancelled' = TRUE
    /\ IF state = "FinalState" THEN UNCHANGED machine /\ events' = queue
       ELSE Enter(queue, Aborted(state))
    /\ IF state = "StopRemoteService" THEN StopServer
       ELSE UNCHANGED <<server, handler, context>>

\* RemoteServiceModel::setRunning
SetRunning ==
    /\ listening /\ state \notin {"Ended", "Crashed"}
    /\ cancels < MaxCancels /\ cancels' = cancels + 1
    /\ Abort(events) /\ UNCHANGED <<killed, moves>>

\* WorkflowContext::killWorkflow approves what waits for the user.
KillWorkflow ==
    /\ state \notin {"Ended", "Crashed"} /\ ~killed /\ killed' = TRUE
    /\ cancels < MaxCancels /\ cancels' = cancels + 1
    /\ Abort(IF IsUnapproved THEN Append(events, Run(state)) ELSE events)
    /\ UNCHANGED moves
-----------------------------------------------------------------------------
Process ==
    RunState \/ Connected \/ UpdateRetryCounterDone \/ EstablishConnectionDone
    \/ ChangePinDone \/ ReaderChanged
Answers == EnterPassword \/ CancelPassword
Others ==
    ClientConnects \/ ClientCloses \/ Connect \/ Disconnect \/ EstablishPaceChannel
    \/ ModifyPin \/ SecureMessagingStops \/ CardRemoved \/ NfcEnds
    \/ SetRunning \/ KillWorkflow
RemoteNext == Process \/ Execute \/ Answers \/ Others

RemoteSpec == RemoteInit /\ [][RemoteNext]_vars

\* The main thread works off its events and the reader thread its commands; the
\* user answers a prompt.  Nobody has to send, close or cancel anything.
RemoteFairSpec ==
    RemoteSpec /\ WF_vars(Process) /\ WF_vars(Execute) /\ WF_vars(Answers)
-----------------------------------------------------------------------------
(* Properties *)

\* A password in the context was entered for the client that is connected: the
\* next one never opens a channel with it (onResetMessageHandler).
PasswordsOfClient ==
    client # None => \A t \in Secrets : pw[t] \in {None, client, Nobody}

\* The user is only asked for a password while the client that wants it waits
\* (StateEnterPacePasswordRemote.cpp, destroyed).
PromptHasRequest ==
    state = "EnterPacePasswordRemote" => client # None /\ slotHandle \in asked

\* What a client is answered is the answer to its own request that is open, and
\* the result is that of the command executed for this request.
AnswerFitsRequest ==
    ~cancelled /\ client # None =>
        /\ Running("EstablishPaceChannelResponse") /\ slotHandle # None
            => slotHandle \in asked /\ output.of \in {None, slotHandle}
        /\ Running("ChangePinResponse") /\ modify # None
            => modify \in asked /\ modifyOutput.of \in {None, modify}

\* A request taken up is answered, unless the client or the service goes.
RequestAnswered ==
    \A i \in Requests :
        (slotHandle = i \/ modify = i) /\ i \in asked ~> i \notin asked \/ state = "Crashed"

\* A client starts with a context nothing is left in of the one before.
CleanStart ==
    [][client' # client /\ client' # None
        => pw' = NoPasswords /\ conn' = None /\ slotHandle' = None /\ modify' = None]_vars

\* StateChangePinResponse.cpp:31 asserts that the message to answer is there;
\* here for a PIN the card has changed.
AssertModifyPinMessage ==
    Running("ChangePinResponse") /\ client # None /\ modifyOutput.code = "OK" => modify # None
=============================================================================
