-------------------------- MODULE RemoteConnection --------------------------
(***************************************************************************)
(* A smartphone as card reader, seen from the computer: how RemoteClient,  *)
(* RemoteConnector and the plug-in of remote readers find it, connect to   *)
(* it and notice that it has gone, and how RemoteCard calls its card.      *)
(*                                                                         *)
(* Three threads work together and post to each other: RemoteClientImpl on *)
(* the main thread, RemoteConnectorImpl with the sockets and dispatchers   *)
(* on the connector thread, RemoteReaderManagerPlugIn on the reader        *)
(* thread, which stands still while RemoteCard::sendMessage waits.         *)
(*                                                                         *)
(* There is one device with one reader.  A connection stands for its       *)
(* ConnectRequest, its socket and its dispatcher, and for the context      *)
(* handle that is part of the names of its readers.                        *)
(***************************************************************************)
EXTENDS Integers, FiniteSets, FiniteSetsExt, Sequences, SequencesExt, Queues

CONSTANTS
    Connections,        \* how many exist at a time
    RefusalLimit,       \* refusals until a device is forgotten (the code: 7)
    MaxOverlaps,        \* searches for the device while another attempt is made
    MaxChanges,         \* failures, and changes of the device
    MaxScans, MaxCalls, MaxTimeouts,
    None

ASSUME RemoteConnectionAssumption ==
    /\ Connections \in SUBSET (Nat \ {0}) /\ IsFiniteSet(Connections)
    /\ RefusalLimit \in Nat \ {0}
    /\ {MaxOverlaps, MaxChanges, MaxScans, MaxCalls, MaxTimeouts} \subseteq Nat
    /\ None \notin Nat

CONSTANT NoName         \* the name of a reader without a context handle
ASSUME NameAssumption == NoName \notin Connections /\ NoName # None

VARIABLES
    sock,               \* each connection: request, socket, or nothing; a socket
                        \* that has ended is closed, or missed by the plug-in
    ctx,                \* mContextHandle is set
    wire,               \* what the device has sent
    heard,              \* the connections whose fireClosed the plug-in listens to
    remote,             \* the reader of the device
    served, held,       \* the connection the device serves, and whether it
                        \* holds a card connection for it
    trusted, named,     \* the device in the settings: paired, and its name known
    pending,            \* mRemoteConnectorPending (its length)
    refusals,           \* mErrorCounter
    detecting, listed,  \* mDatagramHandler, mRemoteDeviceList
    scanning, auto,     \* the scan timer, mConnectToPairedReaders
    checking,           \* mConnectionCheckInProgress
    dispatcher,         \* mDispatcherList: the connection of the device
    readers,            \* mReaderList: dispatcher and card of each name
    call,               \* the sendMessage the reader thread is in
    toMain, toReader, toConnector,
    overlaps, changes, scans, calls, timeouts

network  == <<sock, ctx, wire, heard>>
device   == <<remote, served, held>>
settings == <<trusted, named>>
client   == <<pending, refusals, detecting, listed>>
search   == <<scanning, auto, checking>>
plugIn   == <<search, dispatcher, readers>>
bounds   == <<overlaps, changes, scans, calls, timeouts>>
vars == <<network, device, settings, client, plugIn, call,
          toMain, toReader, toConnector, bounds>>

Msg(type, arg) == [type |-> type, arg |-> arg]
Arrives(queue, type) == queue # <<>> /\ Head(queue).type = type
Has(queue, type) == \E i \in DOMAIN queue : queue[i].type = type

Changing == changes < MaxChanges /\ changes' = changes + 1

Requested(c) == sock[c] \in {"connecting", "pairing"}
IsOpen(c) == c # None /\ sock[c] = "open"

RemoteConnectionInit ==
    /\ sock = [c \in Connections |-> "none"] /\ ctx = [c \in Connections |-> FALSE]
    /\ wire = [c \in Connections |-> <<>>] /\ heard = {}
    /\ remote \in {"gone", "empty", "card"} /\ served = None /\ held = FALSE
    /\ trusted \in BOOLEAN /\ named = trusted
    /\ pending = 0 /\ refusals = 0
    /\ detecting = FALSE /\ listed = FALSE
    /\ scanning = FALSE /\ auto = TRUE /\ checking = FALSE
    /\ dispatcher = None /\ readers = << >> /\ call = None
    /\ toMain = <<>> /\ toReader = <<>> /\ toConnector = <<>>
    /\ overlaps = 0 /\ changes = 0 /\ scans = 0 /\ calls = 0 /\ timeouts = 0
-----------------------------------------------------------------------------
(* The main thread: RemoteClientImpl *)

\* requestRemoteDevices
RequestRemoteDevices ==
    /\ Arrives(toMain, "requestDevices")
    /\ toReader' = Append(toReader, Msg("devices", listed))
    /\ toMain' = Tail(toMain)
    /\ UNCHANGED <<network, device, settings, client, plugIn, call, toConnector, bounds>>

\* startDetection and stopDetection; RemoteDeviceListImpl::clear
Detect ==
    /\ Arrives(toMain, "detect")
    /\ detecting' = Head(toMain).arg /\ listed' = (listed /\ detecting')
    /\ toMain' = Tail(toMain)
    /\ UNCHANGED <<network, device, settings, pending, refusals, plugIn, call,
                   toReader, toConnector, bounds>>

\* establishConnection
EstablishConnection(psk) ==
    /\ pending' = pending + 1
    /\ toConnector' = Append(toConnector, Msg("connect", psk))
EstablishAsked ==
    /\ Arrives(toMain, "establish") /\ EstablishConnection(FALSE)
    /\ toMain' = Tail(toMain)
    /\ UNCHANGED <<network, device, settings, refusals, detecting, listed,
                   plugIn, call, toReader, bounds>>

\* onRemoteDispatcherCreated
Taken == IF pending > 0 THEN pending - 1 ELSE 0
OnRemoteDispatcherCreated ==
    LET c == Head(toMain).arg
    IN  /\ Arrives(toMain, "created")
        /\ refusals' = 0 /\ pending' = Taken
        /\ IF pending > 0
           THEN toReader' = Append(toReader, Msg("new", c)) ELSE UNCHANGED toReader
        /\ toMain' = Tail(toMain)
        /\ UNCHANGED <<network, device, settings, detecting, listed, plugIn, call,
                       toConnector, bounds>>

\* onRemoteDispatcherError: a device that refuses again and again is forgotten.
OnRemoteDispatcherError ==
    LET refused == Head(toMain).arg = "refused"
    IN  /\ Arrives(toMain, "error")
        /\ pending' = Taken
        /\ refusals' = IF refused /\ pending > 0 THEN (refusals + 1) % RefusalLimit
                       ELSE IF pending > 0 THEN 0 ELSE refusals
        /\ IF refused /\ pending > 0 /\ refusals' = 0
           THEN trusted' = FALSE /\ named' = FALSE ELSE UNCHANGED settings
        /\ toMain' = Tail(toMain)
        /\ UNCHANGED <<network, device, detecting, listed, plugIn, call,
                       toReader, toConnector, bounds>>

MainThread ==
    \/ RequestRemoteDevices \/ Detect \/ EstablishAsked \/ OnRemoteDispatcherCreated
    \/ OnRemoteDispatcherError

\* The device announces itself again and again while it serves no connection
\* (RemoteServerImpl::onConnectedChanged); it vanishes from the list when nothing
\* was heard of it for some time, be it that announcements were lost.
Announce ==
    /\ detecting /\ served = None /\ ~listed /\ listed' = TRUE
    /\ UNCHANGED <<network, device, settings, pending, refusals, detecting,
                   plugIn, call, toMain, toReader, toConnector, bounds>>
Vanish ==
    /\ listed /\ listed' = FALSE
    /\ IF served = None THEN Changing ELSE UNCHANGED changes
    /\ UNCHANGED <<network, device, settings, pending, refusals, detecting,
                   plugIn, call, toMain, toReader, toConnector,
                   overlaps, scans, calls, timeouts>>

\* RemoteServiceModel::connectToRememberedServer: the user enters a code.
Pair ==
    /\ listed /\ ~trusted /\ pending = 0 /\ Changing
    /\ EstablishConnection(TRUE)
    /\ UNCHANGED <<network, device, settings, refusals, detecting, listed,
                   plugIn, call, toMain, toReader, overlaps, scans, calls, timeouts>>
-----------------------------------------------------------------------------
(* The connector thread: RemoteConnectorImpl, ConnectRequest, the sockets *)

\* onConnectRequest and ConnectRequest::start
Unused(c) == sock[c] = "none" /\ served # c
OnConnectRequest ==
    /\ Arrives(toConnector, "connect") /\ \E c \in Connections : Unused(c)
    /\ LET c == Min({d \in Connections : Unused(d)})
       IN  sock' = [sock EXCEPT ![c] = IF Head(toConnector).arg THEN "pairing"
                                       ELSE "connecting"]
    /\ toConnector' = Tail(toConnector)
    /\ UNCHANGED <<ctx, wire, heard, device, settings, client, plugIn, call, toMain,
                   toReader, bounds>>

\* removeRequest: requests for the device at the same address are given up
\* without an answer.
RemoveRequest(c, others, s) ==
    sock' = [d \in Connections |-> IF d = c THEN s ELSE IF d \in others THEN "none" ELSE sock[d]]

\* onConnectionCreated; the device serves one connection and closes any other.
Accepted(c) == sock[c] = "pairing" \/ (sock[c] = "connecting" /\ trusted)
OnConnectionCreated(c) ==
    /\ Accepted(c)
    /\ \E others \in SUBSET {d \in Connections \ {c} : Requested(d)} :
           RemoveRequest(c, others, "open")
    /\ trusted' = TRUE
    /\ IF served = None THEN served' = c /\ held' = FALSE /\ UNCHANGED wire
       ELSE wire' = [wire EXCEPT ![c] = <<Msg("close", None)>>] /\ UNCHANGED <<served, held>>
    /\ toMain' = Append(toMain, Msg("created", c))
    /\ UNCHANGED <<ctx, heard, remote, named, client, plugIn, call, toReader, toConnector,
                   bounds>>

\* onConnectionError and onConnectionTimeout
MutFailed(c) == sock[c]            \* faulty: the request that failed goes on
Failed(c) == "none"
OnConnectionError(c, code) ==
    /\ Requested(c)
    /\ IF Accepted(c) THEN Changing ELSE UNCHANGED changes
    /\ \E others \in SUBSET {d \in Connections \ {c} : Requested(d)} :
           RemoveRequest(c, others, Failed(c))
    /\ toMain' = Append(toMain, Msg("error", code))
    /\ UNCHANGED <<ctx, wire, heard, device, settings, client, plugIn, call, toReader,
                   toConnector, overlaps, scans, calls, timeouts>>

\* WebSocketChannel::onDisconnected: the plug-in is told if it listens, and so is a
\* call that waits for its answer.  The plug-in misses an end before it listens.
Waits(c) == call # None /\ call.via = c /\ call.result = None
OnDisconnected(c) ==
    /\ sock' = [sock EXCEPT ![c] = IF c \in heard THEN "closed" ELSE "missed"]
    /\ wire' = [wire EXCEPT ![c] = <<>>]
    /\ toReader' = IF c \in heard THEN Append(toReader, Msg("closed", None)) ELSE toReader
    /\ call' = IF Waits(c) THEN [call EXCEPT !.result = "closed"] ELSE call
    /\ UNCHANGED <<ctx, heard, device, settings, client, plugIn, toMain>>

\* The connection is lost, or no pong arrives in time.
Break(c) ==
    /\ IsOpen(c) /\ Changing /\ OnDisconnected(c)
    /\ UNCHANGED <<toConnector, overlaps, scans, calls, timeouts>>
Receives(c, type) == IsOpen(c) /\ Arrives(wire[c], type)
ReceiveClose(c) ==
    /\ Receives(c, "close") /\ OnDisconnected(c)
    /\ UNCHANGED <<toConnector, bounds>>
Close ==
    LET c == Head(toConnector).arg
    IN  /\ Arrives(toConnector, "close")
        /\ IF IsOpen(c) THEN OnDisconnected(c)
           ELSE UNCHANGED <<network, device, settings, client, plugIn, call, toMain, toReader>>
        /\ toConnector' = Tail(toConnector)
        /\ UNCHANGED bounds

\* Nobody holds the dispatcher any more: its destructor closes the socket
\* without telling anybody.
Refers(queue, types, c) ==
    \E i \in DOMAIN queue : queue[i].type \in types /\ queue[i].arg = c
Referenced(c) ==
    \/ dispatcher = c \/ \E n \in DOMAIN readers : readers[n].via = c
    \/ Refers(toMain, {"created"}, c) \/ Refers(toReader, {"new"}, c)
    \/ Refers(toConnector, {"getStatus", "Connect", "Disconnect", "Transmit"}, c)
Destroy(c) ==
    /\ sock[c] \in {"open", "closed", "missed"} /\ ~Referenced(c)
    /\ sock' = [sock EXCEPT ![c] = "none"] /\ ctx' = [ctx EXCEPT ![c] = FALSE]
    /\ wire' = [wire EXCEPT ![c] = <<>>] /\ heard' = heard \ {c}
    /\ toConnector' =
           Kept(toConnector, {i \in DOMAIN toConnector :
                                  \/ toConnector[i].type \notin {"establishContext", "close"}
                                  \/ toConnector[i].arg # c})
    /\ UNCHANGED <<device, settings, client, plugIn, call, toMain, toReader, bounds>>

\* RemoteDispatcher::send, and what the device answers if it serves c.
Answer(c, answer) ==
    wire' = IF IsOpen(c) /\ served = c THEN [wire EXCEPT ![c] = @ \o answer] ELSE wire
SendEstablishContext ==
    /\ Arrives(toConnector, "establishContext")
    /\ Answer(Head(toConnector).arg, <<Msg("context", None)>>)
    /\ toConnector' = Tail(toConnector)
    /\ UNCHANGED <<sock, ctx, heard, device, settings, client, plugIn, call, toMain,
                   toReader, bounds>>
SendGetStatus ==
    /\ Arrives(toConnector, "getStatus")
    /\ Answer(Head(toConnector).arg, <<Msg("status", remote)>>)
    /\ toConnector' = Tail(toConnector)
    /\ UNCHANGED <<sock, ctx, heard, device, settings, client, plugIn, call, toMain,
                   toReader, bounds>>

CallTypes == {"Connect", "Disconnect", "Transmit"}

\* No call and no result of one is None.
ASSUME NoneAssumption ==
    /\ None \notin {"ok", "error", "closed"}
    /\ None \notin [name : Connections \cup {NoName}, via : Connections, type : CallTypes,
                    result : {None, "ok", "error", "closed"}]

Grants(type) == IF type = "Connect" THEN ~held /\ remote = "card" ELSE held
SendCall ==
    LET m == Head(toConnector)
        reaches == IsOpen(m.arg) /\ served = m.arg
        ok == Grants(m.type)
    IN  /\ toConnector # <<>> /\ m.type \in CallTypes
        /\ Answer(m.arg, <<[type |-> "answer", to |-> m.type, ok |-> ok]>>)
        /\ held' = IF reaches /\ ok THEN m.type # "Disconnect" ELSE held
        /\ toConnector' = Tail(toConnector)
        /\ UNCHANGED <<sock, ctx, heard, remote, served, settings, client, plugIn, call,
                       toMain, toReader, bounds>>

\* RemoteDispatcher::onReceived; RemoteCard::onMessageReceived runs here, too.
Received(c) == wire' = [wire EXCEPT ![c] = Tail(@)]
ReceiveContext(c) ==
    /\ Receives(c, "context") /\ Received(c)
    /\ ctx' = [ctx EXCEPT ![c] = TRUE]
    /\ toReader' = IF c \in heard THEN Append(toReader, Msg("context", None)) ELSE toReader
    /\ UNCHANGED <<sock, heard, device, settings, client, plugIn, call, toMain, toConnector,
                   bounds>>
ReceiveStatus(c) ==
    /\ Receives(c, "status") /\ Received(c)
    /\ toReader' = IF ctx[c] /\ c \in heard
                   THEN Append(toReader, Msg("status", Head(wire[c]).arg)) ELSE toReader
    /\ UNCHANGED <<sock, ctx, heard, device, settings, client, plugIn, call, toMain,
                   toConnector, bounds>>
ReceiveAnswer(c) ==
    LET m == Head(wire[c])
    IN  /\ Receives(c, "answer") /\ Received(c)
        /\ call' = IF Waits(c) /\ call.type = m.to
                   THEN [call EXCEPT !.result = IF m.ok THEN "ok" ELSE "error"] ELSE call
        /\ UNCHANGED <<sock, ctx, heard, device, settings, client, plugIn, toMain, toReader,
                       toConnector, bounds>>

Delivery(c) == ReceiveClose(c) \/ ReceiveContext(c) \/ ReceiveStatus(c) \/ ReceiveAnswer(c)
ConnectorJobs ==
    OnConnectRequest \/ Close \/ SendEstablishContext \/ SendGetStatus \/ SendCall
Resolves(c) ==
    OnConnectionCreated(c) \/ \E code \in {"refused", "failed"} : OnConnectionError(c, code)
-----------------------------------------------------------------------------
(* The reader thread: RemoteReaderManagerPlugIn and RemoteReader *)

Free == call = None
Quiet == /\ toMain = <<>> /\ toReader = <<>> /\ toConnector = <<>>
         /\ \A c \in Connections : ~Requested(c)

\* connectToPairedReaders, called by the scan timer, by startScan and when the
\* device has appeared.
ConnectToPairedReaders ==
    /\ Free /\ scanning /\ auto /\ ~checking /\ checking' = TRUE
    /\ IF Quiet THEN UNCHANGED overlaps
       ELSE overlaps < MaxOverlaps /\ overlaps' = overlaps + 1
    /\ toMain' = Append(toMain, Msg("requestDevices", None))
    /\ UNCHANGED <<network, device, settings, client, scanning, auto, dispatcher, readers,
                   call, toReader, toConnector, changes, scans, calls, timeouts>>

\* continueConnectToPairedReaders: "If already connected: skip."
MutChecked == checking             \* faulty: the check never ends
Checked == FALSE
ContinueConnectToPairedReaders ==
    /\ Arrives(toReader, "devices") /\ Free
    /\ checking' = Checked
    /\ toMain' = IF Head(toReader).arg /\ dispatcher = None /\ trusted
                 THEN Append(toMain, Msg("establish", None)) ELSE toMain
    /\ toReader' = Tail(toReader)
    /\ UNCHANGED <<network, device, settings, client, scanning, auto, dispatcher, readers,
                   call, toConnector, bounds>>

\* addRemoteDispatcher
AddRemoteDispatcher ==
    LET c == Head(toReader).arg
    IN  /\ Arrives(toReader, "new") /\ Free
        /\ dispatcher' = c
        /\ heard' = heard \cup {c}
        /\ toConnector' = Append(toConnector, Msg("establishContext", c))
        /\ toReader' = Tail(toReader)
        /\ UNCHANGED <<sock, ctx, wire, device, settings, client, search, readers, call,
                       toMain, bounds>>

\* onContextEstablished: a connection that was made to pair ends.
OnContextEstablished ==
    /\ Arrives(toReader, "context") /\ Free
    /\ named' = trusted
    /\ toConnector' = IF dispatcher = None THEN toConnector
                      ELSE Append(toConnector,
                                  Msg(IF named THEN "getStatus" ELSE "close", dispatcher))
    /\ toReader' = Tail(toReader)
    /\ UNCHANGED <<network, device, trusted, client, plugIn, call, toMain, bounds>>

\* removeDispatcher: all readers of the device go with its dispatcher.
MutRemaining == readers                \* faulty: the readers stay
Remaining == << >>
OnDispatcherClosed ==
    /\ Arrives(toReader, "closed") /\ Free
    /\ readers' = Remaining /\ dispatcher' = None
    /\ heard' = heard \ {dispatcher}
    /\ toReader' = Tail(toReader)
    /\ UNCHANGED <<sock, ctx, wire, device, settings, client, search, call, toMain,
                   toConnector, bounds>>

\* RemoteCard::sendMessage: the thread waits for an answer.
Sends(name, via, type) ==
    /\ call' = [name |-> name, via |-> via, type |-> type, result |-> None]
    /\ toConnector' = Append(toConnector, Msg(type, via))
With(name, r) == [n \in DOMAIN readers \cup {name} |-> IF n = name THEN r ELSE readers[n]]

\* handleIFDStatus and RemoteReader::updateStatus: a status makes a reader,
\* ends it, or changes its card; a card that is new is connected and examined.
Name == IF ctx[dispatcher] THEN dispatcher ELSE NoName
HandleIFDStatus ==
    LET status == Head(toReader).arg
        exists == Name \in DOMAIN readers
        via == IF exists THEN readers[Name].via ELSE dispatcher
        inserted == status = "card" /\ ~(exists /\ readers[Name].card)
    IN  /\ Arrives(toReader, "status") /\ Free
        /\ readers' = CASE dispatcher = None -> readers
                        [] dispatcher # None /\ status = "gone" ->
                               [n \in DOMAIN readers \ {Name} |-> readers[n]]
                        [] dispatcher # None /\ status # "gone" ->
                               With(Name, [via |-> via, card |-> status = "card",
                                           linked |-> status = "card" /\ exists
                                                      /\ readers[Name].linked])
        /\ IF dispatcher # None /\ inserted THEN Sends(Name, via, "Connect")
           ELSE UNCHANGED <<call, toConnector>>
        /\ toReader' = Tail(toReader)
        /\ UNCHANGED <<network, device, settings, client, search, dispatcher, toMain, bounds>>

\* RemoteCard::connect, disconnect, transmit and the commands with a PIN,
\* called by Reader and CardConnectionWorker
CallCard(n, type) ==
    /\ Free /\ calls < MaxCalls /\ calls' = calls + 1
    /\ readers[n].card /\ (type = "Connect" <=> ~readers[n].linked)
    /\ Sends(n, readers[n].via, type)
    /\ UNCHANGED <<network, device, settings, client, plugIn, toMain, toReader,
                   overlaps, changes, scans, timeouts>>

MutLinks(type, before) == type # "Disconnect" \/ before   \* faulty: mConnected is not reset
Links(type, before) ==
    CASE type = "Connect" -> TRUE [] type = "Disconnect" -> FALSE [] OTHER -> before
CallEnds ==
    /\ call # None /\ call.result # None /\ call' = None
    /\ readers' = IF call.result = "ok"
                  THEN [readers EXCEPT ![call.name].linked = Links(call.type, @)]
                  ELSE readers
    /\ UNCHANGED <<network, device, settings, client, search, dispatcher, toMain, toReader,
                   toConnector, bounds>>

\* No answer in time: there is none any more, or it is late.
AnswerLost ==
    /\ ~IsOpen(call.via) \/ served # call.via
    /\ ~Refers(toConnector, CallTypes, call.via)
CallTimesOut ==
    /\ call # None /\ call.result = None /\ call' = None
    /\ IF AnswerLost THEN UNCHANGED timeouts
       ELSE timeouts < MaxTimeouts /\ timeouts' = timeouts + 1
    /\ UNCHANGED <<network, device, settings, client, plugIn, toMain, toReader, toConnector,
                   overlaps, changes, scans, calls>>

\* startScan and stopScan
StartScan(connects) ==
    /\ Free /\ ~scanning /\ scans < MaxScans /\ scans' = scans + 1
    /\ scanning' = TRUE /\ auto' = connects
    /\ toMain' = Append(toMain, Msg("detect", TRUE))
    /\ UNCHANGED <<network, device, settings, client, checking, dispatcher, readers, call,
                   toReader, toConnector, overlaps, changes, calls, timeouts>>
StopScan ==
    /\ Free /\ scanning /\ scanning' = FALSE /\ UNCHANGED scans
    /\ toMain' = Append(toMain, Msg("detect", FALSE))
    /\ toConnector' = IF dispatcher = None THEN toConnector
                      ELSE Append(toConnector, Msg("close", dispatcher))
    /\ UNCHANGED <<network, device, settings, client, auto, checking, dispatcher, readers,
                   call, toReader, overlaps, changes, calls, timeouts>>

ReaderThread ==
    \/ ContinueConnectToPairedReaders \/ AddRemoteDispatcher \/ OnContextEstablished
    \/ OnDispatcherClosed \/ HandleIFDStatus \/ CallEnds
-----------------------------------------------------------------------------
(* The device *)

\* ServerMessageHandler::onReaderChanged and onReaderRemoved: the client is told of
\* every change; the connection of a card stays when its reader goes with it.
ReaderChanges(status) ==
    /\ status # remote /\ Changing /\ remote' = status
    /\ held' = (held /\ status # "empty")
    /\ IF served = None THEN UNCHANGED wire ELSE Answer(served, <<Msg("status", status)>>)
    /\ UNCHANGED <<sock, ctx, heard, served, settings, client, plugIn, call, toMain, toReader,
                   toConnector, overlaps, scans, calls, timeouts>>

\* RemoteWebSocketServerImpl::onConnectionClosed
NoticesEnd ==
    /\ served # None /\ ~IsOpen(served)
    /\ served' = None /\ held' = FALSE
    /\ UNCHANGED <<network, remote, settings, client, plugIn, call, toMain, toReader,
                   toConnector, bounds>>

Environment ==
    \/ Announce \/ Vanish \/ Pair
    \/ \E status \in {"gone", "empty", "card"} : ReaderChanges(status)
    \/ \E c \in Connections : Break(c)
User ==
    \/ \E connects \in BOOLEAN : StartScan(connects)
    \/ StopScan
    \/ \E n \in DOMAIN readers, type \in CallTypes : CallCard(n, type)

RemoteConnectionNext ==
    \/ MainThread \/ ConnectorJobs \/ ReaderThread
    \/ ConnectToPairedReaders \/ CallTimesOut \/ NoticesEnd
    \/ \E c \in Connections : Delivery(c) \/ Resolves(c) \/ Destroy(c)
    \/ Environment \/ User
RemoteConnectionSpec == RemoteConnectionInit /\ [][RemoteConnectionNext]_vars

\* The event loops of the three threads run, the timers fire, the network
\* delivers, and the device announces itself and notices lost connections.
RemoteConnectionFairSpec ==
    /\ RemoteConnectionSpec
    /\ WF_vars(MainThread) /\ WF_vars(ConnectorJobs) /\ WF_vars(ReaderThread)
    /\ WF_vars(ConnectToPairedReaders) /\ WF_vars(CallTimesOut) /\ WF_vars(NoticesEnd)
    /\ WF_vars(Announce)
    /\ \A c \in Connections :
           WF_vars(Delivery(c)) /\ WF_vars(Resolves(c)) /\ WF_vars(Destroy(c))
-----------------------------------------------------------------------------
(* Properties *)

\* Q_ASSERT(false) in mapToAndTakeRemoteConnectorPending (RemoteClientImpl.cpp:98):
\* every answer of the connector finds an attempt that waits for it.
AnswersExpected ==
    Cardinality({i \in DOMAIN toMain : toMain[i].type \in {"created", "error"}})
        + Cardinality({c \in Connections : Requested(c)}) <= pending

\* A reader does not outlive the connection it came with, except for the time
\* the news of the end needs to arrive, whichever connection took its place.
\* Excepted is a connection whose end the plug-in has missed: nobody tells it, and
\* a status of a connection before it makes a reader all the same.
Missed(c) == c # None /\ sock[c] = "missed"
NoGhostReader ==
    \A n \in DOMAIN readers :
        ~IsOpen(readers[n].via) => Has(toReader, "closed") \/ Missed(readers[n].via)

\* A card counts as connected only if the device holds a connection for it, or
\* the news that says otherwise are under way.  A reader whose connection has
\* been replaced is not told any more: handleIFDStatus looks for a reader of the
\* new one.
LinkIsReal ==
    \A n \in DOMAIN readers :
        readers[n].linked /\ timeouts = 0 /\ readers[n].via = dispatcher =>
            \/ held /\ served = readers[n].via
            \/ ~IsOpen(readers[n].via)
            \/ Has(wire[readers[n].via], "status") \/ Has(toReader, "status")
            \/ call # None /\ call.name = n /\ call.type = "Disconnect"

\* If the scan for a paired device goes on and nothing goes wrong any more, the device
\* is connected in the end and stays so, whatever went wrong before; or the plug-in
\* has missed the end of the connection it has, and keeps that one for ever.
Expected == scanning /\ auto /\ detecting /\ trusted
Usable == IsOpen(dispatcher) /\ ctx[dispatcher]
Reconnects == <>[]Expected => <>[]Usable \/ <>[]Missed(dispatcher)

\* "If already connected: skip." (RemoteReaderManagerPlugIn.cpp:150): what is in
\* mDispatcherList is a connection, or the news of its end are under way.
ListedIsConnected ==
    dispatcher # None /\ ~IsOpen(dispatcher) => Has(toReader, "closed")
=============================================================================
