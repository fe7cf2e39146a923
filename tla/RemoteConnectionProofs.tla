----------------------- MODULE RemoteConnectionProofs -----------------------
(***************************************************************************)
(* Theorems about RemoteConnection, for any number of connections,         *)
(* refusals, changes of the device, searches, calls and time-outs.         *)
(*                                                                         *)
(* Three questions are followed through the queues of the three threads.   *)
(*                                                                         *)
(* Attempts: RemoteClientImpl waits for every connection it has asked for. *)
(* It is asked for in the queue of the connector, a request of the         *)
(* connector, or answered in the queue of the main thread.  The connector  *)
(* gives up requests without an answer, so there may be less than are      *)
(* waited for, never more.                                                 *)
(*                                                                         *)
(* Handover: a new dispatcher goes from the connector to the client and    *)
(* from there to the plug-in, which listens to it when it arrives.  Until  *)
(* then it is in exactly one queue, and nobody can ask to close it; if it  *)
(* ends by itself, the plug-in has missed its end for ever.  Of any later  *)
(* end the plug-in is told.                                                *)
(*                                                                         *)
(* Links: a card is connected by an answer of the device, and disconnected *)
(* by one or by a change of its reader.  Until a call is given up, there   *)
(* is one call, in the queue of the connector, on the wire as its answer,  *)
(* or answered.  When the device gives the card up by itself, it sends a   *)
(* status, which finds the reader because it comes after its name.         *)
(***************************************************************************)
EXTENDS RemoteConnection, QueuesProofs
-----------------------------------------------------------------------------
(* Messages in a queue: which there are, for which connection, how many *)

Once(queue, type) ==
    \A i, j \in DOMAIN queue :
        queue[i].type = type /\ queue[j].type = type /\ queue[i].arg = queue[j].arg => i = j
Places(queue, types) == {i \in DOMAIN queue : queue[i].type \in types}
Count(queue, types) == Cardinality(Places(queue, types))

\* The first message is taken.
LEMMA Taking ==
    ASSUME NEW S, NEW q \in Seq(S), q # <<>>
    PROVE  /\ Tail(q) \in Seq(S) /\ Head(q) \in S
           /\ \A types, c : Refers(Tail(q), types, c) => Refers(q, types, c)
           /\ \A types, c : Refers(q, types, c) =>
                  Refers(Tail(q), types, c) \/ (Head(q).type \in types /\ Head(q).arg = c)
           /\ \A type : Has(q, type) => Head(q).type = type \/ Has(Tail(q), type)
           /\ \A type : Once(q, type) => Once(Tail(q), type)
           /\ \A type : Once(q, type) /\ Head(q).type = type =>
                  ~Refers(Tail(q), {type}, Head(q).arg)
<1> DEFINE r == Tail(q)
<1>1. /\ r \in Seq(S) /\ Head(q) = q[1] /\ 1 \in DOMAIN q
      /\ \A i \in DOMAIN r : i + 1 \in DOMAIN q /\ r[i] = q[i + 1]
      /\ \A i \in DOMAIN q : i # 1 => i - 1 \in DOMAIN r /\ r[i - 1] = q[i]
  BY TailIsThinned
<1>2. Head(q) \in S
  BY <1>1
<1>3. DOMAIN r \subseteq Nat \ {0}
  BY <1>1
<1> HIDE DEF r
<1>4. \A types, c : Refers(r, types, c) => Refers(q, types, c)
  BY <1>1 DEF Refers
<1>5. \A types, c : Refers(q, types, c) =>
          Refers(r, types, c) \/ (Head(q).type \in types /\ Head(q).arg = c)
  BY <1>1 DEF Refers
<1>6. \A type : Has(q, type) => Head(q).type = type \/ Has(r, type)
  BY <1>1 DEF Has
<1>7. \A type : Once(q, type) => Once(r, type)
  BY <1>1, <1>3 DEF Once
<1>8. \A type : Once(q, type) /\ Head(q).type = type => ~Refers(r, {type}, Head(q).arg)
  <2> SUFFICES ASSUME NEW type, Once(q, type), Head(q).type = type,
                      NEW i \in DOMAIN r, r[i].type = type, r[i].arg = Head(q).arg
               PROVE  FALSE
    BY DEF Refers
  <2>1. i + 1 \in DOMAIN q /\ r[i] = q[i + 1] /\ i + 1 # 1
    BY <1>1, <1>3
  <2> QED BY <1>1, <2>1 DEF Once
<1>9. r \in Seq(S)
  BY <1>1
<1> QED BY <1>2, <1>4, <1>5, <1>6, <1>7, <1>8, <1>9 DEF r

\* A message is posted.
LEMMA Posting ==
    ASSUME NEW S, NEW q \in Seq(S), NEW m \in S
    PROVE  /\ Append(q, m) \in Seq(S)
           /\ \A types, c : Refers(Append(q, m), types, c) <=>
                  Refers(q, types, c) \/ (m.type \in types /\ m.arg = c)
           /\ \A type : Has(Append(q, m), type) <=> Has(q, type) \/ m.type = type
           /\ \A type : Once(q, type) /\ (m.type # type \/ ~Refers(q, {type}, m.arg)) =>
                  Once(Append(q, m), type)
<1> DEFINE r == Append(q, m)
           n == Len(q) + 1
<1>1. /\ r \in Seq(S) /\ DOMAIN q \subseteq Nat /\ Len(q) \in Nat
      /\ \A i \in DOMAIN q : i \in DOMAIN r /\ r[i] = q[i] /\ i <= Len(q)
      /\ n \in DOMAIN r /\ r[n] = m
      /\ \A i \in DOMAIN r : i \in DOMAIN q \/ i = n
  BY Appended
<1> HIDE DEF r, n
<1>2. \A types, c : Refers(r, types, c) <=> Refers(q, types, c) \/ (m.type \in types /\ m.arg = c)
  BY <1>1 DEF Refers
<1>3. \A type : Has(r, type) <=> Has(q, type) \/ m.type = type
  BY <1>1 DEF Has
<1>4. \A type : Once(q, type) /\ (m.type # type \/ ~Refers(q, {type}, m.arg)) => Once(r, type)
  BY <1>1 DEF Once, Refers
<1> QED BY <1>1, <1>2, <1>3, <1>4 DEF r

\* Messages are taken out.
LEMMA Removing ==
    ASSUME NEW S, NEW q \in Seq(S), NEW places
    PROVE  /\ Kept(q, places) \in Seq(S)
           /\ \A types, c : Refers(Kept(q, places), types, c) => Refers(q, types, c)
           /\ \A types, c : (\A i \in DOMAIN q : i \in places => ~(q[i].type \in types /\ q[i].arg = c))
                  => ~Refers(Kept(q, places), types, c)
<1> DEFINE r == Kept(q, places)
<1>1. /\ r \in Seq(S)
      /\ \A i \in DOMAIN r : \E k \in DOMAIN q : k \in places /\ r[i] = q[k]
  BY KeptMessages
<1> HIDE DEF r
<1> QED BY <1>1 DEF Refers, r
-----------------------------------------------------------------------------
LEMMA PlacesFinite ==
    ASSUME NEW S, NEW q \in Seq(S), NEW types
    PROVE  IsFiniteSet(Places(q, types)) /\ Count(q, types) \in Nat
<1>1. IsFiniteSet(1..Len(q))
  BY FS_Interval
<1>2. Places(q, types) \subseteq 1..Len(q)
  BY DEF Places
<1> QED BY <1>1, <1>2, FS_Subset, FS_CardinalityType DEF Count

\* A queue out of which messages were taken has no more of any kind.
LEMMA ThinnedCount ==
    ASSUME NEW S, NEW q \in Seq(S), NEW r \in Seq(S), NEW types, Thinned(q, r)
    PROVE  Count(r, types) <= Count(q, types)
<1>1. PICK order \in [DOMAIN r -> DOMAIN q] :
          /\ \A i \in DOMAIN r : r[i] = q[order[i]]
          /\ \A i, j \in DOMAIN r : i < j => order[i] < order[j]
  BY DEF Thinned
<1> DEFINE f == [i \in Places(r, types) |-> order[i]]
<1>2. f \in [Places(r, types) -> Places(q, types)]
  BY <1>1 DEF Places
<1>3. ASSUME NEW i \in Places(r, types), NEW j \in Places(r, types), f[i] = f[j] PROVE i = j
  <2>1. i \in DOMAIN r /\ j \in DOMAIN r /\ i \in Nat /\ j \in Nat
    BY DEF Places
  <2>2. order[i] = order[j] /\ order[i] \in Nat
    BY <1>1, <1>3, <2>1
  <2> QED BY <1>1, <2>1, <2>2
<1>4. f \in Injection(Places(r, types), Places(q, types))
  BY <1>2, <1>3 DEF Injection, IsInjective
<1> QED BY <1>4, PlacesFinite, FS_Injection DEF Count

LEMMA TakingCount ==
    ASSUME NEW S, NEW q \in Seq(S), q # <<>>, NEW types
    PROVE  /\ Count(Tail(q), types) <= Count(q, types)
           /\ Head(q).type \in types => Count(Tail(q), types) < Count(q, types)
<1> DEFINE r == Tail(q)
<1>1. /\ r \in Seq(S) /\ Head(q) = q[1] /\ 1 \in DOMAIN q
      /\ \A i \in DOMAIN r : i + 1 \in DOMAIN q /\ r[i] = q[i + 1]
  BY TailIsThinned
<1>2. Count(r, types) <= Count(q, types)
  BY TailIsThinned, ThinnedCount
<1>3. ASSUME Head(q).type \in types PROVE Count(r, types) < Count(q, types)
  <2> DEFINE f == [i \in Places(r, types) |-> i + 1]
             rest == Places(q, types) \ {1}
  <2>1. \A i \in Places(r, types) : i \in Nat \ {0} /\ i + 1 \in rest
    BY <1>1 DEF Places
  <2>2. f \in Injection(Places(r, types), rest)
    BY <2>1 DEF Injection, IsInjective
  <2>3. 1 \in Places(q, types)
    BY <1>1, <1>3 DEF Places
  <2>4. IsFiniteSet(rest) /\ Cardinality(rest) = Count(q, types) - 1
    BY <2>3, PlacesFinite, FS_RemoveElement DEF Count
  <2> HIDE DEF f, rest, r
  <2>5. Count(r, types) <= Cardinality(rest)
    BY <2>2, <2>4, FS_Injection DEF Count
  <2>6. Count(r, types) \in Nat /\ Count(q, types) \in Nat
    BY <1>1, PlacesFinite
  <2> QED BY <2>4, <2>5, <2>6
<1> QED BY <1>2, <1>3 DEF r

LEMMA PostingCount ==
    ASSUME NEW S, NEW q \in Seq(S), NEW m \in S, NEW types
    PROVE  /\ m.type \notin types => Count(Append(q, m), types) = Count(q, types)
           /\ Count(Append(q, m), types) <= Count(q, types) + 1
<1> DEFINE r == Append(q, m)
           n == Len(q) + 1
<1>1. /\ r \in Seq(S) /\ DOMAIN q \subseteq Nat /\ Len(q) \in Nat
      /\ \A i \in DOMAIN q : i \in DOMAIN r /\ r[i] = q[i] /\ i <= Len(q)
      /\ n \in DOMAIN r /\ r[n] = m
      /\ \A i \in DOMAIN r : i \in DOMAIN q \/ i = n
  BY Appended
<1> HIDE DEF r, n
<1>2. CASE m.type \notin types
  <2>1. Places(r, types) = Places(q, types)
    BY <1>1, <1>2 DEF Places
  <2> QED BY <1>2, <2>1, PlacesFinite DEF Count, r
<1>3. CASE m.type \in types
  <2>1. Places(r, types) = Places(q, types) \cup {n} /\ n \notin Places(q, types)
    BY <1>1, <1>3 DEF Places, n
  <2>2. Cardinality(Places(r, types)) = Cardinality(Places(q, types)) + 1
    BY <2>1, PlacesFinite, FS_AddElement
  <2> QED BY <1>3, <2>2, PlacesFinite DEF Count, r
<1> QED BY <1>2, <1>3
-----------------------------------------------------------------------------
(* Types *)

Statuses == {"gone", "empty", "card"}
MainSet ==
    [type : {"created"}, arg : Connections]
        \cup [type : {"requestDevices", "establish"}, arg : {None}]
        \cup [type : {"detect"}, arg : BOOLEAN]
        \cup [type : {"error"}, arg : {"refused", "failed"}]
ReaderSet ==
    [type : {"new"}, arg : Connections] \cup [type : {"devices"}, arg : BOOLEAN]
        \cup [type : {"context", "closed"}, arg : {None}]
        \cup [type : {"status"}, arg : Statuses]
ConnectorSet ==
    [type : {"establishContext", "getStatus", "close"} \cup CallTypes, arg : Connections]
        \cup [type : {"connect"}, arg : BOOLEAN]
WireSet ==
    [type : {"close", "context"}, arg : {None}] \cup [type : {"status"}, arg : Statuses]
        \cup [type : {"answer"}, to : CallTypes, ok : BOOLEAN]

NetworkTyped ==
    /\ sock \in [Connections -> {"none", "connecting", "pairing", "open", "closed", "missed"}]
    /\ ctx \in [Connections -> BOOLEAN]
    /\ wire \in [Connections -> Seq(WireSet)]
    /\ heard \subseteq Connections
ClientTyped ==
    /\ remote \in Statuses /\ served \in Connections \cup {None} /\ held \in BOOLEAN
    /\ trusted \in BOOLEAN /\ named \in BOOLEAN
    /\ pending \in Nat /\ refusals \in Nat
    /\ detecting \in BOOLEAN /\ listed \in BOOLEAN
PlugInTyped ==
    /\ scanning \in BOOLEAN /\ auto \in BOOLEAN /\ checking \in BOOLEAN
    /\ dispatcher \in Connections \cup {None}
    /\ DOMAIN readers \subseteq Connections \cup {NoName}
    /\ readers \in [DOMAIN readers -> [via : Connections, card : BOOLEAN, linked : BOOLEAN]]
    /\ call # None =>
           call \in [name : Connections \cup {NoName}, via : Connections, type : CallTypes,
                     result : {None, "ok", "error", "closed"}]
QueuesTyped ==
    toMain \in Seq(MainSet) /\ toReader \in Seq(ReaderSet) /\ toConnector \in Seq(ConnectorSet)
TypeOK == NetworkTyped /\ ClientTyped /\ PlugInTyped /\ QueuesTyped

\* What is at the head of each queue.
LEMMA Heads ==
    ASSUME QueuesTyped
    PROVE  /\ toMain # <<>> => /\ Tail(toMain) \in Seq(MainSet)
                               /\ Head(toMain) \in MainSet
           /\ toReader # <<>> => /\ Tail(toReader) \in Seq(ReaderSet)
                                 /\ Head(toReader) \in ReaderSet
           /\ toConnector # <<>> => /\ Tail(toConnector) \in Seq(ConnectorSet)
                                    /\ Head(toConnector) \in ConnectorSet
BY Taking DEF QueuesTyped

LEMMA HeadArgs ==
    ASSUME QueuesTyped
    PROVE  /\ Arrives(toMain, "created") => Head(toMain).arg \in Connections
           /\ Arrives(toMain, "detect") => Head(toMain).arg \in BOOLEAN
           /\ Arrives(toReader, "new") => Head(toReader).arg \in Connections
           /\ Arrives(toReader, "status") => Head(toReader).arg \in Statuses
           /\ toConnector # <<>> /\ Head(toConnector).type # "connect" =>
                  /\ Head(toConnector).type \in {"establishContext", "getStatus", "close"} \cup CallTypes
                  /\ Head(toConnector).arg \in Connections
BY Heads DEF Arrives, MainSet, ReaderSet, ConnectorSet, CallTypes

\* Messages as they are posted.
LEMMA Messages ==
    /\ \A c \in Connections : Msg("created", c) \in MainSet
    /\ \A type \in {"requestDevices", "establish"} : Msg(type, None) \in MainSet
    /\ \A on \in BOOLEAN : Msg("detect", on) \in MainSet
    /\ \A code \in {"refused", "failed"} : Msg("error", code) \in MainSet
    /\ \A c \in Connections : Msg("new", c) \in ReaderSet
    /\ \A on \in BOOLEAN : Msg("devices", on) \in ReaderSet
    /\ \A type \in {"context", "closed"} : Msg(type, None) \in ReaderSet
    /\ \A status \in Statuses : Msg("status", status) \in ReaderSet
    /\ \A c \in Connections, type \in {"establishContext", "getStatus", "close"} \cup CallTypes :
           Msg(type, c) \in ConnectorSet
    /\ \A psk \in BOOLEAN : Msg("connect", psk) \in ConnectorSet
    /\ \A type \in {"close", "context"} : Msg(type, None) \in WireSet
    /\ \A status \in Statuses : Msg("status", status) \in WireSet
    /\ \A type \in CallTypes, ok \in BOOLEAN : [type |-> "answer", to |-> type, ok |-> ok] \in WireSet
    /\ \A type, arg : Msg(type, arg).type = type /\ Msg(type, arg).arg = arg
BY DEF Msg, MainSet, ReaderSet, ConnectorSet, WireSet

LEMMA Answering ==
    ASSUME NetworkTyped, NEW c \in Connections, NEW m \in WireSet, Answer(c, <<m>>)
    PROVE  wire' \in [Connections -> Seq(WireSet)]
<1>1. wire[c] \in Seq(WireSet)
  BY DEF NetworkTyped
<1>2. wire[c] \o <<m>> \in Seq(WireSet)
  BY <1>1
<1> QED BY <1>2 DEF Answer, NetworkTyped

LEMMA WireTaken ==
    ASSUME NetworkTyped, NEW c \in Connections, NEW type, Receives(c, type)
    PROVE  /\ Head(wire[c]) \in WireSet
           /\ Received(c) => wire' \in [Connections -> Seq(WireSet)]
<1>1. wire[c] \in Seq(WireSet) /\ wire[c] # <<>>
  BY DEF NetworkTyped, Receives, Arrives
<1>2. Tail(wire[c]) \in Seq(WireSet) /\ Head(wire[c]) \in WireSet
  BY <1>1, Taking
<1> QED BY <1>2 DEF Received, NetworkTyped

LEMMA NetworkStep == ASSUME TypeOK, RemoteConnectionNext PROVE NetworkTyped'
<1>0. NetworkTyped /\ QueuesTyped /\ ClientTyped
  BY DEF TypeOK
<1>1. CASE UNCHANGED network
  BY <1>0, <1>1 DEF network, NetworkTyped
<1>2. CASE AddRemoteDispatcher \/ OnDispatcherClosed
  <2>1. UNCHANGED <<sock, ctx, wire>> /\ heard' \subseteq Connections
    BY <1>0, <1>2, HeadArgs DEF AddRemoteDispatcher, OnDispatcherClosed, NetworkTyped
  <2> QED BY <1>0, <2>1 DEF NetworkTyped
<1>3. CASE OnConnectRequest
  BY <1>0, <1>3 DEF OnConnectRequest, NetworkTyped
<1>4. ASSUME NEW c \in Connections, OnConnectionCreated(c) PROVE NetworkTyped'
  <2>1. sock' \in [Connections -> {"none", "connecting", "pairing", "open", "closed", "missed"}]
    BY <1>0, <1>4 DEF OnConnectionCreated, RemoveRequest, NetworkTyped
  <2>2. <<Msg("close", None)>> \in Seq(WireSet)
    BY Messages
  <2> QED BY <1>0, <1>4, <2>1, <2>2 DEF OnConnectionCreated, NetworkTyped
<1>5. ASSUME NEW c \in Connections, NEW code, OnConnectionError(c, code) PROVE NetworkTyped'
  BY <1>0, <1>5 DEF OnConnectionError, RemoveRequest, Failed, NetworkTyped
<1>6. ASSUME NEW c \in Connections, OnDisconnected(c) PROVE NetworkTyped'
  BY <1>0, <1>6 DEF OnDisconnected, NetworkTyped
<1>7. ASSUME NEW c \in Connections, Destroy(c) PROVE NetworkTyped'
  BY <1>0, <1>7 DEF Destroy, NetworkTyped
<1>8. ASSUME NEW c \in Connections, Delivery(c) PROVE NetworkTyped'
  <2>1. CASE ReceiveClose(c)
    BY <1>6, <2>1 DEF ReceiveClose
  <2>2. CASE ReceiveContext(c)
    BY <1>0, <2>2, WireTaken DEF ReceiveContext, NetworkTyped
  <2>3. CASE ReceiveStatus(c)
    BY <1>0, <2>3, WireTaken DEF ReceiveStatus, NetworkTyped
  <2>4. CASE ReceiveAnswer(c)
    BY <1>0, <2>4, WireTaken DEF ReceiveAnswer, NetworkTyped
  <2> QED BY <1>8, <2>1, <2>2, <2>3, <2>4 DEF Delivery
<1>9. ASSUME NEW c \in Connections, NEW m \in WireSet, Answer(c, <<m>>), UNCHANGED <<sock, ctx, heard>>
      PROVE  NetworkTyped'
  BY <1>0, <1>9, Answering DEF NetworkTyped
<1>10. CASE SendEstablishContext
  BY <1>0, <1>9, <1>10, HeadArgs, Messages DEF SendEstablishContext, Arrives
<1>11. CASE SendGetStatus
  BY <1>0, <1>9, <1>11, HeadArgs, Messages DEF SendGetStatus, Arrives, ClientTyped
<1>12. CASE SendCall
  <2> DEFINE m == Head(toConnector)
             ok == Grants(m.type)
  <2>1. m.type \in CallTypes /\ m.arg \in Connections
    BY <1>0, <1>12, HeadArgs DEF SendCall, CallTypes
  <2>2. ok \in BOOLEAN
    BY <1>0 DEF Grants, ClientTyped
  <2>3. Answer(m.arg, <<[type |-> "answer", to |-> m.type, ok |-> ok]>>) /\ UNCHANGED <<sock, ctx, heard>>
    BY <1>12 DEF SendCall
  <2> HIDE DEF m, ok
  <2> QED BY <1>9, <2>1, <2>2, <2>3, Messages
<1>13. ASSUME NEW status \in Statuses, ReaderChanges(status) PROVE NetworkTyped'
  BY <1>0, <1>1, <1>9, <1>13, Messages DEF ReaderChanges, ClientTyped, network
<1>14. CASE Close
  BY <1>0, <1>1, <1>6, <1>14, HeadArgs DEF Close, Arrives
<1>15. CASE MainThread
  BY <1>1, <1>2, <1>15 DEF MainThread, RequestRemoteDevices, Detect, EstablishAsked,
     OnRemoteDispatcherCreated, OnRemoteDispatcherError
<1>16. CASE ReaderThread
  BY <1>1, <1>2, <1>16 DEF ReaderThread, ContinueConnectToPairedReaders, OnContextEstablished,
     HandleIFDStatus, CallEnds
<1>17. CASE ConnectToPairedReaders \/ CallTimesOut \/ NoticesEnd \/ User
  BY <1>1, <1>17 DEF ConnectToPairedReaders, CallTimesOut, NoticesEnd, User, StartScan, StopScan, CallCard
<1>18. CASE Environment
  BY <1>1, <1>6, <1>13, <1>18 DEF Environment, Announce, Vanish, Pair, Break, Statuses
<1> QED BY <1>3, <1>4, <1>5, <1>7, <1>8, <1>10, <1>11, <1>12, <1>14, <1>15, <1>16, <1>17, <1>18
        DEF RemoteConnectionNext, ConnectorJobs, Resolves

LEMMA ClientStep == ASSUME TypeOK, RemoteConnectionNext PROVE ClientTyped'
<1>0. ClientTyped /\ QueuesTyped /\ RefusalLimit \in Nat \ {0}
  BY RemoteConnectionAssumption DEF TypeOK
<1>1. CASE UNCHANGED <<device, settings, client>>
  BY <1>0, <1>1 DEF device, settings, client, ClientTyped
<1>2. CASE Detect
  BY <1>0, <1>2, HeadArgs DEF Detect, ClientTyped, device, settings
<1>3. CASE EstablishAsked \/ OnRemoteDispatcherCreated \/ Announce \/ Vanish \/ Pair
  <2>1. Taken \in Nat /\ pending + 1 \in Nat
    BY <1>0 DEF Taken, ClientTyped
  <2>2. /\ pending' \in {pending, pending + 1, Taken} /\ refusals' \in {refusals, 0}
        /\ listed' \in {listed, TRUE, FALSE}
        /\ UNCHANGED <<device, settings, detecting>>
    BY <1>3 DEF EstablishAsked, OnRemoteDispatcherCreated, Announce, Vanish, Pair,
       EstablishConnection
  <2>3. pending' \in Nat /\ refusals' \in Nat
    BY <1>0, <2>1, <2>2 DEF ClientTyped
  <2>4. listed' \in BOOLEAN
    BY <1>0, <2>2 DEF ClientTyped
  <2> QED BY <1>0, <2>2, <2>3, <2>4 DEF ClientTyped, device, settings
<1>4. CASE OnRemoteDispatcherError
  <2>1. Taken \in Nat
    BY <1>0 DEF Taken, ClientTyped
  <2>2. (refusals + 1) % RefusalLimit \in Nat
    BY <1>0 DEF ClientTyped
  <2> DEFINE more == (refusals + 1) % RefusalLimit
  <2>3. /\ pending' = Taken /\ refusals' \in {more, 0, refusals}
        /\ trusted' \in {trusted, FALSE} /\ named' \in {named, FALSE}
        /\ UNCHANGED <<device, detecting, listed>>
    BY <1>4 DEF OnRemoteDispatcherError, settings
  <2>4. more \in Nat
    BY <2>2
  <2> HIDE DEF more
  <2>5. pending' \in Nat /\ refusals' \in Nat
    BY <1>0, <2>1, <2>3, <2>4 DEF ClientTyped
  <2>6. trusted' \in BOOLEAN /\ named' \in BOOLEAN
    BY <1>0, <2>3 DEF ClientTyped
  <2> QED BY <1>0, <2>3, <2>5, <2>6 DEF ClientTyped, device
<1>5. ASSUME NEW c \in Connections, OnConnectionCreated(c) PROVE ClientTyped'
  BY <1>0, <1>5 DEF OnConnectionCreated, ClientTyped, client
<1>6. CASE SendCall
  BY <1>0, <1>6 DEF SendCall, ClientTyped, settings, client
<1>7. CASE OnContextEstablished \/ NoticesEnd \/ \E status \in Statuses : ReaderChanges(status)
  BY <1>0, <1>7 DEF OnContextEstablished, NoticesEnd, ReaderChanges, ClientTyped, device, settings,
     client
<1>8. ASSUME NEW c \in Connections, OnDisconnected(c) PROVE UNCHANGED <<device, settings, client>>
  BY <1>8 DEF OnDisconnected
<1>9. CASE MainThread
  BY <1>1, <1>2, <1>3, <1>4, <1>9 DEF MainThread, RequestRemoteDevices
<1>10. CASE ConnectorJobs
  BY <1>0, <1>1, <1>6, <1>8, <1>10, HeadArgs DEF ConnectorJobs, OnConnectRequest, Close, SendEstablishContext,
     SendGetStatus, Arrives
<1>11. CASE ReaderThread
  BY <1>1, <1>7, <1>11 DEF ReaderThread, ContinueConnectToPairedReaders, AddRemoteDispatcher,
     OnDispatcherClosed, HandleIFDStatus, CallEnds
<1>12. CASE ConnectToPairedReaders \/ CallTimesOut \/ NoticesEnd \/ User
  BY <1>1, <1>7, <1>12 DEF ConnectToPairedReaders, CallTimesOut, User, StartScan, StopScan, CallCard
<1>13. CASE Environment
  BY <1>1, <1>3, <1>7, <1>8, <1>13 DEF Environment, Break, Statuses
<1>14. ASSUME NEW c \in Connections, Delivery(c) \/ Resolves(c) \/ Destroy(c) PROVE ClientTyped'
  BY <1>1, <1>5, <1>8, <1>14 DEF Delivery, ReceiveClose, ReceiveContext, ReceiveStatus, ReceiveAnswer,
     Resolves, OnConnectionError, Destroy,
     settings, device, client
<1> QED BY <1>9, <1>10, <1>11, <1>12, <1>13, <1>14 DEF RemoteConnectionNext

\* What RemoteCard::sendMessage leaves: a call to wait for, and its message.
LEMMA CallSent ==
    ASSUME QueuesTyped, NEW n \in Connections \cup {NoName}, NEW c \in Connections,
           NEW type \in CallTypes, Sends(n, c, type)
    PROVE  /\ call' \in [name : Connections \cup {NoName}, via : Connections, type : CallTypes,
                         result : {None, "ok", "error", "closed"}]
           /\ Msg(type, c) \in ConnectorSet /\ toConnector' = Append(toConnector, Msg(type, c))
BY Messages DEF Sends

LEMMA PlugInStep == ASSUME TypeOK, RemoteConnectionNext PROVE PlugInTyped'
<1> DEFINE CallSet == [name : Connections \cup {NoName}, via : Connections, type : CallTypes,
                       result : {None, "ok", "error", "closed"}]
           ReaderOf == [via : Connections, card : BOOLEAN, linked : BOOLEAN]
<1>0. PlugInTyped /\ QueuesTyped
  BY DEF TypeOK
<1>1. CASE UNCHANGED <<plugIn, call>>
  BY <1>0, <1>1 DEF plugIn, search, PlugInTyped
<1>2. ASSUME UNCHANGED plugIn, call' # None => call' \in CallSet PROVE PlugInTyped'
  BY <1>0, <1>2 DEF plugIn, search, PlugInTyped
<1>3. CASE ConnectToPairedReaders \/ ContinueConnectToPairedReaders \/ StopScan \/ OnDispatcherClosed
           \/ AddRemoteDispatcher
  <2>1. CASE OnDispatcherClosed
    BY <1>0, <2>1 DEF OnDispatcherClosed, Remaining, PlugInTyped, search
  <2>2. CASE AddRemoteDispatcher
    BY <1>0, <2>2, HeadArgs DEF AddRemoteDispatcher, PlugInTyped, search
  <2>3. CASE ConnectToPairedReaders \/ ContinueConnectToPairedReaders \/ StopScan
    BY <1>0, <2>3 DEF ConnectToPairedReaders, ContinueConnectToPairedReaders, StopScan, Checked,
       PlugInTyped
  <2> QED BY <1>3, <2>1, <2>2, <2>3
<1>4. ASSUME NEW connects \in BOOLEAN, StartScan(connects) PROVE PlugInTyped'
  BY <1>0, <1>4 DEF StartScan, PlugInTyped
<1>5. ASSUME NEW c \in Connections, OnDisconnected(c) PROVE PlugInTyped'
  <2>1. CASE Waits(c)
    BY <1>0, <1>2, <1>5, <2>1 DEF OnDisconnected, Waits, PlugInTyped
  <2>2. CASE ~Waits(c)
    BY <1>1, <1>5, <2>2 DEF OnDisconnected
  <2> QED BY <2>1, <2>2
<1>6. ASSUME NEW c \in Connections, ReceiveAnswer(c) PROVE PlugInTyped'
  <2>1. UNCHANGED plugIn
    BY <1>6 DEF ReceiveAnswer
  <2>2. call' = call \/ (call # None /\ \E r \in {"ok", "error"} : call' = [call EXCEPT !.result = r])
    BY <1>6 DEF ReceiveAnswer, Waits
  <2> QED BY <1>0, <1>2, <2>1, <2>2 DEF PlugInTyped
<1>7. ASSUME NEW n \in DOMAIN readers, NEW type \in CallTypes, CallCard(n, type) PROVE PlugInTyped'
  <2>1. n \in Connections \cup {NoName} /\ readers[n].via \in Connections
    BY <1>0 DEF PlugInTyped
  <2>2. Sends(n, readers[n].via, type) /\ UNCHANGED plugIn
    BY <1>7 DEF CallCard
  <2> QED BY <1>0, <1>2, <2>1, <2>2, CallSent
<1>8. CASE CallEnds
  <2>1. UNCHANGED <<search, dispatcher>> /\ call # None /\ call' = None
        /\ \/ readers' = readers
           \/ readers' = [readers EXCEPT ![call.name].linked = Links(call.type, @)]
    BY <1>8 DEF CallEnds
  <2>2. CASE readers' = readers
    BY <1>0, <2>1, <2>2 DEF PlugInTyped, search
  <2>3. CASE readers' = [readers EXCEPT ![call.name].linked = Links(call.type, @)]
    <3>1. \A before \in BOOLEAN : Links(call.type, before) \in BOOLEAN
      BY DEF Links
    <3>2. DOMAIN readers' = DOMAIN readers /\ readers' \in [DOMAIN readers -> ReaderOf]
      <4> HIDE DEF ReaderOf
      <4>1. ASSUME NEW n \in DOMAIN readers PROVE readers'[n] \in ReaderOf
        BY <1>0, <2>3, <3>1, <4>1 DEF PlugInTyped, ReaderOf
      <4> QED BY <1>0, <2>3, <4>1 DEF PlugInTyped
    <3> QED BY <1>0, <2>1, <3>2 DEF PlugInTyped, search
  <2> QED BY <2>1, <2>2, <2>3
<1>9. CASE HandleIFDStatus
  <2> DEFINE status == Head(toReader).arg
             exists == Name \in DOMAIN readers
             via == IF exists THEN readers[Name].via ELSE dispatcher
             linked == status = "card" /\ exists /\ readers[Name].linked
             new == [via |-> via, card |-> status = "card", linked |-> linked]
  <2>1. UNCHANGED <<search, dispatcher>>
    BY <1>9 DEF HandleIFDStatus
  <2>2. CASE dispatcher = None
    BY <1>0, <1>9, <2>1, <2>2 DEF HandleIFDStatus, PlugInTyped, search
  <2>3. CASE dispatcher # None
    <3>1. dispatcher \in Connections /\ Name \in Connections \cup {NoName}
      BY <1>0, <2>3 DEF PlugInTyped, Name
    <3>2. via \in Connections /\ linked \in BOOLEAN
      BY <1>0, <3>1 DEF PlugInTyped
    <3>3. readers' = [n \in DOMAIN readers \ {Name} |-> readers[n]] \/ readers' = With(Name, new)
      BY <1>9, <2>3 DEF HandleIFDStatus
    <3>4. call' = call \/ Sends(Name, via, "Connect")
      BY <1>9 DEF HandleIFDStatus
    <3>5. new \in ReaderOf
      BY <3>2
    <3> HIDE DEF new, via, ReaderOf
    <3>6. DOMAIN readers' \subseteq Connections \cup {NoName} /\ readers' \in [DOMAIN readers' -> ReaderOf]
      BY <1>0, <3>1, <3>3, <3>5 DEF With, PlugInTyped, ReaderOf
    <3>7. call' # None => call' \in CallSet
      BY <1>0, <3>1, <3>2, <3>4, CallSent DEF CallTypes, PlugInTyped
    <3> QED BY <1>0, <2>1, <3>6, <3>7 DEF PlugInTyped, search, ReaderOf
  <2> QED BY <2>2, <2>3
<1>10. CASE MainThread
  BY <1>1, <1>10 DEF MainThread, RequestRemoteDevices, Detect, EstablishAsked, OnRemoteDispatcherCreated,
     OnRemoteDispatcherError
<1>11. CASE ConnectorJobs
  BY <1>0, <1>1, <1>5, <1>11, HeadArgs DEF ConnectorJobs, OnConnectRequest, Close, SendEstablishContext,
     SendGetStatus, SendCall, Arrives
<1>12. CASE ReaderThread
  BY <1>1, <1>3, <1>8, <1>9, <1>12 DEF ReaderThread, OnContextEstablished
<1>13. CASE CallTimesOut \/ NoticesEnd \/ User
  BY <1>1, <1>2, <1>3, <1>4, <1>7, <1>13 DEF CallTimesOut, NoticesEnd, User
<1>14. CASE Environment
  BY <1>1, <1>5, <1>14 DEF Environment, Announce, Vanish, Pair, ReaderChanges, Break
<1>15. ASSUME NEW c \in Connections, Delivery(c) \/ Resolves(c) \/ Destroy(c) PROVE PlugInTyped'
  BY <1>1, <1>5, <1>6, <1>15 DEF Delivery, ReceiveClose, ReceiveContext, ReceiveStatus,
     Resolves, OnConnectionCreated, OnConnectionError, Destroy
<1> QED BY <1>3, <1>10, <1>11, <1>12, <1>13, <1>14, <1>15 DEF RemoteConnectionNext
-----------------------------------------------------------------------------
(* What a step does to each queue *)

Shifted(q, r) == q # <<>> /\ r = Tail(q)
Adds(q, r, types, S) == r = q \/ \E m \in S : m.type \notin types /\ r = Append(q, m)

LEMMA MainMoves ==
    ASSUME TypeOK, RemoteConnectionNext
    PROVE  \/ MainThread /\ Shifted(toMain, toMain')
           \/ \E c \in Connections :
                  OnConnectionCreated(c) /\ toMain' = Append(toMain, Msg("created", c))
           \/ \E c \in Connections, code \in {"refused", "failed"} :
                  OnConnectionError(c, code) /\ toMain' = Append(toMain, Msg("error", code))
           \/ Adds(toMain, toMain', {"created", "error"}, MainSet)
<1>0. QueuesTyped /\ toMain \in Seq(MainSet)
  BY DEF TypeOK, QueuesTyped
<1>1. CASE MainThread
  BY <1>1 DEF MainThread, RequestRemoteDevices, Detect, EstablishAsked, OnRemoteDispatcherCreated,
     OnRemoteDispatcherError, Arrives, Shifted
<1>2. ASSUME NEW c \in Connections, OnDisconnected(c) PROVE Adds(toMain, toMain', {"created", "error"}, MainSet)
  BY <1>0, <1>2, Messages DEF OnDisconnected, Adds
<1>3. CASE toMain' = toMain
  BY <1>3 DEF Adds
<1>4. CASE ConnectorJobs
  BY <1>0, <1>2, <1>3, <1>4, HeadArgs DEF ConnectorJobs, OnConnectRequest, Close, SendEstablishContext,
     SendGetStatus, SendCall, Arrives
<1>5. CASE ReaderThread \/ ConnectToPairedReaders
  BY <1>3, <1>5, Messages DEF ReaderThread, ContinueConnectToPairedReaders, AddRemoteDispatcher,
     OnContextEstablished, OnDispatcherClosed, HandleIFDStatus, CallEnds, ConnectToPairedReaders, Adds
<1>6. CASE CallTimesOut \/ NoticesEnd \/ User
  BY <1>3, <1>6, Messages DEF CallTimesOut, NoticesEnd, User, StartScan, StopScan, CallCard, Adds
<1>7. CASE Environment
  BY <1>2, <1>3, <1>7 DEF Environment, Announce, Vanish, Pair, ReaderChanges, Break
<1>8. ASSUME NEW c \in Connections, Delivery(c) \/ Destroy(c)
      PROVE  Adds(toMain, toMain', {"created", "error"}, MainSet)
  BY <1>2, <1>3, <1>8 DEF Delivery, ReceiveClose, ReceiveContext, ReceiveStatus, ReceiveAnswer, Destroy, Adds
<1>9. ASSUME NEW c \in Connections, Resolves(c)
      PROVE  \/ OnConnectionCreated(c) /\ toMain' = Append(toMain, Msg("created", c))
             \/ \E code \in {"refused", "failed"} :
                    OnConnectionError(c, code) /\ toMain' = Append(toMain, Msg("error", code))
  BY <1>9 DEF Resolves, OnConnectionCreated, OnConnectionError
<1> QED BY <1>1, <1>4, <1>5, <1>6, <1>7, <1>8, <1>9 DEF RemoteConnectionNext

LEMMA ReaderMoves ==
    ASSUME TypeOK, RemoteConnectionNext
    PROVE  \/ /\ ReaderThread /\ Shifted(toReader, toReader')
              /\ Head(toReader).type = "closed" => OnDispatcherClosed
              /\ Head(toReader).type = "new" => AddRemoteDispatcher
           \/ OnRemoteDispatcherCreated /\ pending > 0 /\ toReader' = Append(toReader, Msg("new", Head(toMain).arg))
           \/ Adds(toReader, toReader', {"new"}, ReaderSet)
<1>0. QueuesTyped /\ toReader \in Seq(ReaderSet) /\ NetworkTyped /\ listed \in BOOLEAN
  BY DEF TypeOK, QueuesTyped, ClientTyped
<1>1. CASE ContinueConnectToPairedReaders \/ AddRemoteDispatcher \/ OnContextEstablished \/ OnDispatcherClosed
           \/ HandleIFDStatus
  BY <1>1 DEF ContinueConnectToPairedReaders, AddRemoteDispatcher, OnContextEstablished, OnDispatcherClosed,
     HandleIFDStatus, Arrives, Shifted, ReaderThread
<1>2. ASSUME NEW c \in Connections, OnDisconnected(c) PROVE Adds(toReader, toReader', {"new"}, ReaderSet)
  BY <1>0, <1>2, Messages DEF OnDisconnected, Adds
<1>3. CASE toReader' = toReader
  BY <1>3 DEF Adds
<1>4. CASE ConnectorJobs
  BY <1>0, <1>2, <1>3, <1>4, HeadArgs DEF ConnectorJobs, OnConnectRequest, Close, SendEstablishContext,
     SendGetStatus, SendCall, Arrives
<1>5. CASE OnRemoteDispatcherCreated
  BY <1>3, <1>5 DEF OnRemoteDispatcherCreated
<1>6. CASE RequestRemoteDevices
  BY <1>0, <1>6, Messages DEF RequestRemoteDevices, Adds
<1>7. CASE MainThread
  BY <1>3, <1>5, <1>6, <1>7 DEF MainThread, Detect, EstablishAsked, OnRemoteDispatcherError
<1>8. CASE CallEnds \/ ConnectToPairedReaders \/ CallTimesOut \/ NoticesEnd \/ User
  BY <1>3, <1>8 DEF CallEnds, ConnectToPairedReaders, CallTimesOut, NoticesEnd, User, StartScan, StopScan, CallCard
<1>9. CASE Environment
  BY <1>2, <1>3, <1>9 DEF Environment, Announce, Vanish, Pair, ReaderChanges, Break
<1>10. ASSUME NEW c \in Connections, Delivery(c) \/ Destroy(c) \/ Resolves(c)
       PROVE  Adds(toReader, toReader', {"new"}, ReaderSet)
  <2>1. CASE ReceiveContext(c)
    BY <2>1, Messages DEF ReceiveContext, Adds
  <2>2. CASE ReceiveStatus(c)
    <3>1. Head(wire[c]) \in WireSet /\ Head(wire[c]).type = "status"
      BY <1>0, <2>2, WireTaken DEF ReceiveStatus, Receives, Arrives
    <3>2. Head(wire[c]).arg \in Statuses
      BY <3>1 DEF WireSet
    <3> QED BY <2>2, <3>2, Messages DEF ReceiveStatus, Adds
  <2>3. CASE ReceiveClose(c)
    BY <1>2, <2>3 DEF ReceiveClose
  <2>4. CASE toReader' = toReader
    BY <2>4 DEF Adds
  <2> QED BY <1>10, <2>1, <2>2, <2>3, <2>4 DEF Delivery, ReceiveAnswer, Destroy, Resolves, OnConnectionCreated,
          OnConnectionError
<1> QED BY <1>1, <1>4, <1>7, <1>8, <1>9, <1>10 DEF RemoteConnectionNext, ReaderThread

LEMMA ConnectorMoves ==
    ASSUME TypeOK, RemoteConnectionNext
    PROVE  \/ ConnectorJobs /\ Shifted(toConnector, toConnector')
           \/ \E psk \in BOOLEAN : EstablishConnection(psk) /\ (EstablishAsked \/ Pair)
           \/ \E c \in Connections : Destroy(c)
           \/ \E type \in {"getStatus", "close"} :
                  /\ dispatcher # None /\ toConnector' = Append(toConnector, Msg(type, dispatcher))
                  /\ OnContextEstablished \/ StopScan
           \/ Adds(toConnector, toConnector', {"connect", "close"}, ConnectorSet)
<1>0. QueuesTyped /\ toConnector \in Seq(ConnectorSet)
  BY DEF TypeOK, QueuesTyped
<1>1. CASE ConnectorJobs
  BY <1>1 DEF ConnectorJobs, OnConnectRequest, Close, SendEstablishContext, SendGetStatus, SendCall, Arrives, Shifted
<1>2. CASE EstablishAsked \/ Pair
  BY <1>2 DEF EstablishAsked, Pair
<1>3. CASE OnContextEstablished \/ StopScan
  BY <1>3 DEF OnContextEstablished, StopScan, Adds
<1>4. CASE toConnector' = toConnector
  BY <1>4 DEF Adds
<1>5. CASE AddRemoteDispatcher
  <2>1. Head(toReader).arg \in Connections
    BY <1>0, <1>5, HeadArgs DEF AddRemoteDispatcher
  <2>2. /\ Msg("establishContext", Head(toReader).arg) \in ConnectorSet
        /\ Msg("establishContext", Head(toReader).arg).type = "establishContext"
    BY <2>1, Messages
  <2> QED BY <1>5, <2>2 DEF AddRemoteDispatcher, Adds
<1>6. ASSUME NEW n \in Connections \cup {NoName}, NEW c \in Connections, NEW type \in CallTypes, Sends(n, c, type)
      PROVE  Adds(toConnector, toConnector', {"connect", "close"}, ConnectorSet)
  BY <1>0, <1>6, CallSent, Messages DEF Adds, CallTypes
<1>7. CASE HandleIFDStatus
  <2> DEFINE via == IF Name \in DOMAIN readers THEN readers[Name].via ELSE dispatcher
  <2>1. toConnector' = toConnector \/ (dispatcher # None /\ Sends(Name, via, "Connect"))
    BY <1>7 DEF HandleIFDStatus
  <2>2. dispatcher # None => via \in Connections /\ Name \in Connections \cup {NoName}
    BY DEF TypeOK, PlugInTyped, Name
  <2> HIDE DEF via
  <2> QED BY <1>4, <1>6, <2>1, <2>2 DEF CallTypes
<1>8. ASSUME NEW n \in DOMAIN readers, NEW type \in CallTypes, CallCard(n, type)
      PROVE  Adds(toConnector, toConnector', {"connect", "close"}, ConnectorSet)
  <2>1. n \in Connections \cup {NoName} /\ readers[n].via \in Connections
    BY DEF TypeOK, PlugInTyped
  <2> QED BY <1>6, <1>8, <2>1 DEF CallCard
<1>9. CASE MainThread
  BY <1>2, <1>4, <1>9 DEF MainThread, RequestRemoteDevices, Detect, OnRemoteDispatcherCreated,
     OnRemoteDispatcherError
<1>10. CASE ReaderThread
  BY <1>3, <1>4, <1>5, <1>7, <1>10 DEF ReaderThread, ContinueConnectToPairedReaders, OnDispatcherClosed, CallEnds
<1>11. CASE ConnectToPairedReaders \/ CallTimesOut \/ NoticesEnd \/ User
  BY <1>3, <1>4, <1>8, <1>11 DEF ConnectToPairedReaders, CallTimesOut, NoticesEnd, User, StartScan
<1>12. CASE Environment
  BY <1>2, <1>4, <1>12 DEF Environment, Announce, Vanish, ReaderChanges, Break
<1>13. ASSUME NEW c \in Connections, Delivery(c) \/ Resolves(c) PROVE toConnector' = toConnector
  BY <1>13 DEF Delivery, ReceiveClose, ReceiveContext, ReceiveStatus, ReceiveAnswer, Resolves, OnConnectionCreated,
     OnConnectionError
<1> QED BY <1>1, <1>4, <1>9, <1>10, <1>11, <1>12, <1>13 DEF RemoteConnectionNext

LEMMA AddsType ==
    ASSUME NEW S, NEW q \in Seq(S), NEW r, NEW types, Adds(q, r, types, S)
    PROVE  r \in Seq(S)
BY Posting DEF Adds

LEMMA QueuesStep == ASSUME TypeOK, RemoteConnectionNext PROVE QueuesTyped'
<1>0. QueuesTyped /\ toMain \in Seq(MainSet) /\ toReader \in Seq(ReaderSet) /\ toConnector \in Seq(ConnectorSet)
  BY DEF TypeOK, QueuesTyped
<1>1. toMain' \in Seq(MainSet)
  BY <1>0, MainMoves, Heads, Messages, Posting, AddsType DEF Shifted
<1>2. toReader' \in Seq(ReaderSet)
  <2>1. OnRemoteDispatcherCreated => Msg("new", Head(toMain).arg) \in ReaderSet
    BY <1>0, HeadArgs, Messages DEF OnRemoteDispatcherCreated
  <2> QED BY <1>0, <2>1, ReaderMoves, Heads, Posting, AddsType DEF Shifted
<1>3. toConnector' \in Seq(ConnectorSet)
  <2>1. \A c \in Connections : Destroy(c) => toConnector' \in Seq(ConnectorSet)
    BY <1>0, Removing DEF Destroy
  <2>2. \A psk \in BOOLEAN : EstablishConnection(psk) => toConnector' \in Seq(ConnectorSet)
    BY <1>0, Messages, Posting DEF EstablishConnection
  <2>3. ASSUME NEW type \in {"getStatus", "close"}, dispatcher # None,
               toConnector' = Append(toConnector, Msg(type, dispatcher))
        PROVE  toConnector' \in Seq(ConnectorSet)
    <3>1. dispatcher \in Connections
      BY <2>3 DEF TypeOK, PlugInTyped
    <3> QED BY <1>0, <2>3, <3>1, Messages, Posting
  <2> QED BY <1>0, <2>1, <2>2, <2>3, ConnectorMoves, Heads, AddsType DEF Shifted
<1> QED BY <1>1, <1>2, <1>3 DEF QueuesTyped

LEMMA TypeStep == ASSUME TypeOK, [RemoteConnectionNext]_vars PROVE TypeOK'
<1>1. CASE RemoteConnectionNext
  BY <1>1, NetworkStep, ClientStep, PlugInStep, QueuesStep DEF TypeOK
<1>2. CASE UNCHANGED vars
  BY <1>2 DEF vars, network, device, settings, client, plugIn, search, TypeOK, NetworkTyped, ClientTyped,
     PlugInTyped, QueuesTyped
<1> QED BY <1>1, <1>2

LEMMA TypeInit == RemoteConnectionInit => TypeOK
<1> SUFFICES ASSUME RemoteConnectionInit PROVE TypeOK
  OBVIOUS
<1>1. <<>> \in Seq(WireSet)
  OBVIOUS
<1>2. NetworkTyped
  BY <1>1 DEF RemoteConnectionInit, NetworkTyped
<1>3. ClientTyped
  BY DEF RemoteConnectionInit, ClientTyped, Statuses
<1>4. QueuesTyped
  BY DEF RemoteConnectionInit, QueuesTyped
<1>5. PlugInTyped
  <2>1. readers = << >> /\ DOMAIN readers = {}
    BY DEF RemoteConnectionInit
  <2>2. readers \in [DOMAIN readers -> [via : Connections, card : BOOLEAN, linked : BOOLEAN]]
    BY <2>1
  <2> QED BY <2>1, <2>2 DEF RemoteConnectionInit, PlugInTyped
<1> QED BY <1>2, <1>3, <1>4, <1>5 DEF TypeOK

\* What the threads of the computer, the connections and the device know of each
\* other is of its type, and so is every message between them.
THEOREM RemoteConnectionTypeOK == RemoteConnectionSpec => []TypeOK
BY TypeInit, TypeStep, PTL DEF RemoteConnectionSpec
-----------------------------------------------------------------------------
(* Every attempt is accounted for *)

Requests == {c \in Connections : Requested(c)}
Results == {"created", "error"}

\* The attempts RemoteClientImpl waits for are on their way to the connector, with
\* the connector, or on their way back; a request that is given up is waited for
\* all the same (RemoteConnectorImpl::removeRequest).
Attempts ==
    Count(toMain, Results) + Cardinality(Requests) + Count(toConnector, {"connect"}) <= pending

LEMMA RequestsFinite == IsFiniteSet(Requests) /\ Cardinality(Requests) \in Nat
<1>1. Requests \subseteq Connections /\ IsFiniteSet(Connections)
  BY RemoteConnectionAssumption DEF Requests
<1> QED BY <1>1, FS_Subset, FS_CardinalityType

\* Fewer requests, unless one is made.
LEMMA RequestsStep ==
    ASSUME TypeOK, RemoteConnectionNext
    PROVE  /\ Requests' \subseteq Requests \/ (OnConnectRequest /\ \E c : Requests' \subseteq Requests \cup {c})
           /\ \A c \in Connections : \A code :
                  OnConnectionCreated(c) \/ OnConnectionError(c, code) =>
                      c \in Requests /\ Requests' \subseteq Requests \ {c}
<1>0. NetworkTyped /\ QueuesTyped
  BY DEF TypeOK
<1>1. ASSUME sock' = sock PROVE Requests' \subseteq Requests
  BY <1>1 DEF Requests, Requested
<1>2. ASSUME NEW c \in Connections, NEW code, OnConnectionCreated(c) \/ OnConnectionError(c, code)
      PROVE  c \in Requests /\ Requests' \subseteq Requests \ {c}
  BY <1>0, <1>2 DEF OnConnectionCreated, OnConnectionError, Accepted, RemoveRequest, Failed, Requests, Requested,
     NetworkTyped
<1> DEFINE More == OnConnectRequest /\ \E c : Requests' \subseteq Requests \cup {c}
<1> SUFFICES Requests' \subseteq Requests \/ More
  BY <1>2
<1>3. CASE OnConnectRequest
  <2>1. PICK c, s : sock' = [sock EXCEPT ![c] = s]
    BY <1>3 DEF OnConnectRequest
  <2>2. Requests' \subseteq Requests \cup {c}
    BY <1>0, <2>1 DEF Requests, Requested, NetworkTyped
  <2> QED BY <1>3, <2>2
<1>4. ASSUME NEW c \in Connections, OnDisconnected(c) \/ Destroy(c) PROVE Requests' \subseteq Requests
  BY <1>0, <1>4 DEF OnDisconnected, Destroy, Requests, Requested, NetworkTyped
<1>5. CASE MainThread
  BY <1>1, <1>5 DEF MainThread, RequestRemoteDevices, Detect, EstablishAsked, OnRemoteDispatcherCreated,
     OnRemoteDispatcherError, network
<1>6. CASE ConnectorJobs
  <2>1. CASE Close
    BY <1>0, <1>1, <1>4, <2>1, HeadArgs DEF Close, Arrives, network
  <2> QED BY <1>1, <1>3, <1>6, <2>1 DEF ConnectorJobs, SendEstablishContext, SendGetStatus, SendCall
<1>7. CASE ReaderThread \/ ConnectToPairedReaders \/ CallTimesOut \/ NoticesEnd \/ User
  BY <1>1, <1>7 DEF ReaderThread, ContinueConnectToPairedReaders, AddRemoteDispatcher, OnContextEstablished,
     OnDispatcherClosed, HandleIFDStatus, CallEnds, ConnectToPairedReaders, CallTimesOut, NoticesEnd, User,
     StartScan, StopScan, CallCard, network
<1>8. CASE Environment
  BY <1>1, <1>4, <1>8 DEF Environment, Announce, Vanish, Pair, ReaderChanges, Break, network
<1>9. ASSUME NEW c \in Connections, Delivery(c) \/ Resolves(c) \/ Destroy(c) PROVE Requests' \subseteq Requests
  BY <1>1, <1>2, <1>4, <1>9 DEF Delivery, ReceiveClose, ReceiveContext, ReceiveStatus, ReceiveAnswer, Resolves
<1> QED BY <1>5, <1>6, <1>7, <1>8, <1>9 DEF RemoteConnectionNext

LEMMA RequestsCounted ==
    ASSUME TypeOK, RemoteConnectionNext
    PROVE  /\ Cardinality(Requests') \in Nat
           /\ Cardinality(Requests') <= Cardinality(Requests) + 1
           /\ ~OnConnectRequest => Cardinality(Requests') <= Cardinality(Requests)
           /\ \A c \in Connections : \A code :
                  OnConnectionCreated(c) \/ OnConnectionError(c, code) =>
                      Cardinality(Requests') <= Cardinality(Requests) - 1
<1>0. IsFiniteSet(Requests) /\ Cardinality(Requests) \in Nat
  BY RequestsFinite
<1>1. Cardinality(Requests') \in Nat
  <2>1. Requests' \subseteq Connections /\ IsFiniteSet(Connections)
    BY RemoteConnectionAssumption DEF Requests
  <2> QED BY <2>1, FS_Subset, FS_CardinalityType
<1>2. ASSUME Requests' \subseteq Requests PROVE Cardinality(Requests') <= Cardinality(Requests)
  BY <1>0, <1>2, FS_Subset
<1>3. ASSUME NEW c, Requests' \subseteq Requests \cup {c} PROVE Cardinality(Requests') <= Cardinality(Requests) + 1
  <2>1. /\ IsFiniteSet(Requests \cup {c})
        /\ Cardinality(Requests \cup {c}) \in {Cardinality(Requests), Cardinality(Requests) + 1}
    BY <1>0, FS_AddElement
  <2>2. Cardinality(Requests') <= Cardinality(Requests \cup {c})
    BY <1>3, <2>1, FS_Subset
  <2> QED BY <1>0, <1>1, <2>1, <2>2
<1>4. ASSUME NEW c, c \in Requests, Requests' \subseteq Requests \ {c}
      PROVE  Cardinality(Requests') <= Cardinality(Requests) - 1
  <2>1. IsFiniteSet(Requests \ {c}) /\ Cardinality(Requests \ {c}) = Cardinality(Requests) - 1
    BY <1>0, <1>4, FS_RemoveElement
  <2>2. Cardinality(Requests') <= Cardinality(Requests \ {c})
    BY <1>4, <2>1, FS_Subset
  <2> QED BY <2>1, <2>2
<1>5. Cardinality(Requests') <= Cardinality(Requests) + 1
  BY <1>0, <1>1, <1>2, <1>3, RequestsStep
<1>6. ~OnConnectRequest => Cardinality(Requests') <= Cardinality(Requests)
  BY <1>2, RequestsStep
<1>7. \A c \in Connections : \A code : OnConnectionCreated(c) \/ OnConnectionError(c, code) =>
          Cardinality(Requests') <= Cardinality(Requests) - 1
  BY <1>4, RequestsStep
<1> QED BY <1>1, <1>5, <1>6, <1>7

LEMMA PendingStep ==
    ASSUME TypeOK, RemoteConnectionNext
    PROVE  /\ OnRemoteDispatcherCreated \/ OnRemoteDispatcherError => pending' = Taken
           /\ pending' >= pending \/ OnRemoteDispatcherCreated \/ OnRemoteDispatcherError
<1>0. pending \in Nat /\ QueuesTyped
  BY DEF TypeOK, ClientTyped
<1>1. OnRemoteDispatcherCreated \/ OnRemoteDispatcherError => pending' = Taken
  BY DEF OnRemoteDispatcherCreated, OnRemoteDispatcherError
<1> SUFFICES pending' >= pending \/ OnRemoteDispatcherCreated \/ OnRemoteDispatcherError
  BY <1>1
<1>2. CASE EstablishAsked \/ Pair
  <2>1. pending' = pending + 1
    BY <1>2 DEF EstablishAsked, Pair, EstablishConnection
  <2> QED BY <1>0, <2>1
<1>3. CASE pending' = pending
  BY <1>0, <1>3
<1>4. ASSUME NEW c \in Connections, OnDisconnected(c) PROVE pending' = pending
  BY <1>4 DEF OnDisconnected, client
<1>5. CASE MainThread
  BY <1>2, <1>3, <1>5 DEF MainThread, RequestRemoteDevices, Detect, client
<1>6. CASE ConnectorJobs
  BY <1>0, <1>3, <1>4, <1>6, HeadArgs DEF ConnectorJobs, OnConnectRequest, Close, SendEstablishContext, SendGetStatus,
     SendCall, Arrives, client
<1>7. CASE ReaderThread \/ ConnectToPairedReaders \/ CallTimesOut \/ NoticesEnd \/ User
  BY <1>3, <1>7 DEF ReaderThread, ContinueConnectToPairedReaders, AddRemoteDispatcher, OnContextEstablished,
     OnDispatcherClosed, HandleIFDStatus, CallEnds, ConnectToPairedReaders, CallTimesOut, NoticesEnd, User,
     StartScan, StopScan, CallCard, client
<1>8. CASE Environment
  BY <1>2, <1>3, <1>4, <1>8 DEF Environment, Announce, Vanish, ReaderChanges, Break, client
<1>9. ASSUME NEW c \in Connections, Delivery(c) \/ Resolves(c) \/ Destroy(c) PROVE pending' = pending
  BY <1>4, <1>9 DEF Delivery, ReceiveClose, ReceiveContext, ReceiveStatus, ReceiveAnswer, Resolves,
     OnConnectionCreated, OnConnectionError, Destroy, client
<1> QED BY <1>3, <1>5, <1>6, <1>7, <1>8, <1>9 DEF RemoteConnectionNext

LEMMA AddsCount ==
    ASSUME NEW S, NEW q \in Seq(S), NEW r, NEW types, NEW few, Adds(q, r, types, S), few \subseteq types
    PROVE  Count(r, few) = Count(q, few)
<1>1. CASE r = q
  BY <1>1
<1>2. ASSUME NEW m \in S, m.type \notin types, r = Append(q, m) PROVE Count(r, few) = Count(q, few)
  <2>1. m.type \notin few
    BY <1>2
  <2> QED BY <1>2, <2>1, PostingCount
<1> QED BY <1>1, <1>2 DEF Adds

LEMMA AttemptsStep == ASSUME TypeOK, TypeOK', Attempts, RemoteConnectionNext PROVE Attempts'
<1> DEFINE connect == {"connect"}
           m == Count(toMain, Results)
           n == Count(toMain', Results)
           r == Cardinality(Requests)
           s == Cardinality(Requests')
           k == Count(toConnector, connect)
           l == Count(toConnector', connect)
<1>0. /\ toMain \in Seq(MainSet) /\ toMain' \in Seq(MainSet)
      /\ toConnector \in Seq(ConnectorSet) /\ toConnector' \in Seq(ConnectorSet)
      /\ pending \in Nat /\ pending' \in Nat /\ QueuesTyped
  BY DEF TypeOK, QueuesTyped, ClientTyped
<1>1. m \in Nat /\ n \in Nat /\ k \in Nat /\ l \in Nat /\ r \in Nat /\ s \in Nat
  BY <1>0, PlacesFinite, RequestsFinite, RequestsCounted
<1>2. m + r + k <= pending
  BY DEF Attempts
<1>3. \/ n <= m
      \/ n <= m + 1 /\ s <= r - 1
  <2>1. Shifted(toMain, toMain') => n <= m
    BY <1>0, TakingCount DEF Shifted
  <2>2. Adds(toMain, toMain', Results, MainSet) => n <= m
    BY <1>0, <1>1, AddsCount
  <2>3. \A x \in MainSet : toMain' = Append(toMain, x) => n <= m + 1
    BY <1>0, PostingCount
  <2> HIDE DEF n, m, s, r
  <2>4. \A c \in Connections : OnConnectionCreated(c) => s <= r - 1
    BY RequestsCounted DEF s, r
  <2>5. \A c \in Connections, code \in {"refused", "failed"} : OnConnectionError(c, code) => s <= r - 1
    BY RequestsCounted DEF s, r
  <2> QED BY <2>1, <2>2, <2>3, <2>4, <2>5, MainMoves, Messages DEF Results
<1>4. OnRemoteDispatcherCreated \/ OnRemoteDispatcherError => n < m /\ pending' = Taken
  BY <1>0, TakingCount, PendingStep DEF OnRemoteDispatcherCreated, OnRemoteDispatcherError, Arrives, Results
<1>5. OnConnectRequest => l < k
  BY <1>0, TakingCount DEF OnConnectRequest, Arrives
<1>6. \/ l <= k
      \/ l <= k + 1 /\ pending' = pending + 1
  <2>1. Shifted(toConnector, toConnector') => l <= k
    BY <1>0, TakingCount DEF Shifted
  <2>2. Adds(toConnector, toConnector', {"connect", "close"}, ConnectorSet) => l <= k
    BY <1>0, <1>1, AddsCount
  <2>3. ASSUME NEW x \in ConnectorSet, toConnector' = Append(toConnector, x)
        PROVE  l <= k + 1 /\ (x.type # "connect" => l <= k)
    <3>1. l <= k + 1
      BY <1>0, <2>3, PostingCount
    <3>2. ASSUME x.type # "connect" PROVE l = k
      <4>1. x.type \notin connect
        BY <3>2
      <4> HIDE DEF connect
      <4> QED BY <1>0, <2>3, <4>1, PostingCount
    <3> HIDE DEF l, k
    <3> QED BY <1>1, <3>1, <3>2
  <2>4. \A c \in Connections : Destroy(c) => l <= k
    <3> SUFFICES ASSUME NEW c \in Connections, Destroy(c) PROVE l <= k
      OBVIOUS
    <3>1. PICK places : toConnector' = Kept(toConnector, places)
      BY DEF Destroy
    <3>2. Thinned(toConnector, toConnector')
      BY <1>0, <3>1, KeptIsThinned
    <3> QED BY <1>0, <3>2, ThinnedCount
  <2> HIDE DEF l, k
  <2>5. \A psk \in BOOLEAN : EstablishConnection(psk) => l <= k + 1 /\ pending' = pending + 1
    BY <2>3, Messages DEF EstablishConnection
  <2>6. ASSUME NEW type \in {"getStatus", "close"}, dispatcher # None,
               toConnector' = Append(toConnector, Msg(type, dispatcher))
        PROVE  l <= k
    <3>1. dispatcher \in Connections
      BY <2>6 DEF TypeOK, PlugInTyped
    <3>2. Msg(type, dispatcher) \in ConnectorSet /\ Msg(type, dispatcher).type # "connect"
      BY <3>1, Messages
    <3> QED BY <2>3, <2>6, <3>2
  <2> QED BY <2>1, <2>2, <2>4, <2>5, <2>6, ConnectorMoves
<1>7. s <= r + 1 /\ (~OnConnectRequest => s <= r)
  BY RequestsCounted
<1>8. \/ pending' >= pending
      \/ n < m /\ pending' = Taken
  BY <1>4, PendingStep
<1> HIDE DEF m, n, r, s, k, l
<1>9. s <= r \/ (s <= r + 1 /\ l < k)
  BY <1>5, <1>7
<1>10. n < m => Taken = pending - 1
  BY <1>0, <1>1, <1>2 DEF Taken
<1>11. n + s + l <= pending'
  BY <1>0, <1>1, <1>2, <1>3, <1>6, <1>8, <1>9, <1>10
<1> QED BY <1>11 DEF Attempts, n, s, l

LEMMA AttemptsInit == RemoteConnectionInit => Attempts
<1> SUFFICES ASSUME RemoteConnectionInit PROVE Attempts
  OBVIOUS
<1>1. /\ Places(toMain, Results) = {} /\ Places(toConnector, {"connect"}) = {} /\ Requests = {}
      /\ pending = 0
  BY DEF RemoteConnectionInit, Places, Requests, Requested
<1> QED BY <1>1, FS_EmptySet DEF Attempts, Count

\* RemoteClientImpl waits for every attempt that is under way: the requests it has
\* asked for, those the connector makes, and the answers to them.
THEOREM AttemptsAccounted == RemoteConnectionSpec => []Attempts
<1>1. TypeOK /\ TypeOK' /\ Attempts /\ [RemoteConnectionNext]_vars => Attempts'
  <2>1. UNCHANGED vars /\ Attempts => Attempts'
    BY DEF vars, network, client, Attempts, Count, Places, Requests, Requested
  <2> QED BY <2>1, AttemptsStep
<1> QED BY <1>1, AttemptsInit, RemoteConnectionTypeOK, PTL DEF RemoteConnectionSpec

\* Q_ASSERT(false) in mapToAndTakeRemoteConnectorPending (RemoteClientImpl.cpp:98) is
\* never reached: every answer of the connector finds an attempt that waits for it.
THEOREM AnswersAlwaysExpected == RemoteConnectionSpec => []AnswersExpected
<1>1. TypeOK /\ Attempts => AnswersExpected
  <2> SUFFICES ASSUME TypeOK, Attempts PROVE AnswersExpected
    OBVIOUS
  <2> DEFINE m == Count(toMain, Results)
             r == Cardinality(Requests)
             k == Count(toConnector, {"connect"})
  <2>1. m \in Nat /\ r \in Nat /\ k \in Nat /\ pending \in Nat
    BY PlacesFinite, RequestsFinite DEF TypeOK, QueuesTyped, ClientTyped
  <2>2. m + r + k <= pending
    BY DEF Attempts
  <2> HIDE DEF m, r, k
  <2>3. m + r <= pending
    BY <2>1, <2>2
  <2> QED BY <2>3 DEF AnswersExpected, Count, Places, Requests, Results, m, r
<1> QED BY <1>1, AttemptsAccounted, RemoteConnectionTypeOK, PTL
-----------------------------------------------------------------------------
(* A dispatcher and its end, on their way to the plug-in *)

\* Nobody but the main thread knows of the dispatcher yet.
Created(c) == Refers(toMain, {"created"}, c) \/ Refers(toReader, {"new"}, c)
Told(c) == c \in heard
Idle(c) == sock[c] \in {"none", "connecting", "pairing"}

\* A dispatcher is handed over once: by the connector to the client, by the client
\* to the plug-in.
CreatedOnce ==
    /\ Once(toMain, "created") /\ Once(toReader, "new")
    /\ \A c \in Connections : ~(Refers(toMain, {"created"}, c) /\ Refers(toReader, {"new"}, c))

\* What has no socket has no listener, and nobody asks to close it.
IdleIsClean ==
    \A c \in Connections : Idle(c) => ~Told(c) /\ ~Refers(toConnector, {"close"}, c)

\* Before the plug-in has got a dispatcher nobody asks to close it, and its end is missed.
CreatedIsUnheard ==
    \A c \in Connections :
        Created(c) => sock[c] \in {"open", "missed"} /\ ~Told(c) /\ ~Refers(toConnector, {"close"}, c)

\* The plug-in listens to the dispatcher it has, and to those of its readers; if it was
\* told that one of them has ended, the news are in its queue.
Listening ==
    /\ dispatcher # None => Told(dispatcher)
    /\ \A n \in DOMAIN readers : Told(readers[n].via)
NewsComes ==
    /\ dispatcher # None /\ sock[dispatcher] = "closed" => Has(toReader, "closed")
    /\ \A n \in DOMAIN readers : sock[readers[n].via] = "closed" => Has(toReader, "closed")
Handover == CreatedOnce /\ IdleIsClean /\ CreatedIsUnheard /\ Listening /\ NewsComes

\* No more messages of this type than before.
NoMore(q, r, type) ==
    /\ Once(q, type) => Once(r, type)
    /\ \A c \in Connections : Refers(r, {type}, c) => Refers(q, {type}, c)

LEMMA HeadRefers ==
    ASSUME NEW S, NEW q \in Seq(S), q # <<>>
    PROVE  Refers(q, {Head(q).type}, Head(q).arg)
BY TailIsThinned DEF Refers

LEMMA NoMoreTaken ==
    ASSUME NEW S, NEW q \in Seq(S), q # <<>>, NEW type
    PROVE  NoMore(q, Tail(q), type)
BY Taking DEF NoMore

LEMMA NoMorePosted ==
    ASSUME NEW S, NEW q \in Seq(S), NEW m \in S, NEW type, m.type # type
    PROVE  NoMore(q, Append(q, m), type)
<1>1. Once(q, type) => Once(Append(q, m), type)
  BY Posting
<1>2. m.type \notin {type}
  OBVIOUS
<1>3. \A c : Refers(Append(q, m), {type}, c) => Refers(q, {type}, c)
  BY <1>2, Posting
<1> QED BY <1>1, <1>3 DEF NoMore

LEMMA NoMoreAdded ==
    ASSUME NEW S, NEW q \in Seq(S), NEW r, NEW types, NEW type \in types, Adds(q, r, types, S)
    PROVE  NoMore(q, r, type)
<1>1. CASE r = q
  BY <1>1 DEF NoMore
<1>2. ASSUME NEW m \in S, m.type \notin types, r = Append(q, m) PROVE NoMore(q, r, type)
  <2>1. m.type # type
    BY <1>2
  <2> QED BY <1>2, <2>1, NoMorePosted
<1> QED BY <1>1, <1>2 DEF Adds

\* Who is in a queue after a step.
LEMMA MainNews ==
    ASSUME TypeOK, RemoteConnectionNext
    PROVE  (\E c \in Connections : OnConnectionCreated(c)) \/ NoMore(toMain, toMain', "created")
<1>0. toMain \in Seq(MainSet)
  BY DEF TypeOK, QueuesTyped
<1>1. Shifted(toMain, toMain') => NoMore(toMain, toMain', "created")
  BY <1>0, NoMoreTaken DEF Shifted
<1>2. Adds(toMain, toMain', {"created", "error"}, MainSet) => NoMore(toMain, toMain', "created")
  BY <1>0, NoMoreAdded
<1>3. ASSUME NEW code \in {"refused", "failed"}, toMain' = Append(toMain, Msg("error", code))
      PROVE  NoMore(toMain, toMain', "created")
  <2>1. Msg("error", code) \in MainSet /\ Msg("error", code).type # "created"
    BY Messages
  <2> QED BY <1>0, <1>3, <2>1, NoMorePosted
<1> QED BY <1>1, <1>2, <1>3, MainMoves

LEMMA ReaderNews ==
    ASSUME TypeOK, RemoteConnectionNext
    PROVE  /\ OnRemoteDispatcherCreated \/ NoMore(toReader, toReader', "new")
           /\ OnDispatcherClosed \/ (Has(toReader, "closed") => Has(toReader', "closed"))
<1>0. toReader \in Seq(ReaderSet) /\ QueuesTyped
  BY DEF TypeOK, QueuesTyped
<1>1. CASE ReaderThread /\ Shifted(toReader, toReader')
  <2>1. NoMore(toReader, toReader', "new")
    BY <1>0, <1>1, NoMoreTaken DEF Shifted
  <2>2. Has(toReader, "closed") => Head(toReader).type = "closed" \/ Has(toReader', "closed")
    BY <1>0, <1>1, Taking DEF Shifted
  <2>3. Head(toReader).type = "closed" => OnDispatcherClosed \/ toReader = <<>>
    BY <1>1 DEF ReaderThread, ContinueConnectToPairedReaders, AddRemoteDispatcher, OnContextEstablished,
       OnDispatcherClosed, HandleIFDStatus, CallEnds, Arrives, Shifted
  <2> QED BY <1>1, <2>1, <2>2, <2>3 DEF Shifted
<1>2. CASE OnRemoteDispatcherCreated /\ toReader' = Append(toReader, Msg("new", Head(toMain).arg))
  <2>1. Msg("new", Head(toMain).arg) \in ReaderSet
    BY <1>0, <1>2, HeadArgs, Messages DEF OnRemoteDispatcherCreated
  <2> QED BY <1>0, <1>2, <2>1, Posting
<1>3. CASE Adds(toReader, toReader', {"new"}, ReaderSet)
  <2>1. NoMore(toReader, toReader', "new")
    BY <1>0, <1>3, NoMoreAdded
  <2>2. Has(toReader, "closed") => Has(toReader', "closed")
    BY <1>0, <1>3, Posting DEF Adds
  <2> QED BY <2>1, <2>2
<1> QED BY <1>1, <1>2, <1>3, ReaderMoves

LEMMA ConnectorNews ==
    ASSUME TypeOK, RemoteConnectionNext, NEW c \in Connections, Refers(toConnector', {"close"}, c)
    PROVE  Refers(toConnector, {"close"}, c) \/ c = dispatcher
<1>0. toConnector \in Seq(ConnectorSet)
  BY DEF TypeOK, QueuesTyped
<1>1. CASE Shifted(toConnector, toConnector')
  BY <1>0, <1>1, Taking DEF Shifted
<1>2. CASE Adds(toConnector, toConnector', {"connect", "close"}, ConnectorSet)
  <2>1. NoMore(toConnector, toConnector', "close")
    BY <1>0, <1>2, NoMoreAdded
  <2> QED BY <2>1 DEF NoMore
<1>3. ASSUME NEW d \in Connections, Destroy(d) PROVE Refers(toConnector, {"close"}, c)
  <2>1. PICK places : toConnector' = Kept(toConnector, places)
    BY <1>3 DEF Destroy
  <2> QED BY <1>0, <2>1, Removing
<1>4. ASSUME NEW psk \in BOOLEAN, EstablishConnection(psk) PROVE Refers(toConnector, {"close"}, c)
  <2>1. /\ Msg("connect", psk) \in ConnectorSet /\ Msg("connect", psk).type = "connect"
        /\ toConnector' = Append(toConnector, Msg("connect", psk))
    BY <1>4, Messages DEF EstablishConnection
  <2>2. NoMore(toConnector, toConnector', "close")
    BY <1>0, <2>1, NoMorePosted
  <2> QED BY <2>2 DEF NoMore
<1>5. ASSUME NEW type \in {"getStatus", "close"}, dispatcher # None,
             toConnector' = Append(toConnector, Msg(type, dispatcher))
      PROVE  Refers(toConnector, {"close"}, c) \/ c = dispatcher
  <2>1. dispatcher \in Connections
    BY <1>5 DEF TypeOK, PlugInTyped
  <2>2. Msg(type, dispatcher) \in ConnectorSet /\ Msg(type, dispatcher).arg = dispatcher
    BY <2>1, Messages
  <2> QED BY <1>0, <1>5, <2>2, Posting
<1> QED BY <1>1, <1>2, <1>3, <1>4, <1>5, ConnectorMoves

\* A connection ends.
Ends(c) == Break(c) \/ ReceiveClose(c) \/ (Close /\ c = Head(toConnector).arg /\ IsOpen(c))

\* The steps that change who has a socket, who listens, or whom the plug-in has.
Loud ==
    \/ \E c \in Connections : OnConnectionCreated(c) \/ Destroy(c) \/ Ends(c)
    \/ OnRemoteDispatcherCreated \/ AddRemoteDispatcher \/ OnDispatcherClosed

\* The readers have the dispatchers they had, or the one the plug-in has.
SameVias ==
    \A n \in DOMAIN readers' :
        \/ dispatcher # None /\ readers'[n].via = dispatcher
        \/ \E k \in DOMAIN readers : readers'[n].via = readers[k].via

\* No socket is opened or closed.
SameSockets ==
    \A c \in Connections :
        \/ sock'[c] = sock[c]
        \/ Idle(c) /\ sock'[c] \in {"none", "connecting", "pairing"}

LEMMA QuietReaders ==
    ASSUME TypeOK, RemoteConnectionNext, ~Loud
    PROVE  UNCHANGED dispatcher /\ SameVias
<1>0. PlugInTyped /\ QueuesTyped
  BY DEF TypeOK
<1>1. CASE UNCHANGED <<dispatcher, readers>>
  BY <1>1 DEF SameVias
<1>2. CASE HandleIFDStatus
  <2> DEFINE via == IF Name \in DOMAIN readers THEN readers[Name].via ELSE dispatcher
  <2>1. UNCHANGED dispatcher
    BY <1>2 DEF HandleIFDStatus
  <2>2. \/ readers' = readers
        \/ readers' = [n \in DOMAIN readers \ {Name} |-> readers[n]]
        \/ dispatcher # None /\ \E card, linked :
               readers' = With(Name, [via |-> via, card |-> card, linked |-> linked])
    <3>1. CASE dispatcher = None
      BY <1>2, <3>1 DEF HandleIFDStatus
    <3>2. CASE dispatcher # None
      <4> DEFINE linked == Head(toReader).arg = "card" /\ Name \in DOMAIN readers /\ readers[Name].linked
                 card == Head(toReader).arg = "card"
      <4>1. \/ readers' = [n \in DOMAIN readers \ {Name} |-> readers[n]]
            \/ readers' = With(Name, [via |-> via, card |-> card, linked |-> linked])
        BY <1>2, <3>2 DEF HandleIFDStatus
      <4> HIDE DEF linked, card, via
      <4> QED BY <3>2, <4>1
    <3> QED BY <3>1, <3>2
  <2>3. ASSUME dispatcher # None, NEW card, NEW linked,
               readers' = With(Name, [via |-> via, card |-> card, linked |-> linked])
        PROVE  SameVias
    <3>1. via = dispatcher \/ \E k \in DOMAIN readers : via = readers[k].via
      OBVIOUS
    <3> HIDE DEF via
    <3>2. \A n \in DOMAIN readers' : \/ readers'[n].via = via
                                     \/ \E k \in DOMAIN readers : readers'[n].via = readers[k].via
      BY <2>3 DEF With
    <3> QED BY <2>3, <3>1, <3>2 DEF SameVias
  <2>4. readers' = [n \in DOMAIN readers \ {Name} |-> readers[n]] => SameVias
    BY DEF SameVias
  <2> HIDE DEF via
  <2> QED BY <1>1, <2>1, <2>2, <2>3, <2>4
<1>3. CASE CallEnds
  <2>1. UNCHANGED dispatcher /\ call # None
        /\ (readers' = readers \/ readers' = [readers EXCEPT ![call.name].linked = Links(call.type, @)])
    BY <1>3 DEF CallEnds
  <2>2. DOMAIN readers' = DOMAIN readers /\ \A n \in DOMAIN readers : readers'[n].via = readers[n].via
    BY <1>0, <2>1 DEF PlugInTyped
  <2> QED BY <2>1, <2>2 DEF SameVias
<1>4. CASE MainThread
  BY <1>1, <1>4 DEF MainThread, RequestRemoteDevices, Detect, EstablishAsked, OnRemoteDispatcherError,
     Loud, plugIn
<1>5. CASE ConnectorJobs
  BY <1>0, <1>1, <1>5, HeadArgs DEF ConnectorJobs, OnConnectRequest, Close, SendEstablishContext, SendGetStatus,
     SendCall, Arrives, Loud, Ends, plugIn
<1>6. CASE ReaderThread
  BY <1>1, <1>2, <1>3, <1>6 DEF ReaderThread, ContinueConnectToPairedReaders, OnContextEstablished, Loud, plugIn
<1>7. CASE ConnectToPairedReaders \/ CallTimesOut \/ NoticesEnd \/ User
  BY <1>1, <1>7 DEF ConnectToPairedReaders, CallTimesOut, NoticesEnd, User, StartScan, StopScan, CallCard, plugIn
<1>8. CASE Environment
  BY <1>1, <1>8 DEF Environment, Announce, Vanish, Pair, ReaderChanges, Loud, Ends, plugIn
<1>9. ASSUME NEW c \in Connections, Delivery(c) \/ Resolves(c) \/ Destroy(c) PROVE UNCHANGED <<dispatcher, readers>>
  BY <1>9 DEF Delivery, ReceiveClose, ReceiveContext, ReceiveStatus, ReceiveAnswer, Resolves, OnConnectionError,
     Loud, Ends, plugIn
<1> QED BY <1>1, <1>4, <1>5, <1>6, <1>7, <1>8, <1>9 DEF RemoteConnectionNext

LEMMA QuietNetwork ==
    ASSUME TypeOK, RemoteConnectionNext, ~Loud
    PROVE  UNCHANGED heard /\ SameSockets
<1>0. NetworkTyped /\ QueuesTyped
  BY DEF TypeOK
<1>1. CASE UNCHANGED <<sock, heard>>
  BY <1>1 DEF SameSockets
<1>2. CASE OnConnectRequest
  <2> DEFINE T == {d \in Connections : Unused(d)}
  <2>1. T \in SUBSET Nat /\ T # {}
    BY <1>2, RemoteConnectionAssumption DEF OnConnectRequest
  <2>2. Min(T) \in T
    BY <2>1, LeastNumber DEF Min
  <2>3. /\ Min(T) \in Connections /\ Idle(Min(T)) /\ UNCHANGED heard
        /\ \E s \in {"pairing", "connecting"} : sock' = [sock EXCEPT ![Min(T)] = s]
    BY <1>2, <2>2 DEF OnConnectRequest, Unused, Idle
  <2> HIDE DEF T
  <2> QED BY <1>0, <2>3 DEF NetworkTyped, SameSockets
<1>3. ASSUME NEW c \in Connections, NEW code, OnConnectionError(c, code) PROVE UNCHANGED heard /\ SameSockets
  BY <1>0, <1>3 DEF OnConnectionError, Requested, RemoveRequest, Failed, NetworkTyped, SameSockets, Idle
<1>4. CASE MainThread
  BY <1>1, <1>4 DEF MainThread, RequestRemoteDevices, Detect, EstablishAsked, OnRemoteDispatcherError,
     Loud, network
<1>5. CASE ConnectorJobs
  BY <1>0, <1>1, <1>2, <1>5, HeadArgs DEF ConnectorJobs, Close, SendEstablishContext, SendGetStatus,
     SendCall, Arrives, Loud, Ends, network
<1>6. CASE ReaderThread
  BY <1>1, <1>6 DEF ReaderThread, ContinueConnectToPairedReaders, OnContextEstablished, HandleIFDStatus, CallEnds,
     Loud, network
<1>7. CASE ConnectToPairedReaders \/ CallTimesOut \/ NoticesEnd \/ User
  BY <1>1, <1>7 DEF ConnectToPairedReaders, CallTimesOut, NoticesEnd, User, StartScan, StopScan, CallCard, network
<1>8. CASE Environment
  BY <1>1, <1>8 DEF Environment, Announce, Vanish, Pair, ReaderChanges, Loud, Ends, network
<1>9. ASSUME NEW c \in Connections, Delivery(c) \/ Resolves(c) \/ Destroy(c) PROVE UNCHANGED heard /\ SameSockets
  BY <1>1, <1>3, <1>9 DEF Delivery, ReceiveClose, ReceiveContext, ReceiveStatus, ReceiveAnswer, Resolves,
     Loud, Ends, network
<1> QED BY <1>1, <1>4, <1>5, <1>6, <1>7, <1>8, <1>9 DEF RemoteConnectionNext

LEMMA HandoverQuiet ==
    ASSUME TypeOK, Handover, RemoteConnectionNext, ~Loud
    PROVE  Handover'
<1>1. /\ UNCHANGED <<dispatcher, heard>> /\ SameVias /\ SameSockets
      /\ dispatcher # None => dispatcher \in Connections
      /\ \A n \in DOMAIN readers : readers[n].via \in Connections
  BY QuietReaders, QuietNetwork DEF TypeOK, PlugInTyped
<1>2. NoMore(toMain, toMain', "created")
  BY MainNews DEF Loud
<1>3. NoMore(toReader, toReader', "new") /\ (Has(toReader, "closed") => Has(toReader', "closed"))
  BY ReaderNews DEF Loud
<1>4. \A c \in Connections :
          Refers(toConnector', {"close"}, c) => Refers(toConnector, {"close"}, c) \/ c = dispatcher
  BY ConnectorNews
<1>5. CreatedOnce'
  BY <1>2, <1>3 DEF Handover, CreatedOnce, NoMore
<1>6. \A c \in Connections : Created(c)' => Created(c)
  BY <1>2, <1>3 DEF Created, NoMore
<1>7. dispatcher # None => Told(dispatcher)
  BY DEF Handover, Listening, Told
<1>8. IdleIsClean'
  <2> SUFFICES ASSUME NEW c \in Connections, sock'[c] \in {"none", "connecting", "pairing"}
               PROVE  c \notin heard' /\ ~Refers(toConnector', {"close"}, c)
    BY DEF IdleIsClean, Idle, Told
  <2>1. ~Told(c) /\ ~Refers(toConnector, {"close"}, c)
    BY <1>1 DEF SameSockets, Idle, Handover, IdleIsClean
  <2>2. c # dispatcher
    BY <1>7, <2>1, RemoteConnectionAssumption
  <2> QED BY <1>1, <1>4, <2>1, <2>2 DEF Told
<1>9. CreatedIsUnheard'
  <2> SUFFICES ASSUME NEW c \in Connections, Created(c)'
               PROVE  sock'[c] \in {"open", "missed"} /\ c \notin heard' /\ ~Refers(toConnector', {"close"}, c)
    BY DEF CreatedIsUnheard, Told
  <2>1. sock[c] \in {"open", "missed"} /\ ~Told(c) /\ ~Refers(toConnector, {"close"}, c)
    BY <1>6 DEF Handover, CreatedIsUnheard
  <2>2. c # dispatcher
    BY <1>7, <2>1, RemoteConnectionAssumption
  <2>3. sock'[c] \in {"open", "missed"}
    BY <1>1, <2>1 DEF SameSockets, Idle
  <2> QED BY <1>1, <1>4, <2>1, <2>2, <2>3 DEF Told
<1>10. Listening'
  BY <1>1 DEF Handover, Listening, Told, SameVias
<1>11. \A c \in Connections : sock'[c] = "closed" => sock[c] = "closed"
  BY <1>1 DEF SameSockets, Idle
<1>12. NewsComes'
  BY <1>1, <1>3, <1>11 DEF Handover, NewsComes, SameVias
<1> QED BY <1>5, <1>8, <1>9, <1>10, <1>12 DEF Handover

\* RemoteConnectorImpl::onConnectionCreated
LEMMA HandoverCreated ==
    ASSUME TypeOK, Handover, NEW c \in Connections, OnConnectionCreated(c)
    PROVE  Handover'
<1>0. NetworkTyped /\ toMain \in Seq(MainSet)
  BY DEF TypeOK, QueuesTyped
<1>1. Idle(c) /\ UNCHANGED <<heard, dispatcher, readers, toReader, toConnector>>
  BY DEF OnConnectionCreated, Accepted, Idle, client, plugIn
<1>2. /\ sock'[c] = "open"
      /\ \A d \in Connections \ {c} : sock'[d] = sock[d] \/ (Idle(d) /\ sock'[d] = "none")
  BY <1>0 DEF OnConnectionCreated, RemoveRequest, Requested, Idle, NetworkTyped
<1>3. toMain' = Append(toMain, Msg("created", c)) /\ Msg("created", c) \in MainSet
      /\ Msg("created", c).type = "created" /\ Msg("created", c).arg = c
  BY Messages DEF OnConnectionCreated
<1>4. /\ \A d : Refers(toMain', {"created"}, d) <=> Refers(toMain, {"created"}, d) \/ d = c
      /\ Once(toMain, "created") /\ ~Refers(toMain, {"created"}, c) => Once(toMain', "created")
  BY <1>0, <1>3, Posting
<1>5. ~Told(c) /\ ~Refers(toConnector, {"close"}, c) /\ ~Created(c)
  BY <1>1 DEF Handover, IdleIsClean, CreatedIsUnheard, Idle
<1>6. CreatedOnce'
  BY <1>1, <1>4, <1>5 DEF Handover, CreatedOnce, Created
<1>7. IdleIsClean'
  BY <1>1, <1>2 DEF Handover, IdleIsClean, Idle, Told
<1>8. CreatedIsUnheard'
  <2> SUFFICES ASSUME NEW d \in Connections, Created(d)'
               PROVE  sock'[d] \in {"open", "missed"} /\ d \notin heard' /\ ~Refers(toConnector', {"close"}, d)
    BY DEF CreatedIsUnheard, Told
  <2>1. CASE d = c
    BY <1>1, <1>2, <1>5, <2>1 DEF Told
  <2>2. CASE d # c
    <3>1. Created(d)
      BY <1>1, <1>4, <2>2 DEF Created
    <3> QED BY <1>1, <1>2, <2>2, <3>1 DEF Handover, CreatedIsUnheard, Told, Idle
  <2> QED BY <2>1, <2>2
<1>9. Listening'
  BY <1>1 DEF Handover, Listening, Told
<1>10. \A d \in Connections : sock'[d] = "closed" => sock[d] = "closed"
  BY <1>2 DEF Idle
<1>11. NewsComes'
  BY <1>1, <1>10 DEF Handover, NewsComes, TypeOK, PlugInTyped
<1> QED BY <1>6, <1>7, <1>8, <1>9, <1>11 DEF Handover

\* The end of a connection is told to the plug-in, or missed.
LEMMA HandoverEnds ==
    ASSUME TypeOK, Handover, NEW c \in Connections, OnDisconnected(c), sock[c] = "open",
           NoMore(toConnector, toConnector', "close")
    PROVE  Handover'
<1>0. NetworkTyped /\ toMain \in Seq(MainSet) /\ toReader \in Seq(ReaderSet)
  BY DEF TypeOK, QueuesTyped
<1>1. UNCHANGED <<heard, dispatcher, readers, toMain>>
  BY DEF OnDisconnected, plugIn
<1>2. sock'[c] = (IF Told(c) THEN "closed" ELSE "missed") /\ \A d \in Connections \ {c} : sock'[d] = sock[d]
  BY <1>0 DEF OnDisconnected, NetworkTyped, Told
<1>3. NoMore(toMain, toMain', "created")
  BY <1>1 DEF NoMore
<1>4. /\ NoMore(toReader, toReader', "new") /\ (Has(toReader, "closed") => Has(toReader', "closed"))
      /\ Told(c) => Has(toReader', "closed")
  <2>1. Msg("closed", None) \in ReaderSet /\ Msg("closed", None).type = "closed"
    BY Messages
  <2>2. toReader' = IF Told(c) THEN Append(toReader, Msg("closed", None)) ELSE toReader
    BY <1>0, <2>1 DEF OnDisconnected, Told
  <2>3. toReader' = toReader \/ toReader' = Append(toReader, Msg("closed", None))
    BY <2>2
  <2>4. NoMore(toReader, toReader', "new")
    BY <1>0, <2>1, <2>3, NoMorePosted DEF NoMore
  <2>5. Has(toReader, "closed") => Has(toReader', "closed")
    BY <1>0, <2>1, <2>3, Posting
  <2>6. Told(c) => Has(toReader', "closed")
    BY <1>0, <2>1, <2>2, Posting
  <2> QED BY <2>4, <2>5, <2>6
<1>5. \A d \in Connections : Created(d)' => Created(d)
  BY <1>3, <1>4 DEF Created, NoMore
<1>6. CreatedOnce'
  BY <1>3, <1>4 DEF Handover, CreatedOnce, NoMore
<1>7. \A d \in Connections : Refers(toConnector', {"close"}, d) => Refers(toConnector, {"close"}, d)
  BY DEF NoMore
<1>8. IdleIsClean'
  BY <1>1, <1>2, <1>7 DEF Handover, IdleIsClean, Idle, Told
<1>9. CreatedIsUnheard'
  <2> SUFFICES ASSUME NEW d \in Connections, Created(d)'
               PROVE  sock'[d] \in {"open", "missed"} /\ d \notin heard' /\ ~Refers(toConnector', {"close"}, d)
    BY DEF CreatedIsUnheard, Told
  <2> QED BY <1>1, <1>2, <1>5, <1>7 DEF Handover, CreatedIsUnheard, Told
<1>10. Listening'
  BY <1>1 DEF Handover, Listening, Told
<1>11. NewsComes'
  <2>1. ASSUME NEW d \in Connections, sock'[d] = "closed", sock[d] = "closed" => Has(toReader, "closed")
        PROVE  Has(toReader', "closed")
    BY <1>2, <1>4, <2>1
  <2>2. dispatcher # None => dispatcher \in Connections /\ Told(dispatcher)
    BY DEF TypeOK, PlugInTyped, Handover, Listening
  <2>3. \A n \in DOMAIN readers : readers[n].via \in Connections /\ Told(readers[n].via)
    BY DEF TypeOK, PlugInTyped, Handover, Listening
  <2> QED BY <1>1, <2>1, <2>2, <2>3 DEF Handover, NewsComes
<1> QED BY <1>6, <1>8, <1>9, <1>10, <1>11 DEF Handover

\* RemoteDispatcher is deleted.
LEMMA HandoverDestroyed ==
    ASSUME TypeOK, Handover, NEW c \in Connections, Destroy(c)
    PROVE  Handover'
<1>0. NetworkTyped /\ toConnector \in Seq(ConnectorSet)
  BY DEF TypeOK, QueuesTyped
<1>1. /\ UNCHANGED <<dispatcher, readers, toMain, toReader>>
      /\ dispatcher # c /\ (\A n \in DOMAIN readers : readers[n].via # c) /\ ~Created(c)
  BY DEF Destroy, Referenced, Created, plugIn
<1>2. /\ sock'[c] = "none" /\ c \notin heard'
      /\ \A d \in Connections \ {c} : sock'[d] = sock[d] /\ (d \in heard' <=> Told(d))
  BY <1>0 DEF Destroy, NetworkTyped, Told
<1>3. /\ \A d \in Connections : Refers(toConnector', {"close"}, d) => Refers(toConnector, {"close"}, d)
      /\ ~Refers(toConnector', {"close"}, c)
  <2> DEFINE places == {i \in DOMAIN toConnector : \/ toConnector[i].type \notin {"establishContext", "close"}
                                                   \/ toConnector[i].arg # c}
  <2>1. toConnector' = Kept(toConnector, places)
    BY DEF Destroy
  <2>2. \A i \in DOMAIN toConnector : i \in places => ~(toConnector[i].type \in {"close"} /\ toConnector[i].arg = c)
    OBVIOUS
  <2> HIDE DEF places
  <2>3. ~Refers(toConnector', {"close"}, c)
    BY <1>0, <2>1, <2>2, Removing
  <2> QED BY <1>0, <2>1, <2>3, Removing
<1>4. CreatedOnce'
  BY <1>1 DEF Handover, CreatedOnce
<1>5. IdleIsClean'
  BY <1>2, <1>3 DEF Handover, IdleIsClean, Idle, Told
<1>6. CreatedIsUnheard'
  <2> SUFFICES ASSUME NEW d \in Connections, Created(d)'
               PROVE  sock'[d] \in {"open", "missed"} /\ d \notin heard' /\ ~Refers(toConnector', {"close"}, d)
    BY DEF CreatedIsUnheard, Told
  <2>1. Created(d) /\ d # c
    BY <1>1 DEF Created
  <2> QED BY <1>2, <1>3, <2>1 DEF Handover, CreatedIsUnheard, Told
<1>7. Listening' /\ NewsComes'
  <2>1. \A d \in Connections : d # c => (Told(d) => d \in heard') /\ sock'[d] = sock[d]
    BY <1>2 DEF Told
  <2>2. dispatcher # None => dispatcher \in Connections
    BY DEF TypeOK, PlugInTyped
  <2>3. \A n \in DOMAIN readers : readers[n].via \in Connections
    BY DEF TypeOK, PlugInTyped
  <2>4. Listening'
    BY <1>1, <2>1, <2>2, <2>3 DEF Handover, Listening, Told
  <2>5. NewsComes'
    BY <1>1, <2>1, <2>2, <2>3 DEF Handover, NewsComes
  <2> QED BY <2>4, <2>5
<1> QED BY <1>4, <1>5, <1>6, <1>7 DEF Handover

\* RemoteClientImpl::onRemoteDispatcherCreated hands the dispatcher over.
LEMMA HandoverHanded ==
    ASSUME TypeOK, Handover, OnRemoteDispatcherCreated
    PROVE  Handover'
<1> DEFINE c == Head(toMain).arg
<1>0. /\ NetworkTyped /\ toMain \in Seq(MainSet) /\ toReader \in Seq(ReaderSet)
      /\ c \in Connections /\ toMain # <<>> /\ Head(toMain).type = "created"
  BY HeadArgs DEF TypeOK, QueuesTyped, OnRemoteDispatcherCreated, Arrives
<1>1. UNCHANGED <<sock, heard, dispatcher, readers, toConnector>> /\ toMain' = Tail(toMain)
  BY DEF OnRemoteDispatcherCreated, network, plugIn
<1>2. toReader' = toReader \/ toReader' = Append(toReader, Msg("new", c))
  BY DEF OnRemoteDispatcherCreated
<1> HIDE DEF c
<1>3. Refers(toMain, {"created"}, c)
  BY <1>0, HeadRefers DEF c
<1>4. /\ NoMore(toMain, toMain', "created")
      /\ Once(toMain, "created") => ~Refers(toMain', {"created"}, c)
  BY <1>0, <1>1, NoMoreTaken, Taking DEF c
<1>5. /\ \A d : Refers(toReader', {"new"}, d) => Refers(toReader, {"new"}, d) \/ d = c
      /\ Has(toReader, "closed") => Has(toReader', "closed")
      /\ Once(toReader, "new") /\ ~Refers(toReader, {"new"}, c) => Once(toReader', "new")
  <2>1. Msg("new", c) \in ReaderSet /\ Msg("new", c).type = "new" /\ Msg("new", c).arg = c
    BY <1>0, Messages
  <2>2. CASE toReader' = toReader
    BY <2>2
  <2>3. CASE toReader' = Append(toReader, Msg("new", c))
    BY <1>0, <2>1, <2>3, Posting
  <2> QED BY <1>2, <2>2, <2>3
<1>6. \A d \in Connections : Created(d)' => Created(d)
  BY <1>3, <1>4, <1>5 DEF Created, NoMore
<1>7. CreatedOnce'
  BY <1>0, <1>3, <1>4, <1>5 DEF Handover, CreatedOnce, NoMore
<1>8. IdleIsClean'
  BY <1>1 DEF Handover, IdleIsClean, Idle, Told
<1>9. CreatedIsUnheard'
  BY <1>1, <1>6 DEF Handover, CreatedIsUnheard, Told
<1>10. Listening' /\ NewsComes'
  BY <1>1, <1>5 DEF Handover, Listening, NewsComes, Told
<1> QED BY <1>7, <1>8, <1>9, <1>10 DEF Handover

\* The plug-in listens from now on.
LEMMA HandoverAdded ==
    ASSUME TypeOK, TypeOK', Handover, AddRemoteDispatcher
    PROVE  Handover'
<1> DEFINE c == Head(toReader).arg
<1>0. /\ NetworkTyped /\ toReader \in Seq(ReaderSet) /\ toConnector \in Seq(ConnectorSet)
      /\ c \in Connections /\ toReader # <<>> /\ Head(toReader).type = "new"
  BY HeadArgs DEF TypeOK, QueuesTyped, AddRemoteDispatcher, Arrives
<1>1. /\ UNCHANGED <<sock, readers, toMain>> /\ dispatcher' = c /\ toReader' = Tail(toReader)
      /\ heard' = heard \cup {c}
      /\ toConnector' = Append(toConnector, Msg("establishContext", c))
  BY DEF AddRemoteDispatcher
<1>2. /\ NoMore(toReader, toReader', "new")
      /\ Once(toReader, "new") => ~Refers(toReader', {"new"}, c)
      /\ Has(toReader, "closed") => Has(toReader', "closed")
  BY <1>0, <1>1, NoMoreTaken, Taking
<1>3. Refers(toReader, {"new"}, c)
  BY <1>0, HeadRefers
<1> HIDE DEF c
<1>4. NoMore(toConnector, toConnector', "close")
  <2>1. Msg("establishContext", c) \in ConnectorSet /\ Msg("establishContext", c).type # "close"
    BY <1>0, Messages
  <2> QED BY <1>0, <1>1, <2>1, NoMorePosted
<1>5. CreatedOnce'
  BY <1>1, <1>2 DEF Handover, CreatedOnce, NoMore
<1>6. \A d \in Connections : Created(d)' => Created(d) /\ d # c
  BY <1>0, <1>1, <1>2, <1>3 DEF Created, NoMore, Handover, CreatedOnce
<1>7. sock[c] \in {"open", "missed"}
  BY <1>0, <1>3 DEF Handover, CreatedIsUnheard, Created
<1>8. c \in heard' /\ \A d \in Connections : d # c => (d \in heard' <=> Told(d))
  BY <1>1 DEF Told
<1>9. IdleIsClean'
  BY <1>1, <1>4, <1>7, <1>8 DEF Handover, IdleIsClean, Idle, Told, NoMore
<1>10. CreatedIsUnheard'
  <2> SUFFICES ASSUME NEW d \in Connections, Created(d)'
               PROVE  sock'[d] \in {"open", "missed"} /\ d \notin heard' /\ ~Refers(toConnector', {"close"}, d)
    BY DEF CreatedIsUnheard, Told
  <2> QED BY <1>1, <1>4, <1>6, <1>8 DEF Handover, CreatedIsUnheard, Told, NoMore
<1>11. Listening' /\ NewsComes'
  <2>1. \A n \in DOMAIN readers : readers[n].via \in Connections
    BY DEF TypeOK, PlugInTyped
  <2>2. Listening'
    BY <1>1, <1>8, <2>1 DEF Handover, Listening, Told
  <2>3. NewsComes'
    BY <1>1, <1>2, <1>7 DEF Handover, NewsComes
  <2> QED BY <2>2, <2>3
<1> QED BY <1>5, <1>9, <1>10, <1>11 DEF Handover

\* RemoteReaderManagerPlugIn::removeDispatcher
LEMMA HandoverRemoved ==
    ASSUME TypeOK, Handover, OnDispatcherClosed
    PROVE  Handover'
<1>0. NetworkTyped /\ toReader \in Seq(ReaderSet) /\ toReader # <<>>
  BY DEF TypeOK, QueuesTyped, OnDispatcherClosed, Arrives
<1>1. /\ UNCHANGED <<sock, toMain, toConnector>> /\ dispatcher' = None /\ DOMAIN readers' = {}
      /\ toReader' = Tail(toReader)
      /\ heard' \subseteq heard
  BY DEF OnDispatcherClosed, Remaining
<1>2. NoMore(toReader, toReader', "new")
  BY <1>0, <1>1, NoMoreTaken
<1>3. \A d \in Connections : Created(d)' => Created(d)
  BY <1>1, <1>2 DEF Created, NoMore
<1>4. CreatedOnce'
  BY <1>1, <1>2 DEF Handover, CreatedOnce, NoMore
<1>5. IdleIsClean'
  BY <1>1 DEF Handover, IdleIsClean, Idle, Told
<1>6. CreatedIsUnheard'
  <2> SUFFICES ASSUME NEW d \in Connections, Created(d)'
               PROVE  sock'[d] \in {"open", "missed"} /\ d \notin heard' /\ ~Refers(toConnector', {"close"}, d)
    BY DEF CreatedIsUnheard, Told
  <2> QED BY <1>1, <1>3 DEF Handover, CreatedIsUnheard, Told
<1>7. Listening' /\ NewsComes'
  BY <1>1 DEF Listening, NewsComes
<1> QED BY <1>4, <1>5, <1>6, <1>7 DEF Handover

\* However a connection ends, nobody asks to close another one.
LEMMA EndsAreKnown ==
    ASSUME TypeOK, NEW c \in Connections, Ends(c)
    PROVE  OnDisconnected(c) /\ sock[c] = "open" /\ NoMore(toConnector, toConnector', "close")
<1>0. toConnector \in Seq(ConnectorSet)
  BY DEF TypeOK, QueuesTyped
<1>1. CASE Break(c) \/ ReceiveClose(c)
  BY <1>1 DEF Break, ReceiveClose, Receives, IsOpen, NoMore, bounds
<1>2. CASE Close /\ c = Head(toConnector).arg /\ IsOpen(c)
  <2>1. OnDisconnected(c) /\ sock[c] = "open" /\ toConnector' = Tail(toConnector) /\ toConnector # <<>>
    BY <1>2 DEF Close, Arrives, IsOpen
  <2> QED BY <1>0, <2>1, NoMoreTaken
<1> QED BY <1>1, <1>2 DEF Ends

LEMMA HandoverStep ==
    ASSUME TypeOK, TypeOK', Handover, [RemoteConnectionNext]_vars
    PROVE  Handover'
<1>1. CASE RemoteConnectionNext
  <2>1. ASSUME NEW c \in Connections, OnConnectionCreated(c) \/ Destroy(c) \/ Ends(c) PROVE Handover'
    BY <2>1, HandoverCreated, HandoverDestroyed, EndsAreKnown, HandoverEnds
  <2>2. CASE OnRemoteDispatcherCreated \/ AddRemoteDispatcher \/ OnDispatcherClosed
    BY <2>2, HandoverHanded, HandoverAdded, HandoverRemoved
  <2> QED BY <1>1, <2>1, <2>2, HandoverQuiet DEF Loud
<1>2. CASE UNCHANGED vars
  BY <1>2 DEF vars, network, plugIn, Handover, CreatedOnce, IdleIsClean, CreatedIsUnheard, Listening, NewsComes,
     Created, Told, Idle
<1> QED BY <1>1, <1>2

LEMMA HandoverInit == RemoteConnectionInit => Handover
<1> SUFFICES ASSUME RemoteConnectionInit PROVE Handover
  OBVIOUS
<1>1. /\ heard = {} /\ dispatcher = None /\ DOMAIN readers = {}
      /\ toMain = <<>> /\ toReader = <<>> /\ toConnector = <<>>
  BY DEF RemoteConnectionInit
<1> QED BY <1>1 DEF Handover, CreatedOnce, IdleIsClean, CreatedIsUnheard, Listening, NewsComes, Created, Refers, Once, Told

\* A dispatcher is handed over once, unheard of until the plug-in has it; from then on the
\* plug-in is told of the end of whatever it has a reader for.
THEOREM HandoverKept == RemoteConnectionSpec => []Handover
<1>1. TypeOK /\ TypeOK' /\ Handover /\ [RemoteConnectionNext]_vars => Handover'
  BY HandoverStep
<1> QED BY <1>1, HandoverInit, RemoteConnectionTypeOK, PTL DEF RemoteConnectionSpec

\* What the plug-in listens to has a socket, or has had one.
LEMMA HeardEnds ==
    ASSUME TypeOK, Handover, NEW c \in Connections, Told(c)
    PROVE  sock[c] \in {"open", "closed", "missed"}
BY DEF TypeOK, NetworkTyped, Handover, IdleIsClean, Idle

\* So no reader outlives the connection it came with, except for the time the news of the
\* end needs (RemoteReaderManagerPlugIn::removeDispatcher), or if the connection had ended
\* before addRemoteDispatcher listened to it, ...
THEOREM NoReaderOutlives == RemoteConnectionSpec => []NoGhostReader
<1>1. ASSUME TypeOK, Handover PROVE NoGhostReader
  <2> SUFFICES ASSUME NEW n \in DOMAIN readers, ~IsOpen(readers[n].via)
               PROVE  Has(toReader, "closed") \/ Missed(readers[n].via)
    BY DEF NoGhostReader
  <2>1. readers[n].via \in Connections /\ readers[n].via # None /\ Told(readers[n].via)
    BY <1>1, RemoteConnectionAssumption DEF TypeOK, PlugInTyped, Handover, Listening
  <2>2. sock[readers[n].via] \in {"closed", "missed"}
    BY <1>1, <2>1, HeardEnds DEF IsOpen
  <2> QED BY <1>1, <2>1, <2>2 DEF Handover, NewsComes, Missed
<1> QED BY <1>1, HandoverKept, RemoteConnectionTypeOK, PTL

\* ... and "If already connected: skip." (RemoteReaderManagerPlugIn.cpp:150) is wrong for
\* no other reason than that, which the run RemoteDead shows.
THEOREM ListedConnected == RemoteConnectionSpec => [](ListedIsConnected \/ Missed(dispatcher))
<1>1. ASSUME TypeOK, Handover PROVE ListedIsConnected \/ Missed(dispatcher)
  <2> SUFFICES ASSUME dispatcher # None, ~IsOpen(dispatcher) PROVE Has(toReader, "closed") \/ Missed(dispatcher)
    BY DEF ListedIsConnected
  <2>1. dispatcher \in Connections /\ Told(dispatcher)
    BY <1>1 DEF TypeOK, PlugInTyped, Handover, Listening
  <2>2. sock[dispatcher] \in {"closed", "missed"}
    BY <1>1, <2>1, HeardEnds DEF IsOpen
  <2> QED BY <1>1, <2>2 DEF Handover, NewsComes, Missed
<1> QED BY <1>1, HandoverKept, RemoteConnectionTypeOK, PTL
-----------------------------------------------------------------------------
(* A card that counts as connected is connected *)

\* Messages of a kind: whether there is one, whether there is only one.
Among(queue, kind) == \E i \in DOMAIN queue : queue[i] \in kind
Sole(queue, kind) ==
    \A i, j \in DOMAIN queue : queue[i] \in kind /\ queue[j] \in kind => i = j
Behind(queue, first, kind) ==
    \A i, j \in DOMAIN queue : queue[i] = first /\ queue[j] \in kind => ~(i < j)

CallsTo(c) == [type : CallTypes, arg : {c}]
AnswersTo(type) == [type : {"answer"}, to : {type}, ok : BOOLEAN]
Answers == [type : {"answer"}, to : CallTypes, ok : BOOLEAN]
Granting == [type : {"answer"}, to : CallTypes, ok : {TRUE}]
StatusNews == [type : {"status"}, arg : Statuses]
Refusals == [type : {"status"}, arg : {"gone", "empty"}]
Replies == StatusNews \cup Answers \cup [type : {"context"}, arg : {None}]

\* The device serves the connection, and the computer has not lost it.
Live(c) == served = c /\ sock[c] = "open"
Waiting(c, type) == call # None /\ call.via = c /\ call.type = type /\ call.result = None

\* What is on a wire was sent by a device that serves the connection.
WireIsLive ==
    \A c \in Connections :
        /\ wire[c] # <<>> => sock[c] = "open"
        /\ Among(wire[c], Replies) => served = c
ServedIsConnected == served # None => ~Requested(served)
IdleUncalled == \A c \in Connections : Idle(c) => ~Among(toConnector, CallsTo(c))

\* A status comes when the name of its reader is known, whatever was posted for the
\* connection before.
NamedInTime ==
    \A c \in Connections : Live(c) /\ ~ctx[c] =>
        /\ dispatcher = c => ~Among(toReader, StatusNews)
        /\ Behind(toReader, Msg("new", c), StatusNews)
NamesFit ==
    \A n \in DOMAIN readers :
        /\ n # NoName => readers[n].via = n /\ ctx[n]
        /\ n = NoName => ~Live(readers[n].via)
LinkedIsLive ==
    /\ \A n \in DOMAIN readers :
           readers[n].linked /\ sock[readers[n].via] = "open" => served = readers[n].via
    /\ call # None /\ call.result = "ok" /\ sock[call.via] = "open" => served = call.via
CallFits == call # None => call.name \in DOMAIN readers /\ readers[call.name].via = call.via

\* While no call has timed out: a call has one message or one answer, ...
CallOnce ==
    \A c \in Connections : sock[c] = "open" =>
        /\ Sole(toConnector, CallsTo(c))
        /\ \A type \in CallTypes : Among(toConnector, {Msg(type, c)}) =>
               Waiting(c, type) /\ ~Among(wire[c], Answers)
AnswerOnce ==
    \A c \in Connections :
        /\ Sole(wire[c], Answers)
        /\ \A type \in CallTypes : Among(wire[c], AnswersTo(type)) => Waiting(c, type)

\* ... and what it is told holds: the device has the connection for the card, or has
\* sent word that it has none.
Granted(type) ==
    /\ call # None /\ call.type = type
    /\ call.result = "ok" \/ Among(wire[call.via], Granting)
Excused(c) == held \/ Among(wire[c], Refusals) \/ Among(toReader, Refusals)
ConnectHolds == Granted("Connect") /\ sock[call.via] = "open" => Excused(call.via)
LinkHolds ==
    \A n \in DOMAIN readers :
        readers[n].linked /\ readers[n].via = dispatcher /\ sock[dispatcher] = "open" =>
            Excused(dispatcher) \/ (Granted("Disconnect") /\ call.name = n)
InTime == timeouts = 0 => CallOnce /\ AnswerOnce /\ ConnectHolds /\ LinkHolds
LinkInv ==
    /\ timeouts \in Nat
    /\ WireIsLive /\ ServedIsConnected /\ IdleUncalled /\ NamedInTime /\ NamesFit /\ LinkedIsLive
    /\ CallFits /\ InTime

LEMMA AmongTaken ==
    ASSUME NEW S, NEW q \in Seq(S), q # <<>>, NEW kind
    PROVE  /\ Among(q, kind) <=> Head(q) \in kind \/ Among(Tail(q), kind)
           /\ Sole(q, kind) => /\ Sole(Tail(q), kind)
                               /\ Head(q) \in kind => ~Among(Tail(q), kind)
           /\ \A first : Behind(q, first, kind) =>
                  /\ Behind(Tail(q), first, kind)
                  /\ Head(q) = first => ~Among(Tail(q), kind)
<1> DEFINE r == Tail(q)
<1>1. /\ Head(q) = q[1] /\ 1 \in DOMAIN q /\ DOMAIN r \subseteq Nat \ {0}
      /\ \A i \in DOMAIN r : i + 1 \in DOMAIN q /\ r[i] = q[i + 1]
      /\ \A i \in DOMAIN q : i # 1 => i - 1 \in DOMAIN r /\ r[i - 1] = q[i]
  BY TailIsThinned
<1> HIDE DEF r
<1>2. Among(q, kind) <=> Head(q) \in kind \/ Among(r, kind)
  BY <1>1 DEF Among
<1>3. Sole(q, kind) => Sole(r, kind) /\ (Head(q) \in kind => ~Among(r, kind))
  <2>1. \A i, j \in DOMAIN r : i + 1 # 1 /\ (i + 1 = j + 1 => i = j)
    BY <1>1
  <2> QED BY <1>1, <2>1 DEF Among, Sole
<1>4. ASSUME NEW first, Behind(q, first, kind)
      PROVE  Behind(r, first, kind) /\ (Head(q) = first => ~Among(r, kind))
  <2>1. \A i, j \in DOMAIN r : 1 < i + 1 /\ (i < j => i + 1 < j + 1)
    BY <1>1
  <2> QED BY <1>1, <1>4, <2>1 DEF Among, Behind
<1> QED BY <1>2, <1>3, <1>4 DEF r

LEMMA AmongPosted ==
    ASSUME NEW S, NEW q \in Seq(S), NEW m \in S, NEW kind
    PROVE  /\ Among(Append(q, m), kind) <=> Among(q, kind) \/ m \in kind
           /\ Sole(q, kind) /\ (m \notin kind \/ ~Among(q, kind)) => Sole(Append(q, m), kind)
           /\ \A first : Behind(q, first, kind) /\ (m \notin kind \/ ~Among(q, {first})) =>
                  Behind(Append(q, m), first, kind)
<1> DEFINE r == Append(q, m)
           n == Len(q) + 1
<1>1. /\ DOMAIN q \subseteq Nat /\ Len(q) \in Nat
      /\ \A i \in DOMAIN q : i \in DOMAIN r /\ r[i] = q[i] /\ i <= Len(q)
      /\ n \in DOMAIN r /\ r[n] = m
      /\ \A i \in DOMAIN r : i \in DOMAIN q \/ i = n
  BY Appended
<1> HIDE DEF r
<1>2. \A i \in DOMAIN q : i < n /\ ~(n < i)
  BY <1>1
<1>3. ~(n < n)
  BY <1>1
<1> HIDE DEF n
<1>4. Among(r, kind) <=> Among(q, kind) \/ m \in kind
  BY <1>1 DEF Among
<1>5. Sole(q, kind) /\ (m \notin kind \/ ~Among(q, kind)) => Sole(r, kind)
  BY <1>1 DEF Among, Sole
<1>6. ASSUME NEW first, Behind(q, first, kind), m \notin kind \/ ~Among(q, {first})
      PROVE  Behind(r, first, kind)
  BY <1>1, <1>2, <1>3, <1>6 DEF Among, Behind
<1> QED BY <1>4, <1>5, <1>6 DEF r

LEMMA AmongKept ==
    ASSUME NEW S, NEW q \in Seq(S), NEW places, NEW kind
    PROVE  /\ Among(Kept(q, places), kind) => Among(q, kind)
           /\ Sole(q, kind) => Sole(Kept(q, places), kind)
<1> DEFINE r == Kept(q, places)
<1>1. /\ r \in Seq(S) /\ DOMAIN r \subseteq Nat
      /\ \E order \in [DOMAIN r -> DOMAIN q] :
             /\ \A i \in DOMAIN r : r[i] = q[order[i]]
             /\ \A i, j \in DOMAIN r : i < j => order[i] < order[j]
  BY KeptMessages, KeptIsThinned DEF Thinned
<1> HIDE DEF r
<1>2. PICK order \in [DOMAIN r -> DOMAIN q] :
          /\ \A i \in DOMAIN r : r[i] = q[order[i]]
          /\ \A i, j \in DOMAIN r : i < j => order[i] < order[j]
  BY <1>1
<1>3. \A i \in DOMAIN r : order[i] \in DOMAIN q /\ order[i] \in Nat /\ i \in Nat
  BY <1>1, <1>2
<1>4. Among(r, kind) => Among(q, kind)
  BY <1>2, <1>3 DEF Among
<1>5. ASSUME Sole(q, kind), NEW i \in DOMAIN r, NEW j \in DOMAIN r, r[i] \in kind, r[j] \in kind
      PROVE  i = j
  <2>1. order[i] = order[j]
    BY <1>2, <1>3, <1>5 DEF Sole
  <2>2. ~(i < j) /\ ~(j < i)
    BY <1>2, <1>3, <2>1
  <2> QED BY <1>3, <2>2
<1> QED BY <1>4, <1>5 DEF Sole, r

LEMMA AmongOne ==
    ASSUME NEW kind, NEW few, few \subseteq kind, NEW queue
    PROVE  Among(queue, few) => Among(queue, kind)
BY DEF Among

\* The kinds of messages.
LEMMA Kinds ==
    /\ \A c : \A type \in CallTypes : Msg(type, c) \in CallsTo(c)
    /\ \A c : \A m \in CallsTo(c) : m.type \in CallTypes /\ m.arg = c /\ m = Msg(m.type, c)
    /\ \A m \in ConnectorSet : m.type \in CallTypes <=> m \in CallsTo(m.arg)
    /\ Refusals \subseteq StatusNews /\ StatusNews \subseteq Replies
    /\ Granting \subseteq Answers /\ Answers \subseteq Replies
    /\ \A type \in CallTypes : AnswersTo(type) \subseteq Answers
    /\ \A m \in Answers : m.to \in CallTypes /\ m \in AnswersTo(m.to) /\ m.type = "answer"
                          /\ (m \in Granting <=> m.ok)
    /\ \A m \in WireSet : /\ m.type = "answer" <=> m \in Answers
                          /\ m.type = "status" <=> m \in StatusNews
                          /\ m.type # "close" <=> m \in Replies
    /\ \A m \in ReaderSet : m.type = "status" <=> m \in StatusNews
    /\ \A m \in StatusNews : m.type = "status" /\ m.arg \in Statuses /\ (m \in Refusals <=> m.arg # "card")
<1> USE DEF CallsTo, Refusals, StatusNews, Replies, Granting, Answers, AnswersTo, Statuses
<1>1. \A c : \A type \in CallTypes : Msg(type, c) \in CallsTo(c)
  BY DEF Msg
<1>2. \A c : \A m \in CallsTo(c) : m.type \in CallTypes /\ m.arg = c /\ m = Msg(m.type, c)
  BY DEF Msg
<1>3. \A m \in ConnectorSet : m.type \in CallTypes <=> m \in CallsTo(m.arg)
  BY DEF ConnectorSet, CallTypes
<1>4. /\ Refusals \subseteq StatusNews /\ StatusNews \subseteq Replies
      /\ Granting \subseteq Answers /\ Answers \subseteq Replies
      /\ \A type \in CallTypes : AnswersTo(type) \subseteq Answers
  OBVIOUS
<1>5. \A m \in Answers : m.to \in CallTypes /\ m \in AnswersTo(m.to) /\ m.type = "answer"
                         /\ (m \in Granting <=> m.ok)
  OBVIOUS
<1>6. \A m \in WireSet : m.type = "answer" <=> m \in Answers
  BY DEF WireSet
<1>7. \A m \in WireSet : m.type = "status" <=> m \in StatusNews
  BY DEF WireSet
<1>8. \A m \in WireSet : m.type # "close" <=> m \in Replies
  BY DEF WireSet
<1>9. \A m \in ReaderSet : m.type = "status" <=> m \in StatusNews
  BY DEF ReaderSet
<1>10. \A m \in StatusNews : m.type = "status" /\ m.arg \in Statuses /\ (m \in Refusals <=> m.arg # "card")
  OBVIOUS
<1> QED BY <1>1, <1>2, <1>3, <1>4, <1>5, <1>6, <1>7, <1>8, <1>9, <1>10

\* Queues that change nothing: a call is not posted, a status comes or goes on none.
CalmConnector(q, r) ==
    \A c \in Connections :
        /\ Among(r, CallsTo(c)) => Among(q, CallsTo(c))
        /\ \A type \in CallTypes : Among(r, {Msg(type, c)}) => Among(q, {Msg(type, c)})
        /\ Sole(q, CallsTo(c)) => Sole(r, CallsTo(c))
CalmReader(q, r) ==
    /\ Among(r, StatusNews) => Among(q, StatusNews)
    /\ Among(q, Refusals) => Among(r, Refusals)
    /\ \A c \in Connections :
           Behind(q, Msg("new", c), StatusNews) => Behind(r, Msg("new", c), StatusNews)
CalmWire(q, r) ==
    /\ r # <<>> => q # <<>>
    /\ \A kind \in {Replies, Answers} \cup {AnswersTo(type) : type \in CallTypes} :
           Among(r, kind) => Among(q, kind)
    /\ Sole(q, Answers) => Sole(r, Answers)
    /\ \A kind \in {Refusals, Granting} : Among(q, kind) <=> Among(r, kind)

LEMMA CalmSame == \A q : CalmConnector(q, q) /\ CalmReader(q, q) /\ CalmWire(q, q)
BY DEF CalmConnector, CalmReader, CalmWire

LEMMA ConnectorCalms ==
    ASSUME NEW q \in Seq(ConnectorSet)
    PROVE  /\ q # <<>> => CalmConnector(q, Tail(q))
           /\ \A m \in ConnectorSet : m.type \notin CallTypes => CalmConnector(q, Append(q, m))
           /\ \A places : CalmConnector(q, Kept(q, places))
<1>1. q # <<>> => CalmConnector(q, Tail(q))
  BY AmongTaken DEF CalmConnector
<1>2. ASSUME NEW m \in ConnectorSet, m.type \notin CallTypes PROVE CalmConnector(q, Append(q, m))
  <2>1. \A c : m \notin CallsTo(c) /\ \A type \in CallTypes : m \notin {Msg(type, c)}
    BY <1>2, Kinds
  <2> QED BY <2>1, AmongPosted DEF CalmConnector
<1>3. \A places : CalmConnector(q, Kept(q, places))
  BY AmongKept DEF CalmConnector
<1> QED BY <1>1, <1>2, <1>3

LEMMA ReaderCalms ==
    ASSUME NEW q \in Seq(ReaderSet)
    PROVE  /\ q # <<>> /\ Head(q).type # "status" => CalmReader(q, Tail(q))
           /\ \A m \in ReaderSet : m.type # "status" => CalmReader(q, Append(q, m))
<1>1. ASSUME q # <<>>, Head(q).type # "status" PROVE CalmReader(q, Tail(q))
  <2>1. Head(q) \notin StatusNews /\ Head(q) \notin Refusals
    BY <1>1, Kinds
  <2> QED BY <1>1, <2>1, AmongTaken DEF CalmReader
<1>2. ASSUME NEW m \in ReaderSet, m.type # "status" PROVE CalmReader(q, Append(q, m))
  <2>1. m \notin StatusNews /\ m \notin Refusals
    BY <1>2, Kinds
  <2> QED BY <2>1, AmongPosted DEF CalmReader
<1> QED BY <1>1, <1>2

LEMMA LinkCalm ==
    ASSUME TypeOK, LinkInv, UNCHANGED <<served, held, dispatcher, readers, call, timeouts>>,
           CalmConnector(toConnector, toConnector'), CalmReader(toReader, toReader'),
           \A c \in Connections : /\ sock'[c] = "open" <=> sock[c] = "open"
                                  /\ sock'[c] \in {"none", "connecting", "pairing"} => Idle(c)
                                  /\ ctx[c] => ctx'[c]
                                  /\ CalmWire(wire[c], wire'[c]),
           served # None => sock'[served] \notin {"connecting", "pairing"}
    PROVE  LinkInv'
<1>0. /\ \A n \in DOMAIN readers : n \in Connections \cup {NoName} /\ readers[n].via \in Connections
      /\ dispatcher # None => dispatcher \in Connections
      /\ call # None => call.via \in Connections
      /\ None \notin Connections /\ NoName \notin Connections
  BY RemoteConnectionAssumption, NameAssumption DEF TypeOK, PlugInTyped
<1>1. WireIsLive'
  BY DEF LinkInv, WireIsLive, CalmWire
<1>2. ServedIsConnected'
  BY DEF ServedIsConnected, Requested
<1>3. IdleUncalled'
  BY DEF LinkInv, IdleUncalled, CalmConnector, Idle
<1>4. NamedInTime'
  BY DEF LinkInv, NamedInTime, CalmReader, Live
<1>5. NamesFit'
  BY <1>0 DEF LinkInv, NamesFit, Live
<1>6. LinkedIsLive'
  BY <1>0 DEF LinkInv, LinkedIsLive
<1>7. CallFits'
  BY DEF LinkInv, CallFits
<1>8. ASSUME timeouts = 0 PROVE CallOnce' /\ AnswerOnce' /\ ConnectHolds' /\ LinkHolds'
  <2>0. CallOnce /\ AnswerOnce /\ ConnectHolds /\ LinkHolds
    BY <1>8 DEF LinkInv, InTime
  <2>1. CallOnce'
    BY <2>0 DEF CallOnce, CalmConnector, CalmWire, Waiting
  <2>2. AnswerOnce'
    BY <2>0 DEF AnswerOnce, CalmWire, Waiting
  <2>3. \A c \in Connections : Excused(c) => held' \/ Among(wire'[c], Refusals) \/ Among(toReader', Refusals)
    BY DEF Excused, CalmReader, CalmWire
  <2>4. ConnectHolds'
    BY <1>0, <2>0, <2>3 DEF ConnectHolds, Granted, Excused, CalmWire
  <2>5. LinkHolds'
    BY <1>0, <2>0, <2>3 DEF LinkHolds, Granted, Excused, CalmWire
  <2> QED BY <2>1, <2>2, <2>4, <2>5
<1> QED BY <1>1, <1>2, <1>3, <1>4, <1>5, <1>6, <1>7, <1>8 DEF LinkInv, InTime

\* Steps of that kind.
Untouched == UNCHANGED <<served, held, dispatcher, readers, call, timeouts>>
CalmQueues == CalmConnector(toConnector, toConnector') /\ CalmReader(toReader, toReader')
KeepsSockets ==
    /\ \A c \in Connections : /\ sock'[c] = "open" <=> sock[c] = "open"
                              /\ sock'[c] \in {"none", "connecting", "pairing"} => Idle(c)
    /\ served # None => sock'[served] \notin {"connecting", "pairing"}

LEMMA LinkKeeps ==
    ASSUME TypeOK, LinkInv, Untouched, UNCHANGED <<ctx, wire>>, CalmQueues, KeepsSockets PROVE LinkInv'
<1>1. \A c \in Connections : CalmWire(wire[c], wire'[c])
  BY CalmSame
<1> QED BY <1>1, LinkCalm DEF Untouched, CalmQueues, KeepsSockets

LEMMA SocketsKept ==
    ASSUME TypeOK, LinkInv
    PROVE  /\ sock' = sock => KeepsSockets
           /\ OnConnectRequest => KeepsSockets
           /\ \A c \in Connections : \A code : OnConnectionError(c, code) => KeepsSockets
<1>0. NetworkTyped /\ (served # None => served \in Connections /\ ~Requested(served))
  BY DEF TypeOK, ClientTyped, LinkInv, ServedIsConnected
<1>1. sock' = sock => KeepsSockets
  BY <1>0 DEF KeepsSockets, Idle, Requested
<1>2. ASSUME OnConnectRequest PROVE KeepsSockets
  <2> DEFINE T == {d \in Connections : Unused(d)}
  <2>1. T \in SUBSET Nat /\ T # {}
    BY <1>2, RemoteConnectionAssumption DEF OnConnectRequest
  <2>2. Min(T) \in T
    BY <2>1, LeastNumber DEF Min
  <2>3. /\ Min(T) \in Connections /\ Unused(Min(T))
        /\ \E s \in {"pairing", "connecting"} : sock' = [sock EXCEPT ![Min(T)] = s]
    BY <1>2, <2>2 DEF OnConnectRequest
  <2> HIDE DEF T
  <2> QED BY <1>0, <2>3 DEF NetworkTyped, KeepsSockets, Idle, Unused, Requested
<1>3. ASSUME NEW c \in Connections, NEW code, OnConnectionError(c, code) PROVE KeepsSockets
  BY <1>0, <1>3 DEF OnConnectionError, Requested, RemoveRequest, Failed, NetworkTyped, KeepsSockets, Idle
<1> QED BY <1>1, <1>2, <1>3

LEMMA LinkQuiet ==
    ASSUME TypeOK, LinkInv,
           \/ MainThread \/ Announce \/ Vanish \/ Pair
           \/ OnConnectRequest \/ (\E c \in Connections : \E code : OnConnectionError(c, code))
           \/ ConnectToPairedReaders \/ ContinueConnectToPairedReaders \/ OnContextEstablished
           \/ (\E connects \in BOOLEAN : StartScan(connects)) \/ StopScan
    PROVE  LinkInv'
<1>0. /\ QueuesTyped /\ toReader \in Seq(ReaderSet) /\ toConnector \in Seq(ConnectorSet)
      /\ dispatcher # None => dispatcher \in Connections
      /\ listed \in BOOLEAN
  BY DEF TypeOK, QueuesTyped, PlugInTyped, ClientTyped
<1> DEFINE Rest == Untouched /\ UNCHANGED <<ctx, wire>>
           ConnectorOK == CalmConnector(toConnector, toConnector')
           ReaderOK == CalmReader(toReader, toReader')
           ReaderTaken == toReader # <<>> /\ Head(toReader).type # "status" /\ toReader' = Tail(toReader)
<1> HIDE DEF ReaderOK, ConnectorOK
<1>1. /\ toConnector' = toConnector => ConnectorOK
      /\ \A m \in ConnectorSet : m.type \notin CallTypes /\ toConnector' = Append(toConnector, m) => ConnectorOK
      /\ toConnector # <<>> /\ toConnector' = Tail(toConnector) => ConnectorOK
  BY <1>0, CalmSame, ConnectorCalms DEF ConnectorOK
<1>2. /\ toReader' = toReader => ReaderOK
      /\ \A m \in ReaderSet : m.type # "status" /\ toReader' = Append(toReader, m) => ReaderOK
      /\ ReaderTaken => ReaderOK
  BY <1>0, CalmSame, ReaderCalms DEF ReaderOK
<1>3. ASSUME Rest, ConnectorOK, ReaderOK, KeepsSockets PROVE LinkInv'
  BY <1>3, LinkKeeps DEF CalmQueues, ConnectorOK, ReaderOK
<1> USE DEF device, bounds, network, plugIn, Untouched
<1>4. \A psk \in BOOLEAN : EstablishConnection(psk) => ConnectorOK
  <2>1. \A psk \in BOOLEAN : Msg("connect", psk) \in ConnectorSet /\ Msg("connect", psk).type \notin CallTypes
    BY Messages DEF CallTypes
  <2> QED BY <1>1, <2>1 DEF EstablishConnection
<1>5. CASE MainThread
  <2>1. CASE RequestRemoteDevices
    <3>1. Msg("devices", listed) \in ReaderSet /\ Msg("devices", listed).type # "status"
      BY <1>0, Messages
    <3>2. Rest /\ ConnectorOK /\ ReaderOK /\ sock' = sock
      BY <1>1, <1>2, <2>1, <3>1 DEF RequestRemoteDevices
    <3> QED BY <1>3, <3>2, SocketsKept
  <2>2. CASE OnRemoteDispatcherCreated
    <3>1. Msg("new", Head(toMain).arg) \in ReaderSet /\ Msg("new", Head(toMain).arg).type # "status"
      BY <1>0, <2>2, HeadArgs, Messages DEF OnRemoteDispatcherCreated
    <3>2. Rest /\ ConnectorOK /\ ReaderOK /\ sock' = sock
      BY <1>1, <1>2, <2>2, <3>1 DEF OnRemoteDispatcherCreated
    <3> QED BY <1>3, <3>2, SocketsKept
  <2>3. CASE Detect \/ EstablishAsked \/ OnRemoteDispatcherError
    <3>1. Rest /\ ConnectorOK /\ ReaderOK /\ sock' = sock
      BY <1>1, <1>2, <1>4, <2>3 DEF Detect, EstablishAsked, OnRemoteDispatcherError
    <3> QED BY <1>3, <3>1, SocketsKept
  <2> QED BY <1>5, <2>1, <2>2, <2>3 DEF MainThread
<1>6. CASE Announce \/ Vanish \/ Pair \/ ConnectToPairedReaders
           \/ \E connects \in BOOLEAN : StartScan(connects)
  <2>1. Rest /\ ConnectorOK /\ ReaderOK /\ sock' = sock
    BY <1>1, <1>2, <1>4, <1>6 DEF Announce, Vanish, Pair, ConnectToPairedReaders, StartScan
  <2> QED BY <1>3, <2>1, SocketsKept
<1>7. CASE OnConnectRequest \/ \E c \in Connections : \E code : OnConnectionError(c, code)
  <2>1. Rest /\ ConnectorOK /\ ReaderOK
    BY <1>1, <1>2, <1>7 DEF OnConnectRequest, OnConnectionError, Arrives
  <2> QED BY <1>3, <1>7, <2>1, SocketsKept
<1>8. CASE ContinueConnectToPairedReaders \/ OnContextEstablished \/ StopScan
  <2>1. \A type \in {"getStatus", "close"} : dispatcher # None =>
            Msg(type, dispatcher) \in ConnectorSet /\ Msg(type, dispatcher).type \notin CallTypes
    BY <1>0, Messages DEF CallTypes
  <2>2. CASE ContinueConnectToPairedReaders
    BY <1>1, <1>2, <1>3, <2>2, SocketsKept DEF ContinueConnectToPairedReaders, Arrives
  <2>3. CASE OnContextEstablished
    BY <1>1, <1>2, <1>3, <2>1, <2>3, SocketsKept DEF OnContextEstablished, Arrives
  <2>4. CASE StopScan
    BY <1>1, <1>2, <1>3, <2>1, <2>4, SocketsKept DEF StopScan
  <2> QED BY <1>8, <2>2, <2>3, <2>4
<1> QED BY <1>5, <1>6, <1>7, <1>8

\* What holds of the card for a connection the device serves.
LEMMA LinkFacts ==
    ASSUME TypeOK, LinkInv
    PROVE  /\ None \notin Connections /\ NoName \notin Connections /\ NoName # None
           /\ dispatcher # None => dispatcher \in Connections
           /\ served # None => served \in Connections
           /\ \A n \in DOMAIN readers : n \in Connections \cup {NoName} /\ readers[n].via \in Connections
           /\ call # None => call.via \in Connections /\ call.type \in CallTypes
                             /\ call.name \in DOMAIN readers /\ readers[call.name].via = call.via
           /\ \A n \in DOMAIN readers : readers[n].linked /\ sock[readers[n].via] = "open" => Live(readers[n].via)
           /\ \A n \in DOMAIN readers : Live(readers[n].via) => n = readers[n].via /\ ctx[n]
           /\ \A type : Granted(type) /\ sock[call.via] = "open" => Live(call.via)
<1>1. /\ None \notin Connections /\ NoName \notin Connections /\ NoName # None
      /\ dispatcher # None => dispatcher \in Connections
      /\ served # None => served \in Connections
      /\ \A n \in DOMAIN readers : n \in Connections \cup {NoName} /\ readers[n].via \in Connections
      /\ call # None => call.via \in Connections /\ call.type \in CallTypes
  BY RemoteConnectionAssumption, NameAssumption DEF TypeOK, PlugInTyped, ClientTyped
<1>2. call # None => call.name \in DOMAIN readers /\ readers[call.name].via = call.via
  BY DEF LinkInv, CallFits
<1>3. \A n \in DOMAIN readers : readers[n].linked /\ sock[readers[n].via] = "open" => Live(readers[n].via)
  BY DEF LinkInv, LinkedIsLive, Live
<1>4. \A n \in DOMAIN readers : Live(readers[n].via) => n = readers[n].via /\ ctx[n]
  BY DEF LinkInv, NamesFit
<1>5. ASSUME NEW type, Granted(type), sock[call.via] = "open" PROVE Live(call.via)
  <2>1. CASE call.result = "ok"
    BY <1>5, <2>1 DEF LinkInv, LinkedIsLive, Live, Granted
  <2>2. CASE Among(wire[call.via], Granting)
    <3>1. Among(wire[call.via], Replies)
      BY <2>2, AmongOne, Kinds
    <3> QED BY <1>1, <1>5, <3>1 DEF LinkInv, WireIsLive, Live, Granted
  <2> QED BY <1>5, <2>1, <2>2 DEF Granted
<1> QED BY <1>1, <1>2, <1>3, <1>4, <1>5

\* A message other than an answer is sent to the connection the device serves.
LEMMA LinkTold ==
    ASSUME TypeOK, LinkInv, NEW c \in Connections, Live(c), NEW m \in Replies \ Answers, m \in WireSet,
           wire' = [wire EXCEPT ![c] = Append(@, m)],
           held' = held \/ m \in Refusals,
           UNCHANGED <<sock, ctx, served, dispatcher, readers, call, timeouts, toReader>>,
           CalmConnector(toConnector, toConnector')
    PROVE  LinkInv'
<1>0. /\ NetworkTyped /\ wire[c] \in Seq(WireSet) /\ m \notin Granting
      /\ \A type \in CallTypes : m \notin AnswersTo(type)
  BY Kinds DEF TypeOK, NetworkTyped
<1>1. /\ wire'[c] = Append(wire[c], m) /\ \A d \in Connections \ {c} : wire'[d] = wire[d]
      /\ DOMAIN wire' = Connections
  BY <1>0 DEF NetworkTyped
<1>2. /\ Among(wire'[c], Refusals) <=> Among(wire[c], Refusals) \/ m \in Refusals
      /\ \A kind \in {Answers, Granting} \cup {AnswersTo(type) : type \in CallTypes} :
             Among(wire'[c], kind) <=> Among(wire[c], kind)
      /\ Sole(wire[c], Answers) => Sole(wire'[c], Answers)
  BY <1>0, <1>1, AmongPosted
<1>3. WireIsLive'
  BY <1>1 DEF LinkInv, WireIsLive, Live
<1>4. ServedIsConnected' /\ IdleUncalled' /\ NamedInTime' /\ NamesFit' /\ LinkedIsLive' /\ CallFits'
  BY DEF LinkInv, ServedIsConnected, Requested, IdleUncalled, CalmConnector, Idle, NamedInTime, Live, NamesFit,
         LinkedIsLive, CallFits
<1>5. ASSUME timeouts = 0 PROVE CallOnce' /\ AnswerOnce' /\ ConnectHolds' /\ LinkHolds'
  <2>0. CallOnce /\ AnswerOnce /\ ConnectHolds /\ LinkHolds
    BY <1>5 DEF LinkInv, InTime
  <2>1. CallOnce'
    BY <1>1, <1>2, <2>0 DEF CallOnce, CalmConnector, Waiting
  <2>2. AnswerOnce'
    BY <1>1, <1>2, <2>0 DEF AnswerOnce, Waiting
  <2>3. \A d \in Connections : Live(d) /\ Excused(d) => held' \/ Among(wire'[d], Refusals) \/ Among(toReader', Refusals)
    <3>1. \A d : Live(d) => d = c
      BY DEF Live
    <3> QED BY <1>2, <3>1 DEF Excused
  <2>4. \A type : (Granted(type))' <=> Granted(type)
    <3>1. call # None => call.via \in Connections
      BY LinkFacts
    <3>2. \A d \in Connections : Among(wire'[d], Granting) <=> Among(wire[d], Granting)
      BY <1>1, <1>2
    <3> QED BY <3>1, <3>2 DEF Granted
  <2>5. ConnectHolds'
    BY <2>0, <2>3, <2>4, LinkFacts DEF ConnectHolds, Excused, Granted
  <2>6. LinkHolds'
    BY <2>0, <2>3, <2>4, LinkFacts DEF LinkHolds, Excused, Granted
  <2> QED BY <2>1, <2>2, <2>5, <2>6
<1> QED BY <1>3, <1>4, <1>5 DEF LinkInv, InTime

LEMMA LinkSends ==
    ASSUME TypeOK, LinkInv, SendEstablishContext \/ SendGetStatus
    PROVE  LinkInv'
<1> DEFINE c == Head(toConnector).arg
<1>0. QueuesTyped /\ toConnector \in Seq(ConnectorSet) /\ c \in Connections /\ toConnector # <<>>
  BY HeadArgs DEF TypeOK, QueuesTyped, SendEstablishContext, SendGetStatus, Arrives
<1>1. PICK m \in WireSet : Answer(c, <<m>>) /\ m \in Replies \ Answers
  <2>1. remote \in Statuses
    BY DEF TypeOK, ClientTyped
  <2>2. /\ Msg("context", None) \in WireSet /\ Msg("context", None).type = "context"
        /\ Msg("status", remote) \in WireSet /\ Msg("status", remote).type = "status"
    BY <2>1, Messages
  <2>3. \A m \in WireSet : m.type \in {"context", "status"} => m \in Replies \ Answers
    BY Kinds
  <2> HIDE DEF c
  <2>4. \/ Answer(c, <<Msg("context", None)>>)
        \/ Answer(c, <<Msg("status", remote)>>)
    BY DEF SendEstablishContext, SendGetStatus, c
  <2> QED BY <2>2, <2>3, <2>4
<1>2. /\ Untouched /\ UNCHANGED <<sock, ctx, toReader>>
      /\ toConnector' = Tail(toConnector)
  BY DEF SendEstablishContext, SendGetStatus, device, plugIn, Untouched, bounds
<1>3. CalmConnector(toConnector, toConnector') /\ CalmReader(toReader, toReader')
  BY <1>0, <1>2, ConnectorCalms, CalmSame
<1> HIDE DEF c
<1>4. CASE Live(c)
  <2>1. wire' = [wire EXCEPT ![c] = Append(@, m)]
    <3>1. wire[c] \in Seq(WireSet) /\ c # None
      BY <1>0, RemoteConnectionAssumption DEF TypeOK, NetworkTyped
    <3>2. wire[c] \o <<m>> = Append(wire[c], m)
      BY <3>1
    <3> QED BY <1>1, <1>4, <3>1, <3>2 DEF Answer, Live, IsOpen
  <2> QED BY <1>0, <1>1, <1>2, <1>3, <1>4, <2>1, LinkTold DEF Untouched
<1>5. CASE ~Live(c)
  <2>1. wire' = wire
    BY <1>1, <1>5 DEF Answer, Live, IsOpen
  <2> QED BY <1>2, <1>3, <2>1, LinkKeeps, SocketsKept DEF CalmQueues
<1> QED BY <1>4, <1>5

LEMMA LinkReaderChanges ==
    ASSUME TypeOK, LinkInv, NEW status \in Statuses, ReaderChanges(status)
    PROVE  LinkInv'
<1> DEFINE m == Msg("status", status)
<1>0. m \in WireSet /\ m.type = "status" /\ m.arg = status
  BY Messages
<1>1. m \in Replies \ Answers /\ (m \in Refusals <=> status # "card")
  BY <1>0, Kinds
<1>2. /\ UNCHANGED <<sock, ctx, served, dispatcher, readers, call, timeouts, toReader, toConnector>>
      /\ held' = (held /\ status # "empty")
      /\ IF served = None THEN wire' = wire ELSE Answer(served, <<m>>)
  BY DEF ReaderChanges, plugIn
<1> HIDE DEF m
<1>3. CASE served # None /\ Live(served)
  <2>1. served \in Connections /\ wire[served] \in Seq(WireSet)
    BY <1>3, LinkFacts DEF TypeOK, NetworkTyped
  <2>2. wire[served] \o <<m>> = Append(wire[served], m)
    BY <1>0, <2>1
  <2>3. wire' = [wire EXCEPT ![served] = Append(@, m)]
    BY <1>2, <1>3, <2>2 DEF Answer, Live, IsOpen
  <2>4. held' = held \/ m \in Refusals
    <3>1. held \in BOOLEAN
      BY DEF TypeOK, ClientTyped
    <3> QED BY <1>1, <1>2, <3>1
  <2> QED BY <1>0, <1>1, <1>2, <1>3, <2>1, <2>3, <2>4, LinkTold, CalmSame
<1>4. CASE served = None \/ ~Live(served)
  <2>1. wire' = wire
    BY <1>2, <1>4 DEF Answer, Live, IsOpen
  <2>2. \A c \in Connections : ~Live(c)
    BY <1>4, LinkFacts DEF Live
  <2>3. ConnectHolds' /\ LinkHolds'
    <3>1. \A type : (Granted(type))' <=> Granted(type)
      BY <1>2, <2>1 DEF Granted
    <3>2. ConnectHolds'
      BY <1>2, <2>2, <3>1, LinkFacts DEF ConnectHolds, Granted
    <3>3. LinkHolds'
      BY <1>2, <2>2, LinkFacts DEF LinkHolds, IsOpen
    <3> QED BY <3>2, <3>3
  <2> QED BY <1>2, <2>1, <2>3 DEF LinkInv, WireIsLive, ServedIsConnected, IdleUncalled, NamedInTime, NamesFit,
             LinkedIsLive, CallFits, InTime, CallOnce, AnswerOnce, Live, Idle, Requested, Waiting
<1> QED BY <1>3, <1>4

\* The device answers a call.
LEMMA LinkSendCall == ASSUME TypeOK, LinkInv, SendCall PROVE LinkInv'
<1> DEFINE m == Head(toConnector)
           c == m.arg
           ok == Grants(m.type)
           answer == [type |-> "answer", to |-> m.type, ok |-> ok]
<1>0. /\ QueuesTyped /\ toConnector \in Seq(ConnectorSet) /\ toConnector # <<>>
      /\ m \in ConnectorSet /\ m.type \in CallTypes /\ c \in Connections /\ m \in CallsTo(c) /\ m = Msg(m.type, c)
  <2>1. QueuesTyped /\ toConnector \in Seq(ConnectorSet) /\ toConnector # <<>> /\ m.type \in CallTypes
    BY DEF TypeOK, QueuesTyped, SendCall
  <2>2. m \in ConnectorSet /\ c \in Connections
    BY <2>1, Heads, HeadArgs DEF CallTypes
  <2> QED BY <2>1, <2>2, Kinds
<1>1. /\ UNCHANGED <<sock, ctx, served, dispatcher, readers, call, timeouts, toReader>>
      /\ toConnector' = Tail(toConnector)
      /\ wire' = IF IsOpen(c) /\ served = c THEN [wire EXCEPT ![c] = @ \o <<answer>>] ELSE wire
      /\ held' = IF (IsOpen(c) /\ served = c) /\ ok THEN m.type # "Disconnect" ELSE held
  BY DEF SendCall, Answer, plugIn, bounds
<1>2. CalmConnector(toConnector, toConnector') /\ CalmReader(toReader, toReader')
  BY <1>0, <1>1, ConnectorCalms, CalmSame
<1>3. answer \in Answers /\ answer \in WireSet /\ answer.to = m.type /\ (answer \in Granting <=> ok)
      /\ answer \notin Refusals /\ answer \in Replies /\ ok \in BOOLEAN
  <2>1. ok \in BOOLEAN
    BY DEF Grants, TypeOK, ClientTyped
  <2>2. answer \in WireSet /\ answer.type = "answer"
    BY <1>0, <2>1, Messages
  <2>3. answer.ok = ok /\ answer.to = m.type
    OBVIOUS
  <2> HIDE DEF answer
  <2> QED BY <2>1, <2>2, <2>3, Kinds
<1>4. IsOpen(c) /\ served = c <=> Live(c)
  BY <1>0, RemoteConnectionAssumption DEF IsOpen, Live
<1>5. /\ Among(toConnector, {Msg(m.type, c)})
      /\ Sole(toConnector, CallsTo(c)) => ~Among(toConnector', CallsTo(c))
  <2>1. m \in {Msg(m.type, c)}
    BY <1>0
  <2> QED BY <1>0, <1>1, <2>1, AmongTaken
<1> HIDE DEF m, c, ok, answer
<1>6. CASE ~Live(c)
  <2>1. wire' = wire /\ held' = held
    BY <1>1, <1>4, <1>6
  <2> QED BY <1>1, <1>2, <2>1, LinkKeeps, SocketsKept DEF CalmQueues, Untouched
<1>7. CASE Live(c)
  <2>1. /\ wire[c] \in Seq(WireSet) /\ wire'[c] = Append(wire[c], answer)
        /\ \A d \in Connections \ {c} : wire'[d] = wire[d]
    <3>1. wire[c] \in Seq(WireSet)
      BY <1>0 DEF TypeOK, NetworkTyped
    <3>2. wire[c] \o <<answer>> = Append(wire[c], answer)
      BY <1>3, <3>1
    <3>3. wire' = [wire EXCEPT ![c] = @ \o <<answer>>]
      BY <1>1, <1>4, <1>7
    <3> QED BY <1>0, <3>1, <3>2, <3>3 DEF TypeOK, NetworkTyped
  <2>2. /\ Among(wire'[c], Refusals) <=> Among(wire[c], Refusals)
        /\ Among(wire'[c], Granting) <=> Among(wire[c], Granting) \/ ok
        /\ \A type \in CallTypes : Among(wire'[c], AnswersTo(type)) => Among(wire[c], AnswersTo(type)) \/ type = m.type
        /\ ~Among(wire[c], Answers) => Sole(wire'[c], Answers)
    <3>1. \A type \in CallTypes : answer \in AnswersTo(type) => type = m.type
      BY <1>3 DEF AnswersTo
    <3>2. ~Among(wire[c], Answers) => Sole(wire[c], Answers)
      BY DEF Among, Sole
    <3> QED BY <1>3, <2>1, <3>1, <3>2, AmongPosted
  <2>3. WireIsLive'
    BY <1>1, <1>7, <2>1 DEF LinkInv, WireIsLive, Live
  <2>4. ServedIsConnected' /\ IdleUncalled' /\ NamedInTime' /\ NamesFit' /\ LinkedIsLive' /\ CallFits'
    BY <1>1, <1>2 DEF LinkInv, ServedIsConnected, Requested, IdleUncalled, CalmConnector, Idle, NamedInTime, Live,
       NamesFit, LinkedIsLive, CallFits
  <2>5. ASSUME timeouts = 0 PROVE CallOnce' /\ AnswerOnce' /\ ConnectHolds' /\ LinkHolds'
    <3>0. CallOnce /\ AnswerOnce /\ ConnectHolds /\ LinkHolds
      BY <2>5 DEF LinkInv, InTime
    <3>1. Waiting(c, m.type) /\ ~Among(wire[c], Answers) /\ ~Among(toConnector', CallsTo(c))
      BY <1>0, <1>5, <1>7, <3>0 DEF CallOnce, Live
    <3>2. \A d \in Connections : \A type \in CallTypes : Waiting(d, type) => d = c
      BY <3>1 DEF Waiting
    <3>3. CallOnce'
      <4>1. \A type \in CallTypes : ~Among(toConnector', {Msg(type, c)})
        BY <3>1, AmongOne, Kinds
      <4>2. Sole(toConnector', CallsTo(c))
        BY <3>1 DEF Sole, Among
      <4> QED BY <1>1, <1>2, <2>1, <3>0, <4>1, <4>2 DEF CallOnce, CalmConnector, Waiting
    <3>4. AnswerOnce'
      BY <1>1, <2>1, <2>2, <3>0, <3>1 DEF AnswerOnce, Waiting
    <3>5. ~Among(wire[c], Granting) /\ call # None /\ call.via = c /\ call.type = m.type /\ call.result = None
      BY <3>1, AmongOne, Kinds DEF Waiting
    <3>6. \A type : ~Granted(type)
      BY <3>5, NoneAssumption DEF Granted
    <3>7. \A type : (Granted(type))' <=> ok /\ type = m.type
      BY <1>1, <2>2, <3>5, <3>6 DEF Granted
    <3>8. ConnectHolds'
      BY <1>1, <1>4, <1>7, <3>7 DEF ConnectHolds, Excused
    <3>9. LinkHolds'
      <4> SUFFICES ASSUME NEW n \in DOMAIN readers, readers[n].linked, readers[n].via = dispatcher,
                          sock[dispatcher] = "open", ok => m.type # "Disconnect" \/ call.name # n
                   PROVE  held' \/ Among(wire'[dispatcher], Refusals) \/ Among(toReader', Refusals)
        BY <1>1, <3>7 DEF LinkHolds, Excused
      <4>1. Live(dispatcher) /\ dispatcher = c /\ n = c
        BY <1>7, LinkFacts DEF Live
      <4>2. call.name = c
        BY <1>7, <3>5, LinkFacts
      <4>3. Excused(c)
        BY <3>0, <3>6, <4>1 DEF LinkHolds
      <4> QED BY <1>1, <1>4, <1>7, <2>2, <4>1, <4>2, <4>3 DEF Excused
    <3> QED BY <3>3, <3>4, <3>8, <3>9
  <2> QED BY <1>1, <2>3, <2>4, <2>5 DEF LinkInv, InTime
<1> QED BY <1>6, <1>7

\* A call is told its answer.
LEMMA LinkAnswered ==
    ASSUME TypeOK, LinkInv, NEW c \in Connections, ReceiveAnswer(c) PROVE LinkInv'
<1> DEFINE m == Head(wire[c])
<1>0. /\ NetworkTyped /\ wire[c] \in Seq(WireSet) /\ wire[c] # <<>> /\ m \in WireSet /\ m.type = "answer"
  BY WireTaken DEF TypeOK, NetworkTyped, ReceiveAnswer, Receives, Arrives
<1>1. /\ m \in Answers /\ m \in Replies /\ m.to \in CallTypes /\ m \in AnswersTo(m.to) /\ m \notin Refusals
      /\ (m \in Granting <=> m.ok)
  BY <1>0, Kinds
<1>2. /\ wire'[c] = Tail(wire[c]) /\ \A d \in Connections \ {c} : wire'[d] = wire[d]
  BY <1>0 DEF ReceiveAnswer, Received, NetworkTyped
<1>3. /\ UNCHANGED <<sock, ctx, served, held, dispatcher, readers, timeouts, toReader, toConnector>>
      /\ call' = IF Waits(c) /\ call.type = m.to
                 THEN [call EXCEPT !.result = IF m.ok THEN "ok" ELSE "error"] ELSE call
  BY DEF ReceiveAnswer, device, plugIn, bounds
<1>4. Live(c) /\ Among(wire[c], AnswersTo(m.to))
  <2>1. Among(wire[c], AnswersTo(m.to)) /\ Among(wire[c], Replies)
    BY <1>0, <1>1, AmongTaken
  <2> QED BY <1>0, <2>1 DEF LinkInv, WireIsLive, Live
<1> DEFINE result == IF m.ok THEN "ok" ELSE "error"
<1>5. \/ call' = call
      \/ /\ Waits(c) /\ call.type = m.to /\ call' # None
         /\ call'.via = c /\ call'.type = call.type /\ call'.name = call.name
         /\ call'.result = result
  <2>1. CASE Waits(c) /\ call.type = m.to
    <3>1. call' = [call EXCEPT !.result = result] /\ call # None /\ call.via = c /\ result \in {"ok", "error"}
      BY <1>3, <2>1 DEF Waits
    <3> HIDE DEF result
    <3>2. call \in [name : Connections \cup {NoName}, via : Connections, type : CallTypes,
                    result : {None, "ok", "error", "closed"}]
      BY <3>1 DEF TypeOK, PlugInTyped
    <3>3. /\ call'.via = c /\ call'.type = call.type /\ call'.name = call.name
          /\ call'.result = result
          /\ call' \in [name : Connections \cup {NoName}, via : Connections, type : CallTypes,
                        result : {None, "ok", "error", "closed"}]
      BY <3>1, <3>2
    <3>4. call' # None
      BY <3>3, NoneAssumption
    <3> QED BY <2>1, <3>3, <3>4
  <2> QED BY <1>3, <2>1
<1>6. call' # call => Waits(c) /\ call' # None /\ call'.via = c /\ call'.type = call.type /\ call'.name = call.name
                      /\ call.type = m.to /\ call'.result = result
  BY <1>5
<1>7. result = "ok" <=> m.ok
  OBVIOUS
<1> HIDE DEF m, result
<1>8. /\ Among(wire'[c], Refusals) <=> Among(wire[c], Refusals)
      /\ Sole(wire[c], Answers) => ~Among(wire'[c], Answers)
      /\ Among(wire[c], Granting) => m.ok \/ Among(wire'[c], Granting)
      /\ Among(wire'[c], Replies) => Among(wire[c], Replies)
      /\ wire[c] # <<>>
  BY <1>0, <1>1, <1>2, AmongTaken DEF m
<1>9. WireIsLive'
  BY <1>2, <1>3, <1>8 DEF LinkInv, WireIsLive
<1>10. ServedIsConnected' /\ IdleUncalled' /\ NamedInTime' /\ NamesFit'
  BY <1>3, CalmSame DEF LinkInv, ServedIsConnected, Requested, IdleUncalled, Idle, NamedInTime, Live, NamesFit,
     ReceiveAnswer
<1>11. LinkedIsLive' /\ CallFits'
  <2>1. call' # call => call'.via = c /\ call # None /\ call.via = c
    BY <1>6 DEF Waits
  <2> QED BY <1>3, <1>4, <1>6, <2>1 DEF LinkInv, LinkedIsLive, CallFits, Live
<1>12. ASSUME timeouts = 0 PROVE CallOnce' /\ AnswerOnce' /\ ConnectHolds' /\ LinkHolds'
  <2>0. CallOnce /\ AnswerOnce /\ ConnectHolds /\ LinkHolds
    BY <1>12 DEF LinkInv, InTime
  <2>1. Waiting(c, m.to) /\ Sole(wire[c], Answers) /\ Among(wire[c], Answers)
    BY <1>1, <1>4, <2>0, AmongOne, Kinds DEF AnswerOnce
  <2>2. \A d \in Connections : sock[d] = "open" => \A type \in CallTypes : ~Among(toConnector, {Msg(type, d)})
    BY <2>0, <2>1 DEF CallOnce, Waiting
  <2>3. \A d \in Connections : ~Among(wire'[d], Answers)
    <3>1. ASSUME NEW d \in Connections, d # c, Among(wire[d], Answers) PROVE FALSE
      <4>1. PICK type \in CallTypes : Among(wire[d], AnswersTo(type))
        BY <3>1, Kinds DEF Among
      <4> QED BY <2>0, <2>1, <3>1, <4>1 DEF AnswerOnce, Waiting
    <3> QED BY <1>2, <1>8, <2>1, <3>1
  <2>4. CallOnce'
    BY <1>3, <2>0, <2>2 DEF CallOnce
  <2>5. AnswerOnce'
    <3>1. \A d \in Connections : Sole(wire'[d], Answers)
      BY <2>3 DEF Sole, Among
    <3>2. \A d \in Connections : \A type \in CallTypes : ~Among(wire'[d], AnswersTo(type))
      BY <2>3, AmongOne, Kinds
    <3> QED BY <3>1, <3>2 DEF AnswerOnce
  <2>6. /\ call # None /\ call.via = c /\ call.result = None /\ call.type = m.to
        /\ call' # None /\ call'.via = c /\ call'.type = call.type /\ call'.name = call.name
        /\ call'.result = result
    <3>1. Waits(c) /\ call.type = m.to
      BY <2>1 DEF Waiting, Waits
    <3>2. call' # call
      <4>1. result # None
        BY NoneAssumption DEF result
      <4>2. call'.result = result
        BY <1>3, <3>1, <1>0 DEF result, m, TypeOK, PlugInTyped, Waits
      <4> QED BY <2>1, <4>1, <4>2 DEF Waiting
    <3> QED BY <1>6, <2>1, <3>1, <3>2 DEF Waiting
  <2>7. \A type : (Granted(type))' <=> Granted(type)
    <3>1. ~Among(wire'[c], Granting)
      BY <2>3, AmongOne, Kinds
    <3>2. m.ok => Among(wire[c], Granting)
      BY <1>0, <1>1, AmongTaken DEF m
    <3>3. call.result # "ok"
      BY <2>6, NoneAssumption
    <3>4. Among(wire[c], Granting) <=> m.ok
      BY <1>8, <3>1, <3>2
    <3> QED BY <1>7, <2>6, <3>1, <3>3, <3>4 DEF Granted
  <2>8. \A d \in Connections : Excused(d) => held' \/ Among(wire'[d], Refusals) \/ Among(toReader', Refusals)
    BY <1>2, <1>3, <1>8 DEF Excused
  <2>9. ConnectHolds'
    BY <1>3, <2>0, <2>6, <2>7, <2>8 DEF ConnectHolds, Excused
  <2>10. LinkHolds'
    BY <1>3, <2>0, <2>6, <2>7, <2>8, LinkFacts DEF LinkHolds, Excused
  <2> QED BY <2>4, <2>5, <2>9, <2>10
<1> QED BY <1>3, <1>9, <1>10, <1>11, <1>12 DEF LinkInv, InTime

\* A connection is asked to close once more.
LEMMA LinkCloseAgain ==
    ASSUME TypeOK, LinkInv, Close, ~IsOpen(Head(toConnector).arg) PROVE LinkInv'
<1>1. /\ toConnector \in Seq(ConnectorSet) /\ toConnector # <<>> /\ toConnector' = Tail(toConnector)
      /\ toReader' = toReader
  BY DEF TypeOK, QueuesTyped, Close, Arrives
<1>2. CalmQueues
  BY <1>1, ConnectorCalms, CalmSame DEF CalmQueues
<1>3. Untouched /\ UNCHANGED <<sock, ctx, wire>>
  BY DEF Close, Untouched, network, device, plugIn, bounds
<1> QED BY <1>2, <1>3, LinkKeeps, SocketsKept

\* The context is established.
LEMMA LinkContext ==
    ASSUME TypeOK, LinkInv, NEW c \in Connections, ReceiveContext(c) PROVE LinkInv'
<1> DEFINE m == Head(wire[c])
<1>0. /\ NetworkTyped /\ wire[c] \in Seq(WireSet) /\ wire[c] # <<>> /\ m \in WireSet /\ m.type = "context"
      /\ toReader \in Seq(ReaderSet)
  BY WireTaken DEF TypeOK, NetworkTyped, QueuesTyped, ReceiveContext, Receives, Arrives
<1>1. m \notin Answers /\ m \notin Refusals /\ m \notin Granting /\ \A type \in CallTypes : m \notin AnswersTo(type)
  BY <1>0, Kinds
<1>2. /\ wire'[c] = Tail(wire[c]) /\ \A d \in Connections \ {c} : wire'[d] = wire[d]
      /\ \A d \in Connections : ctx[d] => ctx'[d]
  BY <1>0 DEF ReceiveContext, Received, NetworkTyped
<1> HIDE DEF m
<1>3. CalmWire(wire[c], wire'[c])
  BY <1>0, <1>1, <1>2, AmongTaken DEF CalmWire, m
<1>4. \A d \in Connections : CalmWire(wire[d], wire'[d])
  BY <1>2, <1>3, CalmSame
<1>5. CalmReader(toReader, toReader') /\ CalmConnector(toConnector, toConnector')
  <2>1. Msg("context", None) \in ReaderSet /\ Msg("context", None).type # "status"
    BY Messages
  <2>2. toReader' = toReader \/ toReader' = Append(toReader, Msg("context", None))
    BY DEF ReceiveContext
  <2>3. toConnector' = toConnector
    BY DEF ReceiveContext
  <2> QED BY <1>0, <2>1, <2>2, <2>3, ReaderCalms, CalmSame
<1>6. Untouched /\ sock' = sock
  BY DEF ReceiveContext, Untouched, device, plugIn, bounds
<1>7. KeepsSockets
  BY <1>6, SocketsKept
<1> QED BY <1>2, <1>4, <1>5, <1>6, <1>7, LinkCalm DEF Untouched, KeepsSockets

\* A status arrives, and is passed on if its reader has a name.
LEMMA LinkStatus ==
    ASSUME TypeOK, LinkInv, Handover, NEW c \in Connections, ReceiveStatus(c) PROVE LinkInv'
<1> DEFINE m == Head(wire[c])
<1>0. /\ NetworkTyped /\ wire[c] \in Seq(WireSet) /\ wire[c] # <<>> /\ m \in WireSet /\ m.type = "status"
      /\ toReader \in Seq(ReaderSet)
  BY WireTaken DEF TypeOK, NetworkTyped, QueuesTyped, ReceiveStatus, Receives, Arrives
<1>1. /\ m \in StatusNews /\ m \in Replies /\ m \notin Answers /\ m \notin Granting
      /\ \A type \in CallTypes : m \notin AnswersTo(type)
  BY <1>0, Kinds
<1>2. Msg("status", m.arg) = m /\ m \in ReaderSet
  <2>1. Msg("status", m.arg) = m
    BY <1>1 DEF StatusNews, Msg
  <2> QED BY <1>1, <2>1, Messages, Kinds
<1>3. /\ wire'[c] = Tail(wire[c]) /\ \A d \in Connections \ {c} : wire'[d] = wire[d]
  BY <1>0 DEF ReceiveStatus, Received, NetworkTyped
<1>4. /\ UNCHANGED <<sock, ctx, served, held, dispatcher, readers, call, timeouts, toConnector>>
      /\ toReader' = IF ctx[c] /\ Told(c) THEN Append(toReader, m) ELSE toReader
  BY <1>2 DEF ReceiveStatus, Told, device, plugIn, bounds
<1> HIDE DEF m
<1>5. Live(c) /\ \A d : Live(d) => d = c
  <2>1. Among(wire[c], Replies)
    BY <1>0, <1>1, AmongTaken DEF m
  <2> QED BY <1>0, <2>1 DEF LinkInv, WireIsLive, Live
<1>6. /\ Among(wire[c], Refusals) => m \in Refusals \/ Among(wire'[c], Refusals)
      /\ \A kind \in {Answers, Granting} \cup {AnswersTo(type) : type \in CallTypes} :
             Among(wire'[c], kind) <=> Among(wire[c], kind)
      /\ Among(wire'[c], Replies) => Among(wire[c], Replies)
      /\ Sole(wire[c], Answers) => Sole(wire'[c], Answers)
  BY <1>0, <1>1, <1>3, AmongTaken DEF m
<1>7. /\ Among(toReader, Refusals) => Among(toReader', Refusals)
      /\ ctx[c] /\ Told(c) /\ m \in Refusals => Among(toReader', Refusals)
  BY <1>0, <1>2, <1>4, AmongPosted
<1>8. WireIsLive'
  BY <1>0, <1>3, <1>4, <1>6 DEF LinkInv, WireIsLive
<1>9. NamedInTime'
  <2>1. \A d \in Connections : Live(d) /\ ~ctx[d] => toReader' = toReader
    BY <1>4, <1>5
  <2> QED BY <1>4, <2>1 DEF LinkInv, NamedInTime, Live
<1>10. ServedIsConnected' /\ IdleUncalled' /\ NamesFit' /\ LinkedIsLive' /\ CallFits'
  BY <1>4 DEF LinkInv, ServedIsConnected, Requested, IdleUncalled, Idle, Live, NamesFit, LinkedIsLive, CallFits
<1>11. ASSUME timeouts = 0 PROVE CallOnce' /\ AnswerOnce' /\ ConnectHolds' /\ LinkHolds'
  <2>0. CallOnce /\ AnswerOnce /\ ConnectHolds /\ LinkHolds
    BY <1>11 DEF LinkInv, InTime
  <2>1. CallOnce'
    BY <1>3, <1>4, <1>6, <2>0 DEF CallOnce, Waiting
  <2>2. AnswerOnce'
    BY <1>3, <1>4, <1>6, <2>0 DEF AnswerOnce, Waiting
  <2>3. \A n \in DOMAIN readers : readers[n].via = c => ctx[c] /\ Told(c)
    BY <1>5, LinkFacts DEF Handover, Listening
  <2>4. \A n \in DOMAIN readers : Live(readers[n].via) /\ Excused(readers[n].via) =>
            held' \/ Among(wire'[readers[n].via], Refusals) \/ Among(toReader', Refusals)
    BY <1>4, <1>5, <1>6, <1>7, <2>3 DEF Excused
  <2>5. \A type : (Granted(type))' <=> Granted(type)
    <3>1. \A d \in Connections : Among(wire'[d], Granting) <=> Among(wire[d], Granting)
      BY <1>3, <1>6
    <3> QED BY <1>4, <3>1, LinkFacts DEF Granted
  <2>6. ConnectHolds'
    <3> SUFFICES ASSUME Granted("Connect"), sock[call.via] = "open"
                 PROVE  held' \/ Among(wire'[call.via], Refusals) \/ Among(toReader', Refusals)
      BY <1>4, <2>5 DEF ConnectHolds, Excused
    <3>1. call.name \in DOMAIN readers /\ readers[call.name].via = call.via /\ Live(call.via)
      BY LinkFacts DEF Granted
    <3>2. Excused(call.via)
      BY <2>0 DEF ConnectHolds
    <3> QED BY <2>4, <3>1, <3>2
  <2>7. LinkHolds'
    <3> SUFFICES ASSUME NEW n \in DOMAIN readers, readers[n].linked, readers[n].via = dispatcher,
                        sock[dispatcher] = "open", ~(Granted("Disconnect") /\ call.name = n)
                 PROVE  held' \/ Among(wire'[dispatcher], Refusals) \/ Among(toReader', Refusals)
      BY <1>4, <2>5 DEF LinkHolds, Excused
    <3>1. Live(readers[n].via) /\ Excused(readers[n].via)
      BY <2>0, LinkFacts DEF LinkHolds
    <3> QED BY <2>4, <3>1
  <2> QED BY <2>1, <2>2, <2>6, <2>7
<1> QED BY <1>4, <1>8, <1>9, <1>10, <1>11 DEF LinkInv, InTime

\* A connection with which neither the plug-in nor its call has anything to do.
Unknown(c) ==
    /\ dispatcher # c /\ \A n \in DOMAIN readers : readers[n].via # c
    /\ call # None => call.via # c
    /\ ~Among(toConnector, CallsTo(c)) /\ ~Among(toReader, {Msg("new", c)})

LEMMA LinkElsewhere ==
    ASSUME TypeOK, LinkInv, NEW c \in Connections, Unknown(c), ServedIsConnected',
           UNCHANGED <<dispatcher, readers, call, timeouts, toReader>>,
           CalmConnector(toConnector, toConnector'),
           \A d \in Connections \ {c} : /\ ctx'[d] = ctx[d] /\ wire'[d] = wire[d]
                                        /\ sock'[d] = "open" <=> sock[d] = "open"
                                        /\ sock'[d] \in {"none", "connecting", "pairing"} => Idle(d),
           ~Among(wire'[c], Replies), wire'[c] # <<>> => sock'[c] = "open",
           UNCHANGED <<served, held>> \/ (served = None /\ served' = c)
    PROVE  LinkInv'
<1>1. WireIsLive'
  BY LinkFacts DEF LinkInv, WireIsLive
<1>2. IdleUncalled'
  BY DEF LinkInv, IdleUncalled, CalmConnector, Idle, Unknown
<1>3. \A d \in Connections : d # c => (Live(d)' <=> Live(d))
  BY LinkFacts DEF Live
<1>4. NamedInTime'
  <2>1. ASSUME NEW d \in Connections, Live(d)', ~ctx'[d]
        PROVE  (dispatcher = d => ~Among(toReader, StatusNews)) /\ Behind(toReader, Msg("new", d), StatusNews)
    <3>1. CASE d = c
      BY <3>1 DEF Unknown, Among, Behind
    <3>2. CASE d # c
      BY <1>3, <2>1, <3>2 DEF LinkInv, NamedInTime
    <3> QED BY <3>1, <3>2
  <2> QED BY <2>1 DEF NamedInTime
<1>5. NamesFit'
  <2>1. \A n \in DOMAIN readers : ctx'[readers[n].via] = ctx[readers[n].via] /\ (Live(readers[n].via)' <=> Live(readers[n].via))
    BY <1>3, LinkFacts DEF Unknown
  <2> QED BY <2>1, LinkFacts DEF LinkInv, NamesFit
<1>6. LinkedIsLive' /\ CallFits'
  <2>1. \A n \in DOMAIN readers : readers[n].linked /\ sock'[readers[n].via] = "open" => served' = readers[n].via
    BY LinkFacts DEF LinkInv, LinkedIsLive, Unknown
  <2>2. call # None /\ call.result = "ok" /\ sock'[call.via] = "open" => served' = call.via
    BY LinkFacts DEF LinkInv, LinkedIsLive, Unknown
  <2> QED BY <2>1, <2>2 DEF LinkInv, LinkedIsLive, CallFits
<1>7. ASSUME timeouts = 0 PROVE CallOnce' /\ AnswerOnce' /\ ConnectHolds' /\ LinkHolds'
  <2>0. CallOnce /\ AnswerOnce /\ ConnectHolds /\ LinkHolds
    BY <1>7 DEF LinkInv, InTime
  <2>1. ~Among(wire'[c], Answers) /\ \A type \in CallTypes : ~Among(wire'[c], AnswersTo(type))
    BY AmongOne, Kinds
  <2>2. ~Among(toConnector', CallsTo(c)) /\ \A type \in CallTypes : ~Among(toConnector', {Msg(type, c)})
    BY AmongOne, Kinds DEF CalmConnector, Unknown
  <2>3. CallOnce'
    <3>1. Sole(toConnector', CallsTo(c))
      BY <2>2 DEF Sole, Among
    <3>2. \A d \in Connections : sock'[d] = "open" => Sole(toConnector', CallsTo(d))
      BY <2>0, <3>1 DEF CallOnce, CalmConnector
    <3>3. ASSUME NEW d \in Connections, sock'[d] = "open", NEW type \in CallTypes,
                 Among(toConnector', {Msg(type, d)})
          PROVE  Waiting(d, type)' /\ ~Among(wire'[d], Answers)
      BY <2>0, <2>2, <3>3 DEF CallOnce, CalmConnector, Waiting
    <3> QED BY <3>2, <3>3 DEF CallOnce
  <2>4. AnswerOnce'
    <3>1. Sole(wire'[c], Answers)
      BY <2>1 DEF Sole, Among
    <3> QED BY <2>0, <2>1, <3>1 DEF AnswerOnce, Waiting
  <2>5. \A d \in Connections \ {c} : Live(d) /\ Excused(d) =>
            held' \/ Among(wire'[d], Refusals) \/ Among(toReader', Refusals)
    BY LinkFacts DEF Live, Excused
  <2>6. call # None => wire'[call.via] = wire[call.via] /\ (sock'[call.via] = "open" <=> sock[call.via] = "open")
    BY LinkFacts DEF Unknown
  <2>7. \A type : (Granted(type))' <=> Granted(type)
    BY <2>6 DEF Granted
  <2>8. ConnectHolds'
    <3> SUFFICES ASSUME Granted("Connect"), sock'[call.via] = "open"
                 PROVE  held' \/ Among(wire'[call.via], Refusals) \/ Among(toReader', Refusals)
      BY <2>7 DEF ConnectHolds, Excused
    <3>1. call.via \in Connections \ {c} /\ sock[call.via] = "open"
      BY <2>6, LinkFacts DEF Granted, Unknown
    <3>2. Live(call.via) /\ Excused(call.via)
      BY <2>0, <3>1, LinkFacts DEF ConnectHolds
    <3> QED BY <2>5, <3>1, <3>2
  <2>9. LinkHolds'
    <3> SUFFICES ASSUME NEW n \in DOMAIN readers, readers[n].linked, readers[n].via = dispatcher,
                        sock'[dispatcher] = "open", ~(Granted("Disconnect") /\ call.name = n)
                 PROVE  held' \/ Among(wire'[dispatcher], Refusals) \/ Among(toReader', Refusals)
      BY <2>7 DEF LinkHolds, Excused
    <3>1. dispatcher \in Connections \ {c} /\ sock[dispatcher] = "open"
      BY LinkFacts DEF Unknown
    <3>2. Live(dispatcher) /\ Excused(dispatcher)
      BY <2>0, <3>1, LinkFacts DEF LinkHolds
    <3> QED BY <2>5, <3>1, <3>2
  <2> QED BY <2>3, <2>4, <2>8, <2>9
<1> QED BY <1>1, <1>2, <1>4, <1>5, <1>6, <1>7 DEF LinkInv, InTime

\* A connection is made.
LEMMA LinkCreated ==
    ASSUME TypeOK, LinkInv, Handover, NEW c \in Connections, OnConnectionCreated(c) PROVE LinkInv'
<1>0. NetworkTyped /\ toReader \in Seq(ReaderSet)
  BY DEF TypeOK, QueuesTyped
<1>1. /\ Idle(c) /\ Requested(c)
      /\ UNCHANGED <<ctx, dispatcher, readers, call, timeouts, toReader, toConnector>>
  BY DEF OnConnectionCreated, Accepted, Idle, Requested, client, plugIn, bounds
<1>2. /\ sock'[c] = "open"
      /\ \A d \in Connections \ {c} : sock'[d] = sock[d] \/ (Idle(d) /\ sock'[d] = "none")
  BY <1>0 DEF OnConnectionCreated, RemoveRequest, Requested, Idle, NetworkTyped
<1>3. ~Told(c) /\ ~Created(c)
  BY <1>1 DEF Handover, IdleIsClean, CreatedIsUnheard, Idle
<1>4. Unknown(c)
  <2>1. dispatcher # c /\ \A n \in DOMAIN readers : readers[n].via # c
    BY <1>3, LinkFacts DEF Handover, Listening, Told
  <2>2. call # None => call.via # c
    BY <2>1, LinkFacts
  <2>3. ~Among(toConnector, CallsTo(c))
    BY <1>1 DEF LinkInv, IdleUncalled
  <2>4. ~Among(toReader, {Msg("new", c)})
    BY <1>3 DEF Created, Refers, Among, Msg
  <2> QED BY <2>1, <2>2, <2>3, <2>4 DEF Unknown
<1>5. wire[c] = <<>> /\ served # c
  <2>1. wire[c] = <<>>
    BY <1>1 DEF LinkInv, WireIsLive, Idle
  <2>2. served # c
    BY <1>1, LinkFacts DEF LinkInv, ServedIsConnected
  <2> QED BY <2>1, <2>2
<1>6. /\ \A d \in Connections \ {c} : wire'[d] = wire[d]
      /\ UNCHANGED <<served, held>> \/ (served = None /\ served' = c)
      /\ wire'[c] = <<>> \/ wire'[c] = <<Msg("close", None)>>
  BY <1>0, <1>5 DEF OnConnectionCreated, NetworkTyped
<1>7. ~Among(wire'[c], Replies)
  <2>1. Msg("close", None) \in WireSet /\ Msg("close", None).type = "close"
    BY Messages
  <2>2. Msg("close", None) \notin Replies
    BY <2>1, Kinds
  <2> QED BY <1>6, <2>2 DEF Among
<1>8. ServedIsConnected'
  BY <1>2, <1>5, <1>6, LinkFacts DEF LinkInv, ServedIsConnected, Requested
<1>9. CalmConnector(toConnector, toConnector')
  BY <1>1, CalmSame
<1>10. \A d \in Connections \ {c} : /\ sock'[d] = "open" <=> sock[d] = "open"
                                    /\ sock'[d] \in {"none", "connecting", "pairing"} => Idle(d)
  BY <1>2 DEF Idle
<1> QED BY <1>1, <1>2, <1>4, <1>6, <1>7, <1>8, <1>9, <1>10, LinkElsewhere

\* A dispatcher is deleted.
LEMMA LinkDestroyed ==
    ASSUME TypeOK, LinkInv, NEW c \in Connections, Destroy(c) PROVE LinkInv'
<1>0. NetworkTyped /\ toConnector \in Seq(ConnectorSet)
  BY DEF TypeOK, QueuesTyped
<1>1. /\ UNCHANGED <<dispatcher, readers, call, timeouts, toReader, served, held>>
      /\ dispatcher # c /\ (\A n \in DOMAIN readers : readers[n].via # c)
      /\ ~Refers(toReader, {"new"}, c) /\ ~Refers(toConnector, CallTypes, c)
  BY DEF Destroy, Referenced, plugIn, device, bounds, Refers, CallTypes
<1>2. /\ sock'[c] = "none" /\ wire'[c] = <<>>
      /\ \A d \in Connections \ {c} : sock'[d] = sock[d] /\ wire'[d] = wire[d] /\ ctx'[d] = ctx[d]
  BY <1>0 DEF Destroy, NetworkTyped
<1>3. Unknown(c)
  <2>1. call # None => call.via # c
    BY <1>1, LinkFacts
  <2>2. ~Among(toConnector, CallsTo(c))
    BY <1>1 DEF Refers, Among, CallsTo
  <2>3. ~Among(toReader, {Msg("new", c)})
    BY <1>1 DEF Refers, Among, Msg
  <2> QED BY <1>1, <2>1, <2>2, <2>3 DEF Unknown
<1>4. CalmConnector(toConnector, toConnector')
  <2>1. PICK places : toConnector' = Kept(toConnector, places)
    BY DEF Destroy
  <2> QED BY <1>0, <2>1, ConnectorCalms
<1>5. ServedIsConnected'
  BY <1>1, <1>2, LinkFacts DEF LinkInv, ServedIsConnected, Requested
<1>6. ~Among(wire'[c], Replies)
  BY <1>2 DEF Among
<1>7. \A d \in Connections \ {c} : sock'[d] \in {"none", "connecting", "pairing"} => Idle(d)
  BY <1>2 DEF Idle
<1> QED BY <1>1, <1>2, <1>3, <1>4, <1>5, <1>6, <1>7, LinkElsewhere

\* A connection ends.
LEMMA LinkEnds ==
    ASSUME TypeOK, LinkInv, NEW c \in Connections, OnDisconnected(c), sock[c] = "open", timeouts' = timeouts,
           CalmConnector(toConnector, toConnector')
    PROVE  LinkInv'
<1>0. NetworkTyped /\ toReader \in Seq(ReaderSet)
  BY DEF TypeOK, QueuesTyped
<1>1. UNCHANGED <<ctx, served, held, dispatcher, readers, timeouts>>
  BY DEF OnDisconnected, device, plugIn
<1>2. /\ sock'[c] \in {"closed", "missed"} /\ wire'[c] = <<>>
      /\ \A d \in Connections \ {c} : sock'[d] = sock[d] /\ wire'[d] = wire[d]
  BY <1>0 DEF OnDisconnected, NetworkTyped
<1>3. CalmReader(toReader, toReader')
  <2>1. Msg("closed", None) \in ReaderSet /\ Msg("closed", None).type # "status"
    BY Messages
  <2>2. toReader' = toReader \/ toReader' = Append(toReader, Msg("closed", None))
    BY <1>0, <2>1 DEF OnDisconnected
  <2> QED BY <1>0, <2>1, <2>2, ReaderCalms, CalmSame
<1>4. \/ call' = call
      \/ call # None /\ call.via = c /\ call'.via = c /\ call'.name = call.name /\ call'.result = "closed"
  <2>1. CASE Waits(c)
    <3>1. call' = [call EXCEPT !.result = "closed"] /\ call # None /\ call.via = c
      BY <2>1 DEF OnDisconnected, Waits
    <3>2. call \in [name : Connections \cup {NoName}, via : Connections, type : CallTypes,
                    result : {None, "ok", "error", "closed"}]
      BY <3>1 DEF TypeOK, PlugInTyped
    <3> QED BY <3>1, <3>2
  <2>2. CASE ~Waits(c)
    BY <2>2 DEF OnDisconnected
  <2> QED BY <2>1, <2>2
<1>5. WireIsLive'
  BY <1>1, <1>2 DEF LinkInv, WireIsLive, Among
<1>6. ServedIsConnected' /\ IdleUncalled'
  BY <1>1, <1>2, LinkFacts DEF LinkInv, ServedIsConnected, Requested, IdleUncalled, Idle, CalmConnector
<1>7. \A d \in Connections : Live(d)' => Live(d) /\ d # c
  BY <1>1, <1>2 DEF Live
<1>8. NamedInTime'
  BY <1>1, <1>3, <1>7 DEF LinkInv, NamedInTime, CalmReader
<1>9. NamesFit'
  BY <1>1, <1>7, LinkFacts DEF LinkInv, NamesFit
<1>10. LinkedIsLive'
  BY <1>1, <1>2, <1>4, LinkFacts DEF LinkInv, LinkedIsLive
<1>11. CallFits'
  BY <1>1, <1>4 DEF LinkInv, CallFits
<1>12. ASSUME timeouts = 0 PROVE CallOnce' /\ AnswerOnce' /\ ConnectHolds' /\ LinkHolds'
  <2>0. CallOnce /\ AnswerOnce /\ ConnectHolds /\ LinkHolds
    BY <1>12 DEF LinkInv, InTime
  <2>1. \A d \in Connections : d # c => \A type \in CallTypes : Waiting(d, type) => Waiting(d, type)'
    BY <1>4 DEF Waiting
  <2>2. CallOnce'
    BY <1>2, <2>0, <2>1 DEF CallOnce, CalmConnector
  <2>3. AnswerOnce'
    <3>1. Sole(wire'[c], Answers) /\ \A type \in CallTypes : ~Among(wire'[c], AnswersTo(type))
      BY <1>2 DEF Sole, Among
    <3> QED BY <1>2, <2>0, <2>1, <3>1 DEF AnswerOnce
  <2>4. call'.via # c => call' = call
    BY <1>4
  <2>5. \A d \in Connections \ {c} : Excused(d) => held' \/ Among(wire'[d], Refusals) \/ Among(toReader', Refusals)
    BY <1>1, <1>2, <1>3 DEF Excused, CalmReader
  <2>6. ConnectHolds'
    <3> SUFFICES ASSUME (Granted("Connect"))', sock'[call'.via] = "open"
                 PROVE  held' \/ Among(wire'[call'.via], Refusals) \/ Among(toReader', Refusals)
      BY DEF ConnectHolds, Excused
    <3>1. call' = call /\ call # None /\ call.via \in Connections \ {c}
      BY <1>2, <2>4, LinkFacts DEF Granted
    <3>2. Granted("Connect") /\ sock[call.via] = "open"
      BY <1>2, <3>1 DEF Granted
    <3> QED BY <2>0, <2>5, <3>1, <3>2 DEF ConnectHolds
  <2>7. LinkHolds'
    <3> SUFFICES ASSUME NEW n \in DOMAIN readers, readers[n].linked, readers[n].via = dispatcher,
                        sock'[dispatcher] = "open", ~((Granted("Disconnect"))' /\ call'.name = n)
                 PROVE  held' \/ Among(wire'[dispatcher], Refusals) \/ Among(toReader', Refusals)
      BY <1>1 DEF LinkHolds, Excused
    <3>1. dispatcher \in Connections \ {c} /\ sock[dispatcher] = "open"
      BY <1>2, LinkFacts
    <3>2. ~(Granted("Disconnect") /\ call.name = n)
      <4> SUFFICES ASSUME Granted("Disconnect"), call.name = n PROVE FALSE
        OBVIOUS
      <4>1. call # None /\ call.via = dispatcher
        BY LinkFacts DEF Granted
      <4>2. call' = call /\ wire'[call.via] = wire[call.via]
        BY <1>2, <1>4, <3>1, <4>1
      <4> QED BY <4>2 DEF Granted
    <3> QED BY <2>0, <2>5, <3>1, <3>2 DEF LinkHolds
  <2> QED BY <2>2, <2>3, <2>6, <2>7
<1> QED BY <1>1, <1>5, <1>6, <1>8, <1>9, <1>10, <1>11, <1>12 DEF LinkInv, InTime

\* The plug-in acts, as it does while no call is waited for; it may begin one.
Begins ==
    \E name \in DOMAIN readers', type \in CallTypes :
        /\ Sends(name, readers'[name].via, type)
        /\ name \in Connections \cup {NoName}
        /\ readers'[name].via \in Connections /\ ~Idle(readers'[name].via)

LEMMA LinkFree ==
    ASSUME TypeOK, LinkInv, call = None, UNCHANGED <<sock, ctx, wire, served, held, timeouts>>,
           NamedInTime', NamesFit',
           \A n \in DOMAIN readers' :
               readers'[n].linked /\ sock[readers'[n].via] = "open" => served = readers'[n].via,
           timeouts = 0 => \A n \in DOMAIN readers' :
               readers'[n].linked /\ readers'[n].via = dispatcher' /\ sock[dispatcher'] = "open" =>
                   held \/ Among(wire[dispatcher'], Refusals) \/ Among(toReader', Refusals),
           (call' = None /\ CalmConnector(toConnector, toConnector')) \/ Begins
    PROVE  LinkInv'
<1>0. toConnector \in Seq(ConnectorSet)
  BY DEF TypeOK, QueuesTyped
<1>1. WireIsLive' /\ ServedIsConnected'
  BY DEF LinkInv, WireIsLive, ServedIsConnected, Requested
<1>2. ASSUME timeouts = 0
      PROVE  /\ \A c \in Connections : sock[c] = "open" => \A type \in CallTypes : ~Among(toConnector, {Msg(type, c)})
             /\ \A c \in Connections : ~Among(wire[c], Answers)
  <2>0. CallOnce /\ AnswerOnce
    BY <1>2 DEF LinkInv, InTime
  <2>1. \A c \in Connections : \A type \in CallTypes : ~Waiting(c, type)
    BY DEF Waiting
  <2>2. \A c \in Connections : sock[c] = "open" => \A type \in CallTypes : ~Among(toConnector, {Msg(type, c)})
    BY <2>0, <2>1 DEF CallOnce
  <2>3. \A c \in Connections : \A type \in CallTypes : ~Among(wire[c], AnswersTo(type))
    BY <2>0, <2>1 DEF AnswerOnce
  <2>4. \A c \in Connections : ~Among(wire[c], Answers)
    BY <2>3, Kinds DEF Among
  <2> QED BY <2>2, <2>4
<1>3. CASE call' = None /\ CalmConnector(toConnector, toConnector')
  <2>1. IdleUncalled'
    BY <1>3 DEF LinkInv, IdleUncalled, CalmConnector, Idle
  <2>2. LinkedIsLive' /\ CallFits'
    BY <1>3 DEF LinkedIsLive, CallFits
  <2>3. ASSUME timeouts = 0 PROVE CallOnce' /\ AnswerOnce' /\ ConnectHolds' /\ LinkHolds'
    <3>0. CallOnce /\ AnswerOnce
      BY <2>3 DEF LinkInv, InTime
    <3>1. CallOnce'
      BY <1>3, <1>2, <2>3, <3>0 DEF CallOnce, CalmConnector
    <3>2. AnswerOnce'
      BY <1>3, <3>0 DEF AnswerOnce, Waiting
    <3>3. ConnectHolds' /\ LinkHolds'
      BY <1>3, <2>3 DEF ConnectHolds, LinkHolds, Granted, Excused
    <3> QED BY <3>1, <3>2, <3>3
  <2> QED BY <1>1, <2>1, <2>2, <2>3 DEF LinkInv, InTime
<1>4. CASE Begins
  <2>0. PICK name \in DOMAIN readers', type \in CallTypes :
            /\ Sends(name, readers'[name].via, type)
            /\ name \in Connections \cup {NoName}
            /\ readers'[name].via \in Connections /\ ~Idle(readers'[name].via)
    BY <1>4 DEF Begins
  <2> DEFINE via == readers'[name].via
             m == Msg(type, via)
  <2>1. /\ call' = [name |-> name, via |-> via, type |-> type, result |-> None]
        /\ toConnector' = Append(toConnector, m)
    BY <2>0 DEF Sends
  <2>2. m \in ConnectorSet /\ m.type = type /\ m.arg = via
    BY <2>0, Messages
  <2>3. \A d \in Connections : /\ m \in CallsTo(d) => d = via
                               /\ \A t \in CallTypes : m \in {Msg(t, d)} => t = type /\ d = via
    BY <2>2, Kinds DEF Msg
  <2>4. via \in Connections /\ ~Idle(via)
    BY <2>0
  <2> HIDE DEF via, m
  <2>5. call' # None /\ call'.via = via /\ call'.type = type /\ call'.name = name /\ call'.result = None
    <3>1. call' \in [name : Connections \cup {NoName}, via : Connections, type : CallTypes,
                     result : {None, "ok", "error", "closed"}]
      BY <2>0, <2>1, <2>4
    <3> QED BY <2>1, <3>1, NoneAssumption
  <2>6. \A d \in Connections : /\ Among(toConnector', CallsTo(d)) => Among(toConnector, CallsTo(d)) \/ d = via
                               /\ \A t \in CallTypes : Among(toConnector', {Msg(t, d)}) =>
                                      Among(toConnector, {Msg(t, d)}) \/ (t = type /\ d = via)
                               /\ ~Among(toConnector, CallsTo(d)) => Sole(toConnector', CallsTo(d))
    <3>1. ASSUME NEW d \in Connections, ~Among(toConnector, CallsTo(d)) PROVE Sole(toConnector', CallsTo(d))
      <4>1. Sole(toConnector, CallsTo(d))
        BY <3>1 DEF Sole, Among
      <4> QED BY <1>0, <2>1, <2>2, <3>1, <4>1, AmongPosted
    <3>2. \A kind : Among(toConnector', kind) <=> Among(toConnector, kind) \/ m \in kind
      BY <1>0, <2>1, <2>2, AmongPosted
    <3> QED BY <2>3, <3>1, <3>2
  <2>7. IdleUncalled'
    BY <2>4, <2>6 DEF LinkInv, IdleUncalled, Idle
  <2>8. LinkedIsLive' /\ CallFits'
    <3>1. call'.result # "ok"
      BY <2>5, NoneAssumption
    <3>2. call'.name \in DOMAIN readers' /\ readers'[call'.name].via = call'.via
      BY <2>0, <2>5 DEF via
    <3> QED BY <3>1, <3>2 DEF LinkedIsLive, CallFits
  <2>9. ASSUME timeouts = 0 PROVE CallOnce' /\ AnswerOnce' /\ ConnectHolds' /\ LinkHolds'
    <3>1. \A d \in Connections : sock[d] = "open" => ~Among(toConnector, CallsTo(d))
      BY <1>2, <2>9, Kinds DEF Among
    <3>2. CallOnce'
      <4>1. \A d \in Connections : sock[d] = "open" => Sole(toConnector', CallsTo(d))
        BY <2>6, <3>1
      <4>2. ASSUME NEW d \in Connections, sock[d] = "open", NEW t \in CallTypes, Among(toConnector', {Msg(t, d)})
            PROVE  Waiting(d, t)' /\ ~Among(wire[d], Answers)
        BY <1>2, <2>5, <2>6, <2>9, <4>2 DEF Waiting
      <4> QED BY <4>1, <4>2 DEF CallOnce
    <3>3. AnswerOnce'
      <4>1. \A d \in Connections : Sole(wire[d], Answers)
        BY <1>2, <2>9 DEF Sole, Among
      <4>2. \A d \in Connections : \A t \in CallTypes : ~Among(wire[d], AnswersTo(t))
        BY <1>2, <2>9, AmongOne, Kinds
      <4> QED BY <4>1, <4>2 DEF AnswerOnce
    <3>4. \A t : ~(Granted(t))'
      <4>1. ~Among(wire[via], Granting) /\ call'.result # "ok"
        BY <1>2, <2>4, <2>5, <2>9, AmongOne, Kinds, NoneAssumption
      <4> QED BY <2>5, <4>1 DEF Granted
    <3>5. ConnectHolds' /\ LinkHolds'
      BY <2>9, <3>4 DEF ConnectHolds, LinkHolds, Excused
    <3> QED BY <3>2, <3>3, <3>5
  <2> QED BY <1>1, <2>7, <2>8, <2>9 DEF LinkInv, InTime
<1> QED BY <1>3, <1>4

\* What LinkFree asks for holds of the readers as they are.
LEMMA LinkedBefore ==
    ASSUME TypeOK, LinkInv, call = None
    PROVE  /\ \A n \in DOMAIN readers :
                  readers[n].linked /\ sock[readers[n].via] = "open" => served = readers[n].via
           /\ timeouts = 0 => \A n \in DOMAIN readers :
                  readers[n].linked /\ readers[n].via = dispatcher /\ sock[dispatcher] = "open" =>
                      held \/ Among(wire[dispatcher], Refusals) \/ Among(toReader, Refusals)
<1>1. \A n \in DOMAIN readers : readers[n].linked /\ sock[readers[n].via] = "open" => served = readers[n].via
  BY DEF LinkInv, LinkedIsLive
<1>2. \A type : ~Granted(type)
  BY DEF Granted
<1>3. timeouts = 0 => LinkHolds
  BY DEF LinkInv, InTime
<1> QED BY <1>1, <1>2, <1>3 DEF LinkHolds, Excused

\* A dispatcher is added.
LEMMA LinkAdded ==
    ASSUME TypeOK, LinkInv, Handover, AddRemoteDispatcher PROVE LinkInv'
<1> DEFINE c == Head(toReader).arg
<1>0. /\ toReader \in Seq(ReaderSet) /\ toConnector \in Seq(ConnectorSet) /\ c \in Connections
      /\ toReader # <<>> /\ Head(toReader).type = "new" /\ Head(toReader) \in ReaderSet
  BY HeadArgs, Heads DEF TypeOK, QueuesTyped, AddRemoteDispatcher, Arrives
<1>1. /\ call = None /\ UNCHANGED <<sock, ctx, wire, served, held, timeouts, readers, call>>
      /\ dispatcher' = c /\ toConnector' = Append(toConnector, Msg("establishContext", c))
      /\ toReader' = Tail(toReader)
  BY DEF AddRemoteDispatcher, Free, device, bounds
<1>2. Head(toReader) = Msg("new", c)
  BY <1>0 DEF ReaderSet, Msg
<1>3. \A n \in DOMAIN readers : readers[n].via # c
  <2>1. Refers(toReader, {"new"}, c)
    BY <1>0, HeadRefers
  <2> QED BY <1>0, <2>1 DEF Handover, CreatedIsUnheard, Created, Listening
<1>4. CalmReader(toReader, toReader')
  BY <1>0, <1>1, ReaderCalms
<1>5. CalmConnector(toConnector, toConnector')
  <2>1. Msg("establishContext", c) \in ConnectorSet /\ Msg("establishContext", c).type \notin CallTypes
    BY <1>0, Messages DEF CallTypes
  <2> QED BY <1>0, <1>1, <2>1, ConnectorCalms
<1> HIDE DEF c
<1>6. NamedInTime'
  <2>1. ASSUME NEW d \in Connections, Live(d), ~ctx[d]
        PROVE  /\ c = d => ~Among(toReader', StatusNews)
               /\ Behind(toReader', Msg("new", d), StatusNews)
    <3>1. Behind(toReader, Msg("new", d), StatusNews)
      BY <2>1 DEF LinkInv, NamedInTime
    <3> QED BY <1>0, <1>1, <1>2, <3>1, AmongTaken
  <2> QED BY <1>1, <2>1 DEF NamedInTime, Live
<1>7. NamesFit'
  BY <1>1 DEF LinkInv, NamesFit, Live
<1> QED BY <1>1, <1>3, <1>5, <1>6, <1>7, LinkedBefore, LinkFree

\* A dispatcher is removed.
LEMMA LinkRemoved ==
    ASSUME TypeOK, LinkInv, OnDispatcherClosed PROVE LinkInv'
<1>0. toReader \in Seq(ReaderSet) /\ toReader # <<>> /\ Head(toReader).type = "closed"
  BY DEF TypeOK, QueuesTyped, OnDispatcherClosed, Arrives
<1>1. /\ call = None /\ UNCHANGED <<sock, ctx, wire, served, held, timeouts, call, toConnector>>
      /\ dispatcher' = None /\ DOMAIN readers' = {} /\ toReader' = Tail(toReader)
  BY DEF OnDispatcherClosed, Remaining, Free, device, bounds
<1>2. CalmReader(toReader, toReader') /\ CalmConnector(toConnector, toConnector')
  BY <1>0, <1>1, ReaderCalms, CalmSame
<1>3. NamedInTime'
  BY <1>1, <1>2, LinkFacts DEF LinkInv, NamedInTime, CalmReader, Live
<1>4. NamesFit'
  BY <1>1 DEF NamesFit
<1> QED BY <1>1, <1>2, <1>3, <1>4, LinkFree

\* A card is called.
LEMMA LinkCalled ==
    ASSUME TypeOK, LinkInv, Handover, NEW n \in DOMAIN readers, NEW type \in CallTypes, CallCard(n, type)
    PROVE  LinkInv'
<1>1. /\ call = None /\ UNCHANGED <<sock, ctx, wire, served, held, timeouts, dispatcher, readers, toReader>>
      /\ Sends(n, readers[n].via, type)
  BY DEF CallCard, Free, network, device, plugIn
<1>2. ~Idle(readers[n].via)
  BY LinkFacts DEF Handover, Listening, IdleIsClean, Told
<1>3. Begins
  BY <1>1, <1>2, LinkFacts DEF Begins
<1>4. NamedInTime' /\ NamesFit'
  BY <1>1 DEF LinkInv, NamedInTime, NamesFit, Live
<1> QED BY <1>1, <1>3, <1>4, LinkedBefore, LinkFree

\* The plug-in is told of a status.
LEMMA LinkHandled ==
    ASSUME TypeOK, LinkInv, Handover, HandleIFDStatus PROVE LinkInv'
<1> DEFINE m == Head(toReader)
           exists == Name \in DOMAIN readers
           via == IF exists THEN readers[Name].via ELSE dispatcher
           inserted == m.arg = "card" /\ ~(exists /\ readers[Name].card)
<1>0. /\ toReader \in Seq(ReaderSet) /\ toReader # <<>> /\ m \in StatusNews
      /\ call = None /\ toReader' = Tail(toReader)
      /\ UNCHANGED <<sock, ctx, wire, served, held, timeouts, dispatcher>>
  <2>1. /\ toReader \in Seq(ReaderSet) /\ toReader # <<>> /\ m.type = "status" /\ toReader' = Tail(toReader)
        /\ call = None /\ UNCHANGED <<sock, ctx, wire, served, held, timeouts, dispatcher>>
    BY DEF HandleIFDStatus, Arrives, Free, TypeOK, QueuesTyped, network, device, bounds
  <2> QED BY <2>1, Taking, Kinds
<1>1. /\ Among(toReader', StatusNews) => Among(toReader, StatusNews)
      /\ Among(toReader, StatusNews)
      /\ Among(toReader, Refusals) => m \in Refusals \/ Among(toReader', Refusals)
      /\ \A first : Behind(toReader, first, StatusNews) => Behind(toReader', first, StatusNews)
      /\ m \in Refusals <=> m.arg # "card"
  BY <1>0, AmongTaken, Kinds
<1>2. NamedInTime'
  BY <1>0, <1>1 DEF LinkInv, NamedInTime, Live
<1>3. CASE dispatcher = None
  <2>1. UNCHANGED <<readers, call, toConnector>>
    BY <1>3 DEF HandleIFDStatus
  <2>2. NamesFit'
    BY <1>0, <2>1 DEF LinkInv, NamesFit, Live
  <2>3. \A n \in DOMAIN readers' : readers'[n].via # dispatcher'
    BY <1>0, <1>3, <2>1, LinkFacts
  <2>4. CalmConnector(toConnector, toConnector')
    BY <2>1, CalmSame
  <2> QED BY <1>0, <1>2, <2>1, <2>2, <2>3, <2>4, LinkedBefore, LinkFree
<1>4. CASE dispatcher # None
  <2>1. /\ dispatcher \in Connections
        /\ Live(dispatcher) => ctx[dispatcher]
        /\ Name = IF ctx[dispatcher] THEN dispatcher ELSE NoName
    BY <1>1, <1>4, LinkFacts DEF LinkInv, NamedInTime, Name
  <2>2. via \in Connections /\ Told(via) /\ (Name # NoName => via = Name /\ ctx[Name]) /\ (Name = NoName => ~Live(via))
    <3>1. CASE exists
      BY <2>1, <3>1, LinkFacts DEF LinkInv, NamesFit, Handover, Listening
    <3>2. CASE ~exists
      BY <1>4, <2>1, <3>2, LinkFacts DEF Handover, Listening
    <3> QED BY <3>1, <3>2
  <2>3. /\ \A n \in DOMAIN readers' : n # Name => n \in DOMAIN readers /\ readers'[n] = readers[n]
        /\ Name \in DOMAIN readers' =>
               /\ readers'[Name].via = via
               /\ readers'[Name].linked => m.arg = "card" /\ exists /\ readers[Name].linked
        /\ m.arg = "card" => Name \in DOMAIN readers'
    <3>1. CASE m.arg = "gone"
      <4>1. readers' = [n \in DOMAIN readers \ {Name} |-> readers[n]]
        BY <1>4, <3>1 DEF HandleIFDStatus
      <4> QED BY <3>1, <4>1
    <3>2. CASE m.arg # "gone"
      <4>1. readers' = With(Name, [via |-> via, card |-> m.arg = "card",
                                   linked |-> m.arg = "card" /\ exists /\ readers[Name].linked])
        BY <1>4, <3>2 DEF HandleIFDStatus
      <4> QED BY <4>1 DEF With
    <3> QED BY <3>1, <3>2
  <2>4. \/ UNCHANGED <<call, toConnector>>
        \/ m.arg = "card" /\ Sends(Name, via, "Connect")
    BY DEF HandleIFDStatus
  <2> HIDE DEF m, exists, via, inserted
  <2>5. Name \in Connections \cup {NoName}
    BY <2>1
  <2>6. ~Idle(via)
    BY <2>2 DEF Handover, IdleIsClean, Told
  <2>7. (call' = None /\ CalmConnector(toConnector, toConnector')) \/ Begins
    <3>1. CASE UNCHANGED <<call, toConnector>>
      BY <1>0, <3>1, CalmSame
    <3>2. CASE m.arg = "card" /\ Sends(Name, via, "Connect")
      <4>1. Name \in DOMAIN readers' /\ readers'[Name].via = via /\ "Connect" \in CallTypes
        BY <2>3, <3>2 DEF CallTypes
      <4> QED BY <2>2, <2>5, <2>6, <3>2, <4>1 DEF Begins
    <3> QED BY <2>4, <3>1, <3>2
  <2>8. NamesFit'
    <3> SUFFICES ASSUME NEW n \in DOMAIN readers'
                 PROVE  (n # NoName => readers'[n].via = n /\ ctx[n]) /\ (n = NoName => ~Live(readers'[n].via))
      BY <1>0 DEF NamesFit, Live
    <3>1. CASE n # Name
      BY <2>3, <3>1 DEF LinkInv, NamesFit
    <3>2. CASE n = Name
      BY <2>2, <2>3, <3>2
    <3> QED BY <3>1, <3>2
  <2>9. \A n \in DOMAIN readers' : readers'[n].linked =>
            /\ n \in DOMAIN readers /\ readers[n].linked /\ readers'[n].via = readers[n].via
            /\ n = Name => m.arg = "card"
    BY <2>3 DEF exists, via
  <2>10. \A n \in DOMAIN readers' :
             readers'[n].linked /\ sock[readers'[n].via] = "open" => served = readers'[n].via
    BY <2>9, LinkedBefore, <1>0
  <2>11. ASSUME timeouts = 0, NEW n \in DOMAIN readers', readers'[n].linked, readers'[n].via = dispatcher,
                sock[dispatcher] = "open"
         PROVE  held \/ Among(wire[dispatcher], Refusals) \/ Among(toReader', Refusals)
    <3>1. n \in DOMAIN readers /\ readers[n].linked /\ readers[n].via = dispatcher
      BY <2>9, <2>11
    <3>2. held \/ Among(wire[dispatcher], Refusals) \/ Among(toReader, Refusals)
      BY <1>0, <2>11, <3>1, LinkedBefore
    <3>3. n = Name
      BY <2>1, <2>11, <3>1, LinkFacts DEF Live
    <3>4. m \notin Refusals
      BY <1>1, <2>9, <2>11, <3>3
    <3> QED BY <1>1, <3>2, <3>4
  <2> QED BY <1>0, <1>2, <2>7, <2>8, <2>10, <2>11, LinkFree
<1> QED BY <1>3, <1>4

\* A call ends, answered or not.
LEMMA LinkCallOver ==
    ASSUME TypeOK, LinkInv, call # None, call' = None,
           UNCHANGED <<sock, ctx, wire, served, held, dispatcher, toReader, toConnector>>,
           DOMAIN readers' = DOMAIN readers, \A n \in DOMAIN readers : readers'[n].via = readers[n].via,
           \A n \in DOMAIN readers : readers'[n].linked => readers[n].linked \/ (n = call.name /\ call.result = "ok"),
           timeouts' \in Nat, timeouts' = 0 => timeouts = 0,
           timeouts' = 0 => /\ \A c \in Connections : sock[c] = "open" => \A type \in CallTypes :
                                   ~(Waiting(c, type) /\ Among(toConnector, {Msg(type, c)}))
                            /\ \A c \in Connections : \A type \in CallTypes :
                                   ~(Waiting(c, type) /\ Among(wire[c], AnswersTo(type)))
                            /\ LinkHolds'
    PROVE  LinkInv'
<1>1. WireIsLive' /\ ServedIsConnected' /\ IdleUncalled' /\ NamedInTime' /\ CallFits'
  BY DEF LinkInv, WireIsLive, ServedIsConnected, Requested, IdleUncalled, Idle, NamedInTime, Live, CallFits
<1>2. NamesFit'
  BY DEF LinkInv, NamesFit, Live
<1>3. LinkedIsLive'
  BY LinkFacts DEF LinkInv, LinkedIsLive
<1>4. ASSUME timeouts' = 0 PROVE CallOnce' /\ AnswerOnce' /\ ConnectHolds'
  <2>0. CallOnce /\ AnswerOnce
    BY <1>4 DEF LinkInv, InTime
  <2>1. CallOnce'
    BY <1>4, <2>0 DEF CallOnce
  <2>2. AnswerOnce'
    BY <1>4, <2>0 DEF AnswerOnce
  <2>3. ConnectHolds'
    BY DEF ConnectHolds, Granted
  <2> QED BY <2>1, <2>2, <2>3
<1> QED BY <1>1, <1>2, <1>3, <1>4 DEF LinkInv, InTime

LEMMA LinkCallEnds ==
    ASSUME TypeOK, LinkInv, CallEnds PROVE LinkInv'
<1>1. /\ call # None /\ call.result # None /\ call' = None
      /\ UNCHANGED <<sock, ctx, wire, served, held, dispatcher, toReader, toConnector, timeouts>>
  BY DEF CallEnds, network, device, bounds
<1>2. /\ DOMAIN readers' = DOMAIN readers
      /\ \A n \in DOMAIN readers : /\ readers'[n].via = readers[n].via
                                   /\ n # call.name \/ call.result # "ok" => readers'[n].linked = readers[n].linked
      /\ call.result = "ok" => readers'[call.name].linked = Links(call.type, readers[call.name].linked)
  <2>1. readers \in [DOMAIN readers -> [via : Connections, card : BOOLEAN, linked : BOOLEAN]]
        /\ call.name \in DOMAIN readers
    BY <1>1, LinkFacts DEF TypeOK, PlugInTyped
  <2>2. readers' = IF call.result = "ok" THEN [readers EXCEPT ![call.name].linked = Links(call.type, @)] ELSE readers
    BY DEF CallEnds
  <2> QED BY <2>1, <2>2
<1>3. \A c, type : ~Waiting(c, type)
  BY <1>1 DEF Waiting
<1>4. ASSUME timeouts = 0 PROVE LinkHolds'
  <2>0. AnswerOnce /\ ConnectHolds /\ LinkHolds
    BY <1>4 DEF LinkInv, InTime
  <2>1. ASSUME call.result # "ok" PROVE ~Granted("Disconnect")
    <3>1. ~Among(wire[call.via], Answers)
      BY <1>1, <1>3, <2>0, LinkFacts, Kinds DEF AnswerOnce, Among
    <3> QED BY <2>1, <3>1, AmongOne, Kinds DEF Granted
  <2> SUFFICES ASSUME NEW n \in DOMAIN readers, readers'[n].linked, readers[n].via = dispatcher,
                      sock[dispatcher] = "open"
               PROVE  Excused(dispatcher)
    BY <1>1, <1>2 DEF LinkHolds, Excused
  <2>2. CASE n # call.name \/ call.result # "ok"
    BY <1>2, <2>0, <2>1, <2>2 DEF LinkHolds
  <2>3. CASE n = call.name /\ call.result = "ok"
    <3>1. call.via = dispatcher /\ Links(call.type, readers[n].linked) /\ call.type \in CallTypes
      BY <1>1, <1>2, <2>3, LinkFacts
    <3>2. CASE call.type = "Connect"
      BY <1>1, <2>0, <2>3, <3>1, <3>2 DEF ConnectHolds, Granted
    <3>3. CASE call.type # "Connect"
      BY <2>0, <3>1, <3>3 DEF LinkHolds, Links, Granted
    <3> QED BY <3>2, <3>3
  <2> QED BY <2>2, <2>3
<1> QED BY <1>1, <1>2, <1>3, <1>4, LinkCallOver DEF LinkInv

LEMMA LinkTimesOut ==
    ASSUME TypeOK, LinkInv, CallTimesOut PROVE LinkInv'
<1>0. timeouts \in Nat
  BY DEF LinkInv
<1>1. /\ call # None /\ call.result = None /\ call' = None
      /\ UNCHANGED <<sock, ctx, wire, served, held, dispatcher, readers, toReader, toConnector>>
      /\ (AnswerLost /\ timeouts' = timeouts) \/ timeouts' = timeouts + 1
  BY DEF CallTimesOut, network, device, plugIn
<1>2. timeouts' \in Nat /\ (timeouts' = 0 => timeouts = 0 /\ AnswerLost)
  BY <1>0, <1>1
<1>3. ASSUME AnswerLost, timeouts = 0
      PROVE  /\ \A c \in Connections : sock[c] = "open" => \A type \in CallTypes :
                    ~(Waiting(c, type) /\ Among(toConnector, {Msg(type, c)}))
             /\ \A c \in Connections : \A type \in CallTypes :
                    ~(Waiting(c, type) /\ Among(wire[c], AnswersTo(type)))
             /\ LinkHolds'
  <2>0. LinkHolds /\ ~Live(call.via)
    BY <1>1, <1>3, LinkFacts DEF LinkInv, InTime, AnswerLost, Live, IsOpen
  <2>1. \A c \in Connections : \A type \in CallTypes : ~(Waiting(c, type) /\ Among(toConnector, {Msg(type, c)}))
    BY <1>3 DEF AnswerLost, Refers, Among, Waiting, Msg
  <2>2. ASSUME NEW c \in Connections, NEW type \in CallTypes, Waiting(c, type), Among(wire[c], AnswersTo(type))
        PROVE  FALSE
    <3>1. Among(wire[c], Replies) /\ wire[c] # <<>>
      BY <2>2, AmongOne, Kinds DEF Among
    <3> QED BY <2>0, <2>2, <3>1 DEF LinkInv, WireIsLive, Live, Waiting
  <2>3. LinkHolds'
    <3> SUFFICES ASSUME NEW n \in DOMAIN readers, readers[n].linked, readers[n].via = dispatcher,
                        sock[dispatcher] = "open"
                 PROVE  Excused(dispatcher)
      BY <1>1 DEF LinkHolds, Excused
    <3>1. ~(Granted("Disconnect") /\ call.name = n)
      BY <1>1, <2>0, LinkFacts
    <3> QED BY <2>0, <3>1 DEF LinkHolds
  <2> QED BY <2>1, <2>2, <2>3
<1> QED BY <1>1, <1>2, <1>3, LinkCallOver

\* The device notices the end of its connection.
LEMMA LinkNoticed ==
    ASSUME TypeOK, LinkInv, NoticesEnd PROVE LinkInv'
<1>1. /\ served \in Connections /\ ~IsOpen(served) /\ served' = None
      /\ UNCHANGED <<sock, ctx, wire, dispatcher, readers, call, timeouts, toReader, toConnector>>
  BY LinkFacts DEF NoticesEnd, network, plugIn, bounds
<1>2. \A c \in Connections : ~Live(c) /\ ~Live(c)' /\ ~Among(wire[c], Replies)
  <2>1. \A c \in Connections : ~Live(c) /\ ~Live(c)'
    BY <1>1, LinkFacts DEF Live, IsOpen
  <2>2. \A c \in Connections : Among(wire[c], Replies) => Live(c)
    BY DEF LinkInv, WireIsLive, Live, Among
  <2> QED BY <2>1, <2>2
<1>3. WireIsLive'
  BY <1>1, <1>2 DEF LinkInv, WireIsLive
<1>4. ServedIsConnected' /\ IdleUncalled' /\ NamedInTime' /\ CallFits'
  BY <1>1, <1>2 DEF LinkInv, ServedIsConnected, IdleUncalled, Idle, NamedInTime, CallFits
<1>5. NamesFit'
  BY <1>1, <1>2, LinkFacts DEF LinkInv, NamesFit
<1>6. LinkedIsLive'
  BY <1>1, <1>2, LinkFacts DEF LinkInv, LinkedIsLive, Live
<1>7. ASSUME timeouts = 0 PROVE CallOnce' /\ AnswerOnce' /\ ConnectHolds' /\ LinkHolds'
  <2>0. CallOnce /\ AnswerOnce
    BY <1>7 DEF LinkInv, InTime
  <2>1. CallOnce' /\ AnswerOnce'
    BY <1>1, <2>0 DEF CallOnce, AnswerOnce, Waiting
  <2>2. \A type : (Granted(type))' => Granted(type)
    BY <1>1 DEF Granted
  <2>3. ConnectHolds'
    BY <1>1, <1>2, <2>2, LinkFacts DEF ConnectHolds, Granted
  <2>4. LinkHolds'
    BY <1>1, <1>2, LinkFacts DEF LinkHolds
  <2> QED BY <2>1, <2>3, <2>4
<1> QED BY <1>1, <1>3, <1>4, <1>5, <1>6, <1>7 DEF LinkInv, InTime

LEMMA LinkStep ==
    ASSUME TypeOK, Handover, LinkInv, [RemoteConnectionNext]_vars
    PROVE  LinkInv'
<1>1. CASE MainThread \/ Announce \/ Vanish \/ Pair \/ ConnectToPairedReaders
           \/ (\E connects \in BOOLEAN : StartScan(connects)) \/ StopScan
  BY <1>1, LinkQuiet
<1>2. CASE ReaderThread
  BY <1>2, LinkQuiet, LinkAdded, LinkRemoved, LinkHandled, LinkCallEnds DEF ReaderThread
<1>3. ASSUME NEW c \in Connections, Ends(c) PROVE LinkInv'
  <2>1. OnDisconnected(c) /\ sock[c] = "open"
    BY <1>3, EndsAreKnown
  <2>2. CalmConnector(toConnector, toConnector') /\ timeouts' = timeouts
    <3>1. toConnector \in Seq(ConnectorSet)
      BY DEF TypeOK, QueuesTyped
    <3>2. toConnector' = toConnector \/ (toConnector # <<>> /\ toConnector' = Tail(toConnector))
      BY <1>3 DEF Ends, Break, ReceiveClose, Close, Arrives
    <3>3. timeouts' = timeouts
      BY <1>3 DEF Ends, Break, ReceiveClose, Close, bounds
    <3> QED BY <3>1, <3>2, <3>3, ConnectorCalms, CalmSame
  <2> QED BY <2>1, <2>2, LinkEnds
<1>4. CASE ConnectorJobs
  <2>1. CASE Close
    <3>1. CASE IsOpen(Head(toConnector).arg)
      <4>1. Head(toConnector).arg \in Connections
        BY <2>1, HeadArgs DEF Close, Arrives, TypeOK
      <4> QED BY <1>3, <2>1, <3>1, <4>1 DEF Ends
    <3>2. CASE ~IsOpen(Head(toConnector).arg)
      BY <2>1, <3>2, LinkCloseAgain
    <3> QED BY <3>1, <3>2
  <2> QED BY <1>4, <2>1, LinkQuiet, LinkSends, LinkSendCall DEF ConnectorJobs
<1>5. ASSUME NEW c \in Connections, Delivery(c) \/ Resolves(c) \/ Destroy(c) \/ Break(c) PROVE LinkInv'
  <2>1. CASE ReceiveClose(c) \/ Break(c)
    BY <1>3, <2>1 DEF Ends
  <2>2. CASE ReceiveContext(c) \/ ReceiveStatus(c) \/ ReceiveAnswer(c)
    BY <2>2, LinkContext, LinkStatus, LinkAnswered
  <2>3. CASE Resolves(c)
    BY <2>3, LinkCreated, LinkQuiet DEF Resolves
  <2>4. CASE Destroy(c)
    BY <2>4, LinkDestroyed
  <2> QED BY <1>5, <2>1, <2>2, <2>3, <2>4 DEF Delivery
<1>6. CASE \E status \in {"gone", "empty", "card"} : ReaderChanges(status)
  BY <1>6, LinkReaderChanges DEF Statuses
<1>7. CASE CallTimesOut \/ NoticesEnd
  BY <1>7, LinkTimesOut, LinkNoticed
<1>8. CASE \E n \in DOMAIN readers, type \in CallTypes : CallCard(n, type)
  BY <1>8, LinkCalled
<1>9. CASE UNCHANGED vars
  <2>1. Untouched /\ UNCHANGED <<ctx, wire, sock, toConnector, toReader>>
    BY <1>9 DEF vars, network, device, plugIn, bounds, Untouched
  <2> QED BY <2>1, CalmSame, SocketsKept, LinkKeeps DEF CalmQueues
<1> QED BY <1>1, <1>2, <1>4, <1>5, <1>6, <1>7, <1>8, <1>9 DEF RemoteConnectionNext, Environment, User

LEMMA LinkInit == RemoteConnectionInit => LinkInv
<1> SUFFICES ASSUME RemoteConnectionInit PROVE LinkInv
  OBVIOUS
<1>1. /\ wire = [c \in Connections |-> <<>>] /\ served = None /\ call = None /\ DOMAIN readers = {}
      /\ toReader = <<>> /\ toConnector = <<>> /\ timeouts = 0
  BY DEF RemoteConnectionInit
<1>2. \A kind : ~Among(<<>>, kind) /\ Sole(<<>>, kind) /\ \A first : Behind(<<>>, first, kind)
  BY DEF Among, Sole, Behind
<1>3. WireIsLive /\ ServedIsConnected /\ IdleUncalled /\ NamedInTime /\ NamesFit /\ LinkedIsLive /\ CallFits
  BY <1>1, <1>2 DEF WireIsLive, ServedIsConnected, IdleUncalled, NamedInTime, NamesFit, LinkedIsLive, CallFits
<1>4. CallOnce /\ AnswerOnce /\ ConnectHolds /\ LinkHolds
  BY <1>1, <1>2 DEF CallOnce, AnswerOnce, ConnectHolds, LinkHolds, Granted
<1> QED BY <1>1, <1>3, <1>4 DEF LinkInv, InTime

\* What RemoteCard, its reader and the device know of the card, and what is under way
\* between them, fits together.
THEOREM LinksKept == RemoteConnectionSpec => []LinkInv
<1>1. TypeOK /\ Handover /\ LinkInv /\ [RemoteConnectionNext]_vars => LinkInv'
  BY LinkStep
<1> QED BY <1>1, LinkInit, RemoteConnectionTypeOK, HandoverKept, PTL DEF RemoteConnectionSpec

\* So a card that RemoteCard counts as connected (mConnected) is connected, or its reader
\* is about to be told otherwise, as long as no call has been given up whose answer may
\* still come.
THEOREM LinkAlwaysReal == RemoteConnectionSpec => []LinkIsReal
<1>1. ASSUME TypeOK, LinkInv PROVE LinkIsReal
  <2> SUFFICES ASSUME NEW n \in DOMAIN readers, readers[n].linked, timeouts = 0, readers[n].via = dispatcher,
                      IsOpen(dispatcher)
               PROVE  \/ held /\ served = dispatcher
                      \/ Has(wire[dispatcher], "status") \/ Has(toReader, "status")
                      \/ call # None /\ call.name = n /\ call.type = "Disconnect"
    BY DEF LinkIsReal
  <2>1. sock[dispatcher] = "open" /\ served = dispatcher
    BY <1>1, LinkFacts DEF IsOpen, Live
  <2>2. Excused(dispatcher) \/ (Granted("Disconnect") /\ call.name = n)
    BY <1>1, <2>1 DEF LinkInv, InTime, LinkHolds
  <2>3. \A queue : Among(queue, Refusals) => Has(queue, "status")
    BY DEF Among, Has, Refusals
  <2> QED BY <2>1, <2>2, <2>3 DEF Excused, Granted
<1> QED BY <1>1, LinksKept, RemoteConnectionTypeOK, PTL
=============================================================================
