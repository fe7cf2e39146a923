-------------------------- MODULE RemoteServiceProofs --------------------------
(***************************************************************************)
(* Theorems about RemoteService: what a client leaves behind, for whom the *)
(* user is asked, and that an answer is the one to its request.  They hold *)
(* for every number of clients, requests, removed cards and cancellations. *)
(***************************************************************************)
EXTENDS RemoteService, QueuesProofs

\* Before the first client the workflow has nothing to do: the context, which is
\* not reset for that client, is as it was made.
Idle == {"StartRemoteService", "ProcessRemoteMessages", "StopRemoteService", "FinalState", "Ended"}
Unused == pw = NoPasswords /\ conn = None /\ slotHandle = None /\ modify = None
FirstIsClean ==
    clients = 0 =>
        /\ client = None /\ handles = {} /\ jobs = <<>> /\ state \in Idle /\ Unused
        /\ events \in Seq({Run(s) : s \in Idle} \cup {Removed})
ClientIsCounted == clients \in Nat /\ client \in Nat /\ pw \in [Secrets -> Int]
RemoteIInv == ClientIsCounted /\ FirstIsClean /\ PasswordsOfClient
-----------------------------------------------------------------------------
(* Steps while there has been no client yet *)

LEMMA IdleAborts == \A s \in Idle \ {"FinalState", "Ended"} : Aborted(s) \in Idle
BY DEF Idle, Aborted, PaceStates

LEMMA RunIsIdle ==
    ASSUME events \in Seq({Run(s) : s \in Idle} \cup {Removed}), events # <<>>
    PROVE  /\ Later \in Seq({Run(s) : s \in Idle} \cup {Removed})
           /\ \A s : Running(s) => s \in Idle
           /\ \A o \in {"connect", "update", "pace", "setPin"} : ~Arrived(o)
BY DEF Later, Running, Arrived, Run, Removed

LEMMA EnterIdle ==
    ASSUME jobs = <<>>, NEW queue \in Seq({Run(s) : s \in Idle} \cup {Removed}),
           NEW next \in Idle, Enter(queue, next)
    PROVE  /\ state' \in Idle /\ jobs' = <<>>
           /\ events' \in Seq({Run(s) : s \in Idle} \cup {Removed})
BY DEF Enter, Forgotten, Prompts, Idle

LEMMA RunStaysIdle ==
    ASSUME FirstIsClean, clients = 0, RunState
    PROVE  FirstIsClean'
<1>0. \A s : Running(s) => s \in Idle /\ Later \in Seq({Run(r) : r \in Idle} \cup {Removed})
  BY RunIsIdle DEF FirstIsClean, Running
<1>1. \/ StartRemoteService \/ ProcessRemoteMessages \/ StopRemoteService \/ FinalState
  <2>0. \A s : s \notin Idle => ~Running(s)
    BY <1>0
  <2>1. ~UpdateRetryCounter /\ ~VerifyWithoutCard /\ ~VerifyRetryCounter
    BY <2>0 DEF Idle, UpdateRetryCounter, VerifyWithoutCard, VerifyRetryCounter
  <2>2. ~PreparePaceRemote /\ ~EnterPacePasswordRemote /\ ~EnterNewPacePinRemote
    BY <2>0 DEF Idle, PreparePaceRemote, EnterPacePasswordRemote, EnterNewPacePinRemote
  <2>3. ~EstablishPaceChannelRemote /\ ~EstablishPaceChannelResponse /\ ~ClearPacePasswords
    BY <2>0 DEF Idle, EstablishPaceChannelRemote, EstablishPaceChannelResponse,
       ClearPacePasswords
  <2>4. ~PrepareChangePinRemote /\ ~ChangePinRemote /\ ~ChangePinResponse
    BY <2>0 DEF Idle, PrepareChangePinRemote, ChangePinRemote, ChangePinResponse
  <2> QED BY <2>1, <2>2, <2>3, <2>4 DEF RunState
<1>2. CASE ProcessRemoteMessages
  BY <1>0, <1>2 DEF ProcessRemoteMessages, FirstIsClean, Unused, OnResetMessageHandler,
     ClearEstablishPaceChannel, SetEstablishPaceChannel, rest, server, handler, context, message
<1>3. ASSUME NEW s, NEW next \in Idle, Running(s), Fire(Later, s, next)
      PROVE  /\ state' \in Idle /\ jobs' = <<>>
             /\ events' \in Seq({Run(r) : r \in Idle} \cup {Removed})
  BY <1>0, <1>3, EnterIdle DEF Fire, FirstIsClean, machine
<1>4. CASE StartRemoteService \/ FinalState
  BY <1>0, <1>3, <1>4 DEF StartRemoteService, FinalState, FirstIsClean, Unused, Idle, rest,
     server, handler, context, message
<1>5. CASE StopRemoteService
  BY <1>0, <1>3, <1>5 DEF StopRemoteService, StopServer, FirstIsClean, Unused, Idle,
     server, handler, context, message
<1> QED BY <1>1, <1>2, <1>4, <1>5

LEMMA AbortStaysIdle ==
    ASSUME FirstIsClean, clients = 0, SetRunning \/ KillWorkflow
    PROVE  FirstIsClean'
<1>1. state \in Idle \ {"Ended"} /\ ~IsUnapproved /\ Abort(events)
  BY DEF FirstIsClean, SetRunning, KillWorkflow, IsUnapproved, Idle, Prompts
<1>2. /\ state' \in Idle /\ jobs' = <<>>
      /\ events' \in Seq({Run(r) : r \in Idle} \cup {Removed})
  BY <1>1, IdleAborts, EnterIdle DEF FirstIsClean, Abort, machine
<1> QED BY <1>1, <1>2 DEF Abort, StopServer, FirstIsClean, Unused, server, handler,
       context, message

LEMMA FirstStaysClean ==
    ASSUME ClientIsCounted, FirstIsClean, RemoteNext
    PROVE  FirstIsClean'
<1>1. CASE clients # 0
  <2>1. clients' \in {clients, clients + 1}
    BY DEF RemoteNext, Process, Others, Answers, RunState, StartRemoteService, ProcessRemoteMessages,
       UpdateRetryCounter, VerifyWithoutCard, VerifyRetryCounter, PreparePaceRemote,
       EnterPacePasswordRemote, EnterNewPacePinRemote, EstablishPaceChannelRemote,
       EstablishPaceChannelResponse, PrepareChangePinRemote, ChangePinRemote,
       ChangePinResponse, ClearPacePasswords, StopRemoteService, FinalState, Connected,
       UpdateRetryCounterDone, EstablishConnectionDone, ChangePinDone, ReaderChanged, Execute,
       EnterPassword, CancelPassword, ClientConnects, ClientCloses, Connect, Disconnect,
       EstablishPaceChannel, ModifyPin, SecureMessagingStops, CardRemoved, NfcEnds,
       SetRunning, KillWorkflow, Abort, StopServer, server, rest
  <2> QED BY <1>1, <2>1 DEF FirstIsClean, ClientIsCounted
<1>2. CASE clients = 0 /\ Process
  BY <1>2, RunStaysIdle, RunIsIdle
     DEF Process, Connected, UpdateRetryCounterDone, EstablishConnectionDone, ChangePinDone,
         ReaderChanged, Arrived, FirstIsClean, Unused, server, machine, message, ending, bounds
<1>3. CASE clients = 0 /\ (Execute \/ Answers)
  BY <1>3 DEF Execute, Answers, EnterPassword, CancelPassword, IsPrompting, IsUnapproved,
              FirstIsClean, Idle, Prompts
<1>4. CASE clients = 0 /\ Others
  <2>1. CASE ClientConnects
    BY <1>4, <2>1 DEF ClientConnects, FirstIsClean
  <2>2. CASE CardRemoved
    BY <1>4, <2>2 DEF CardRemoved, FirstIsClean, Unused, server, handler, machine, context, message
  <2>3. CASE SetRunning \/ KillWorkflow
    BY <1>4, <2>3, AbortStaysIdle
  <2>4. client = None
    BY <1>4 DEF FirstIsClean
  <2> QED BY <1>4, <2>1, <2>2, <2>3, <2>4
          DEF Others, ClientCloses, Connect, Disconnect, EstablishPaceChannel, ModifyPin,
              SecureMessagingStops, NfcEnds, Asks
<1> QED BY <1>1, <1>2, <1>3, <1>4 DEF RemoteNext
-----------------------------------------------------------------------------
(* The passwords of the context and the client *)

\* What a step does to them: it forgets the passwords, or the client goes, or a
\* password is entered for the client there is.
LEMMA PasswordSteps ==
    ASSUME RemoteNext, ~ClientConnects
    PROVE  /\ UNCHANGED clients /\ client' \in {client, None}
           /\ \/ UNCHANGED pw
              \/ pw' = NoPasswords
              \/ \E t : pw' = [pw EXCEPT ![t] = EnteredFor]
<1>1. CASE RunState
  BY <1>1 DEF RunState, StartRemoteService, ProcessRemoteMessages,
       UpdateRetryCounter, VerifyWithoutCard, VerifyRetryCounter, PreparePaceRemote,
       EnterPacePasswordRemote, EnterNewPacePinRemote, EstablishPaceChannelRemote,
       EstablishPaceChannelResponse, PrepareChangePinRemote, ChangePinRemote,
       ChangePinResponse, ClearPacePasswords, StopRemoteService, FinalState, StopServer,
       OnResetMessageHandler, rest, server, context
<1>2. CASE \/ Connected \/ UpdateRetryCounterDone \/ EstablishConnectionDone
           \/ ChangePinDone \/ ReaderChanged \/ Execute \/ Answers
  BY <1>2 DEF Connected, UpdateRetryCounterDone, EstablishConnectionDone, ChangePinDone,
       ReaderChanged, Execute, Answers, EnterPassword, CancelPassword, rest, server, context
<1>3. CASE Others
  BY <1>3 DEF Others, ClientCloses, Connect, Disconnect, EstablishPaceChannel, ModifyPin,
       SecureMessagingStops, CardRemoved, NfcEnds, SetRunning, KillWorkflow, Abort, StopServer,
       OnResetMessageHandler, rest, server, context
<1> QED BY <1>1, <1>2, <1>3 DEF RemoteNext, Process

LEMMA ConnectingIsClean ==
    ASSUME RemoteIInv, ClientConnects
    PROVE  /\ client = None /\ clients' = clients + 1 /\ client' = clients + 1
           /\ Unused'
BY DEF RemoteIInv, ClientConnects, FirstIsClean, Unused, OnResetMessageHandler,
   ClearEstablishPaceChannel, SetEstablishPaceChannel, context, message

LEMMA RemoteIInvInit == RemoteInit => RemoteIInv
BY DEF RemoteInit, RemoteIInv, ClientIsCounted, FirstIsClean, PasswordsOfClient, Unused, Idle,
   NoPasswords, None, Run

LEMMA RemoteIInvStep == RemoteIInv /\ [RemoteNext]_vars => RemoteIInv'
<1> SUFFICES ASSUME RemoteIInv, [RemoteNext]_vars PROVE RemoteIInv'
  OBVIOUS
<1>1. CASE UNCHANGED vars
  BY <1>1 DEF RemoteIInv, ClientIsCounted, FirstIsClean, PasswordsOfClient, Unused, vars,
     server, handler, machine, context, message
<1>2. CASE ClientConnects
  <2>1. FirstIsClean'
    BY <1>2, FirstStaysClean DEF RemoteIInv, RemoteNext, Others
  <2>2. ClientIsCounted' /\ PasswordsOfClient'
    BY <1>2, ConnectingIsClean
       DEF RemoteIInv, ClientIsCounted, PasswordsOfClient, Unused, NoPasswords, None
  <2> QED BY <2>1, <2>2 DEF RemoteIInv
<1>3. CASE RemoteNext /\ ~ClientConnects
  <2>1. FirstIsClean'
    BY <1>3, FirstStaysClean DEF RemoteIInv
  <2>2. EnteredFor \in {client, Nobody}
    BY DEF EnteredFor
  <2>3. ClientIsCounted' /\ PasswordsOfClient'
    BY <1>3, <2>2, PasswordSteps
       DEF RemoteIInv, ClientIsCounted, PasswordsOfClient, NoPasswords, None, Nobody
  <2> QED BY <2>1, <2>3 DEF RemoteIInv
<1> QED BY <1>1, <1>2, <1>3

\* Invariant: passwords of the context were entered for the client that is
\* connected; before the first client there is nothing in the context.
THEOREM RemoteInvariant == RemoteSpec => []RemoteIInv
BY RemoteIInvInit, RemoteIInvStep, PTL DEF RemoteSpec

\* A password that was entered for one client is not in the context of the next
\* (RemoteServiceContext::onResetMessageHandler).
THEOREM PasswordsStayWithClient == RemoteSpec => []PasswordsOfClient
BY RemoteInvariant, PTL DEF RemoteIInv

\* A client that connects finds a context without passwords, card connection or
\* request (RemoteServiceContext::onMessageHandlerAdded).
THEOREM ClientsStartClean == RemoteSpec => CleanStart
<1> DEFINE Clean == client' # client /\ client' # None
                       => /\ pw' = NoPasswords /\ conn' = None
                          /\ slotHandle' = None /\ modify' = None
<1>1. ASSUME RemoteIInv, [RemoteNext]_vars
      PROVE  [Clean]_vars
  BY <1>1, ConnectingIsClean, PasswordSteps DEF Unused
<1>2. RemoteSpec => [][Clean]_vars
  BY <1>1, RemoteInvariant, PTL DEF RemoteSpec
<1> QED BY <1>2, PTL DEF CleanStart
-----------------------------------------------------------------------------
(* The order of the run() calls in the event queue *)

\* The order of the states within a request.
Rank(s) ==
    CASE s = "StartRemoteService" -> 0
      [] s = "UpdateRetryCounter" -> 1
      [] s = "VerifyRetryCounter" -> 2
      [] s = "PreparePaceRemote" -> 3
      [] s = "EnterPacePasswordRemote" -> 4
      [] s = "EstablishPaceChannelRemote" -> 5
      [] s = "EstablishPaceChannelResponse" -> 6
      [] s = "PrepareChangePinRemote" -> 7
      [] s = "EnterNewPacePinRemote" -> 8
      [] s = "ChangePinRemote" -> 9
      [] s = "ChangePinResponse" -> 10
      [] s = "ClearPacePasswords" -> 11
      [] s = "ProcessRemoteMessages" -> 12
      [] s = "StopRemoteService" -> 13
      [] s = "FinalState" -> 14
      [] s = "Ended" -> 15
      [] OTHER -> 16

Ops == {"connect", "update", "pace", "setPin"}
Codes == {"OK", "WRONG", "CANCELLED", "UNKNOWN"}
JobSet == [op : Ops, of : Nat, client : Nat, wanted : BOOLEAN]
Results == [type : Ops, code : Codes, of : Nat, client : Nat]
EventSet == {Run(s) : s \in States} \cup {Removed} \cup Results

IsRun(e) == e.type = "run"
NoRuns(q) == \A i \in DOMAIN q : ~IsRun(q[i])
Before(q, s) == \A i \in DOMAIN q : IsRun(q[i]) => Rank(q[i].state) < Rank(s)
Rising(q) ==
    \A i, j \in DOMAIN q :
        i < j /\ IsRun(q[i]) /\ IsRun(q[j]) => Rank(q[i].state) < Rank(q[j].state)
UpTo(q, s) == \A i \in DOMAIN q : IsRun(q[i]) => Rank(q[i].state) <= Rank(s)

MachineTypes ==
    /\ state \in States \cup {"Ended", "Crashed"}
    /\ events \in Seq(EventSet) /\ jobs \in Seq(JobSet)
    /\ hears \in BOOLEAN /\ watched \in BOOLEAN
    /\ state = "Crashed" => events = <<>> /\ jobs = <<>>
RunsInOrder == Rising(events) /\ UpTo(events, state)
HearsWhenDone ==
    hears => \/ state = "ProcessRemoteMessages" /\ NoRuns(events)
             \/ state \in {"StopRemoteService", "FinalState", "Ended"}
WatchesPrompts == watched => state \in Prompts
Machine == MachineTypes /\ RunsInOrder /\ HearsWhenDone /\ WatchesPrompts
-----------------------------------------------------------------------------
LEMMA Ranks ==
    /\ \A s : Rank(s) \in Nat
    /\ \A s \in States, t \in Prompts : Rank(s) = Rank(t) => s = t
<1>1. \A s : Rank(s) \in Nat
  BY DEF Rank
<1>2. ASSUME NEW s \in States, NEW t \in Prompts, Rank(s) = Rank(t) PROVE s = t
  <2>1. Rank(t) \in {4, 8}
    BY DEF Prompts, Rank
  <2> QED BY <1>2, <2>1 DEF Prompts, States, Rank
<1> QED BY <1>1, <1>2

LEMMA AbortGoesOn ==
    \A s \in States \ {"FinalState"} : Aborted(s) \in States /\ Rank(s) < Rank(Aborted(s))
BY DEF Rank, States, Aborted, PaceStates

LEMMA Kinds ==
    /\ \A s : IsRun(Run(s)) /\ Run(s).state = s
    /\ \A e \in EventSet : IsRun(e) => e.state \in States /\ e = Run(e.state)
    /\ \A e \in Results : ~IsRun(e)
    /\ ~IsRun(Removed)
BY DEF IsRun, Run, Removed, EventSet, Results, Ops

LEMMA QueueShrinks ==
    ASSUME NEW q \in Seq(EventSet), q # <<>>
    PROVE  /\ Tail(q) \in Seq(EventSet) /\ Head(q) \in EventSet
           /\ NoRuns(q) => NoRuns(Tail(q))
           /\ Rising(q) => Rising(Tail(q))
           /\ \A s : UpTo(q, s) => UpTo(Tail(q), s)
           /\ \A s \in States : Rising(q) /\ UpTo(q, s) /\ Head(q) = Run(s) => NoRuns(Tail(q))
           /\ \A s \in States, t \in States \cup {"Ended", "Crashed"} :
                  UpTo(q, t) /\ Head(q) = Run(s) => Rank(s) <= Rank(t)
<1> DEFINE r == Tail(q)
<1>1. /\ r \in Seq(EventSet) /\ 1 \in DOMAIN q /\ Head(q) = q[1] /\ Head(q) \in EventSet
      /\ \A i \in DOMAIN r : i \in Nat /\ i + 1 \in DOMAIN q /\ r[i] = q[i + 1] /\ r[i] \in EventSet
  BY TailIsThinned
<1> HIDE DEF r
<1>2. NoRuns(q) => NoRuns(r)
  BY <1>1 DEF NoRuns
<1>3. Rising(q) => Rising(r)
  BY <1>1 DEF Rising
<1>4. \A s : UpTo(q, s) => UpTo(r, s)
  BY <1>1 DEF UpTo
<1>5. ASSUME NEW s \in States, Rising(q), UpTo(q, s), Head(q) = Run(s) PROVE NoRuns(r)
  <2> SUFFICES ASSUME NEW i \in DOMAIN r, IsRun(r[i]) PROVE FALSE
    BY DEF NoRuns
  <2>1. i + 1 \in DOMAIN q /\ 1 < i + 1 /\ q[i + 1] = r[i] /\ 1 \in DOMAIN q /\ q[1] = Run(s)
    BY <1>1, <1>5
  <2>2. Rank(s) < Rank(r[i].state) /\ Rank(r[i].state) <= Rank(s)
    BY <1>5, <2>1, Kinds DEF Rising, UpTo
  <2>3. r[i].state \in States
    BY <1>1, Kinds
  <2> QED BY <2>2, <2>3, Ranks
<1>6. ASSUME NEW s \in States, NEW t \in States \cup {"Ended", "Crashed"}, UpTo(q, t), Head(q) = Run(s)
      PROVE  Rank(s) <= Rank(t)
  BY <1>1, <1>6, Kinds DEF UpTo
<1> QED BY <1>1, <1>2, <1>3, <1>4, <1>5, <1>6 DEF r

LEMMA QueueGrows ==
    ASSUME NEW q \in Seq(EventSet), NEW e \in EventSet, Rising(q)
    PROVE  /\ Append(q, e) \in Seq(EventSet)
           /\ ~IsRun(e) => /\ Rising(Append(q, e))
                           /\ NoRuns(q) => NoRuns(Append(q, e))
                           /\ \A s : UpTo(q, s) => UpTo(Append(q, e), s)
           /\ \A s \in States : e = Run(s) /\ Before(q, s)
                  => Rising(Append(q, e)) /\ UpTo(Append(q, e), s)
<1> DEFINE r == Append(q, e)
<1>1. /\ r \in Seq(EventSet) /\ DOMAIN q \subseteq Nat /\ Len(q) \in Nat
      /\ \A i \in DOMAIN q : i <= Len(q) /\ r[i] = q[i]
      /\ r[Len(q) + 1] = e
      /\ \A i \in DOMAIN r : i \in DOMAIN q \/ i = Len(q) + 1
  BY Appended
<1> HIDE DEF r
<1>2. ASSUME ~IsRun(e) PROVE Rising(r)
  BY <1>1, <1>2 DEF Rising
<1>3. ASSUME ~IsRun(e), NoRuns(q) PROVE NoRuns(r)
  BY <1>1, <1>3 DEF NoRuns
<1>4. ASSUME ~IsRun(e), NEW s, UpTo(q, s) PROVE UpTo(r, s)
  BY <1>1, <1>4 DEF UpTo
<1>5. ASSUME NEW s \in States, e = Run(s), Before(q, s) PROVE Rising(r) /\ UpTo(r, s)
  <2>1. UpTo(r, s)
    <3> SUFFICES ASSUME NEW i \in DOMAIN r, IsRun(r[i]) PROVE Rank(r[i].state) <= Rank(s)
      BY DEF UpTo
    <3>1. CASE i \in DOMAIN q
      <4>1. q[i].state \in States /\ r[i] = q[i] /\ Rank(q[i].state) < Rank(s)
        BY <1>1, <1>5, <3>1, Kinds DEF Before
      <4> QED BY <4>1, Ranks
    <3>2. CASE i = Len(q) + 1
      BY <1>1, <1>5, <3>2, Kinds, Ranks
    <3> QED BY <1>1, <3>1, <3>2
  <2>2. Rising(r)
    <3> SUFFICES ASSUME NEW i \in DOMAIN r, NEW j \in DOMAIN r, i < j, IsRun(r[i]), IsRun(r[j])
                 PROVE  Rank(r[i].state) < Rank(r[j].state)
      BY DEF Rising
    <3>1. i \in DOMAIN q
      BY <1>1
    <3>2. CASE j \in DOMAIN q
      BY <1>1, <3>1, <3>2 DEF Rising
    <3>3. CASE j = Len(q) + 1
      BY <1>1, <1>5, <3>1, <3>3, Kinds DEF Before
    <3> QED BY <1>1, <3>2, <3>3
  <2> QED BY <2>1, <2>2
<1> QED BY <1>1, <1>2, <1>3, <1>4, <1>5 DEF r
-----------------------------------------------------------------------------
LEMMA ForgottenJobs ==
    ASSUME jobs \in Seq(JobSet), NEW s
    PROVE  /\ Forgotten(jobs, s) \in Seq(JobSet) /\ DOMAIN Forgotten(jobs, s) = DOMAIN jobs
           /\ \A i \in DOMAIN jobs :
                  /\ Forgotten(jobs, s)[i].op = jobs[i].op
                  /\ Forgotten(jobs, s)[i].wanted =>
                         WaitsFor[jobs[i].op] # s /\ Forgotten(jobs, s)[i] = jobs[i]
<1>1. \A i \in DOMAIN jobs : jobs[i] \in JobSet
  OBVIOUS
<1>2. \A j \in JobSet : LET k == IF WaitsFor[j.op] = s THEN [j EXCEPT !.wanted = FALSE] ELSE j
                        IN  /\ k \in JobSet /\ k.op = j.op
                            /\ k.wanted => WaitsFor[j.op] # s /\ k = j
  BY DEF JobSet
<1>3. Forgotten(jobs, s) =
          [i \in DOMAIN jobs |-> IF WaitsFor[jobs[i].op] = s
                                 THEN [jobs[i] EXCEPT !.wanted = FALSE] ELSE jobs[i]]
  BY DEF Forgotten
<1>4. DOMAIN Forgotten(jobs, s) = 1..Len(jobs) /\ DOMAIN jobs = 1..Len(jobs) /\ Len(jobs) \in Nat
  BY <1>3
<1>5. \A i \in DOMAIN jobs : Forgotten(jobs, s)[i] \in JobSet
  BY <1>1, <1>2, <1>3
<1>6. Forgotten(jobs, s) \in Seq(JobSet)
  <2>1. Forgotten(jobs, s) \in [1..Len(jobs) -> JobSet]
    BY <1>3, <1>4, <1>5
  <2> QED BY <1>4, <2>1
<1> QED BY <1>1, <1>2, <1>3, <1>4, <1>6

\* A state is entered that comes after those in the queue.
LEMMA EnterKeeps ==
    ASSUME Machine, NEW q \in Seq(EventSet), Rising(q), NEW s \in States \cup {"Ended"}, Before(q, s),
           Enter(q, s), hears => state = "ProcessRemoteMessages" \/ s \in {"FinalState", "Ended"}
    PROVE  Machine' /\ state' = s /\ ~(hears' /\ s = "ProcessRemoteMessages")
<1>1. state' = s /\ jobs' \in Seq(JobSet)
  BY ForgottenJobs DEF Enter, Machine, MachineTypes
<1>2. events' \in Seq(EventSet) /\ Rising(events') /\ UpTo(events', s)
  <2>1. CASE events' = q
    <3>1. \A i \in DOMAIN q : Rank(q[i].state) < Rank(s) => Rank(q[i].state) <= Rank(s)
      BY Ranks
    <3> QED BY <2>1, <3>1 DEF Before, UpTo
  <2>2. CASE s \in States /\ events' = Append(q, Run(s))
    <3>1. Run(s) \in EventSet
      BY <2>2 DEF EventSet
    <3> QED BY <2>2, <3>1, QueueGrows
  <2> QED BY <2>1, <2>2 DEF Enter
<1>3. /\ hears' \in BOOLEAN /\ watched' \in BOOLEAN /\ (watched' => s \in Prompts)
      /\ (hears' => hears /\ state # "ProcessRemoteMessages")
  BY DEF Enter, Machine, MachineTypes
<1>4. MachineTypes'
  BY <1>1, <1>2, <1>3 DEF MachineTypes, States
<1>5. RunsInOrder'
  BY <1>1, <1>2 DEF RunsInOrder, Rising, UpTo
<1>6. HearsWhenDone' /\ WatchesPrompts'
  BY <1>1, <1>3 DEF HearsWhenDone, WatchesPrompts
<1> QED BY <1>1, <1>3, <1>4, <1>5, <1>6 DEF Machine

LEMMA CrashKeeps ==
    ASSUME Crash PROVE Machine' /\ state' = "Crashed" /\ events' = <<>> /\ jobs' = <<>>
<1>1. /\ state' = "Crashed" /\ events' = <<>> /\ jobs' = <<>> /\ hears' = FALSE /\ watched' = FALSE
  BY DEF Crash
<1>2. DOMAIN events' = {} /\ <<>> \in Seq(EventSet) /\ <<>> \in Seq(JobSet)
  BY <1>1
<1>3. MachineTypes' /\ HearsWhenDone' /\ WatchesPrompts'
  BY <1>1, <1>2 DEF MachineTypes, HearsWhenDone, WatchesPrompts
<1>4. RunsInOrder'
  BY <1>2 DEF RunsInOrder, Rising, UpTo
<1> QED BY <1>1, <1>3, <1>4 DEF Machine

\* The machine stays in its state.
LEMMA StayKeeps ==
    ASSUME Machine, state' = state, watched' = watched, hears' = hears, jobs' \in Seq(JobSet),
           events' \in Seq(EventSet), Rising(events'), UpTo(events', state),
           NoRuns(events) => NoRuns(events'),
           state = "Crashed" => events' = events /\ jobs' = jobs
    PROVE  Machine'
<1>1. MachineTypes' /\ HearsWhenDone' /\ WatchesPrompts'
  BY DEF Machine, MachineTypes, HearsWhenDone, WatchesPrompts, NoRuns
<1>2. RunsInOrder'
  BY DEF RunsInOrder, Rising, UpTo
<1> QED BY <1>1, <1>2 DEF Machine

\* What is left of the queue once its first event is worked off.
LEMMA LaterInOrder ==
    ASSUME Machine, events # <<>>
    PROVE  /\ Later \in Seq(EventSet) /\ Rising(Later) /\ UpTo(Later, state)
           /\ NoRuns(events) => NoRuns(Later)
           /\ Head(events) \in EventSet
           /\ state # "Crashed"
           /\ \A s \in States : Running(s) => Rank(s) <= Rank(state)
           /\ Running(state) => NoRuns(Later)
<1>1. /\ events \in Seq(EventSet) /\ Rising(events) /\ UpTo(events, state)
      /\ state \in States \cup {"Ended", "Crashed"} /\ state # "Crashed"
  BY DEF Machine, MachineTypes, RunsInOrder
<1>2. \A s : Running(s) => Head(events) = Run(s)
  BY DEF Running
<1>3. Running(state) => state \in States
  <2>1. ASSUME Running(state) PROVE Run(state) \in EventSet
    BY <1>1, <1>2, <2>1, QueueShrinks
  <2>2. IsRun(Run(state)) /\ Run(state).state = state
    BY Kinds
  <2>3. Running(state) => Run(state).state \in States
    BY <2>1, <2>2, Kinds
  <2> QED BY <2>2, <2>3
<1> QED BY <1>1, <1>2, <1>3, QueueShrinks DEF Later

\* A state signals its end.
LEMMA FireKeeps ==
    ASSUME Machine, events # <<>>, NEW s \in States \ {"ProcessRemoteMessages"},
           NEW next \in States \cup {"Ended"}, Rank(s) < Rank(next), Fire(Later, s, next),
           s # "StopRemoteService" \/ next = "FinalState"
    PROVE  Machine'
<1>1. /\ Later \in Seq(EventSet) /\ Rising(Later) /\ UpTo(Later, state)
      /\ NoRuns(events) => NoRuns(Later)
  BY LaterInOrder
<1>2. CASE state = s
  <2>1. Enter(Later, next)
    BY <1>2 DEF Fire
  <2>2. Before(Later, next)
    BY <1>1, <1>2, Ranks DEF UpTo, Before
  <2>3. hears => next \in {"FinalState", "Ended"}
    <3> SUFFICES ASSUME hears PROVE next \in {"FinalState", "Ended"}
      OBVIOUS
    <3>1. s \in {"StopRemoteService", "FinalState"}
      BY <1>2 DEF Machine, HearsWhenDone, States
    <3> QED BY <3>1 DEF Rank, States
  <2> QED BY <1>1, <2>1, <2>2, <2>3, EnterKeeps
<1>3. CASE state # s
  BY <1>1, <1>3, StayKeeps, LaterInOrder DEF Fire, machine, Machine, MachineTypes
<1> QED BY <1>2, <1>3

\* A request, the end of secure messaging or of NFC comes while nothing is queued.
LEMMA RequestKeeps ==
    ASSUME Machine, hears, NEW next \in States, Fire(events, "ProcessRemoteMessages", next),
           next # "ProcessRemoteMessages"
    PROVE  Machine'
<1>1. CASE state = "ProcessRemoteMessages"
  <2>1. NoRuns(events) /\ events \in Seq(EventSet) /\ Rising(events)
    BY <1>1 DEF Machine, HearsWhenDone, MachineTypes, RunsInOrder
  <2>2. Before(events, next) /\ Enter(events, next)
    BY <1>1, <2>1 DEF NoRuns, Before, Fire
  <2> QED BY <1>1, <2>1, <2>2, EnterKeeps
<1>2. CASE state # "ProcessRemoteMessages"
  <2>1. UNCHANGED <<state, jobs, hears, watched, shown, events>>
    BY <1>2 DEF Fire, machine
  <2> QED BY <2>1, StayKeeps DEF Machine, MachineTypes, RunsInOrder
<1> QED BY <1>1, <1>2

\* Working off an event starts at most a command.
LEMMA LaterKeeps ==
    ASSUME Machine, events # <<>>, events' = Later, UNCHANGED <<state, watched, hears>>,
           jobs' = jobs \/ \E j \in JobSet : jobs' = Append(jobs, j)
    PROVE  Machine'
BY LaterInOrder, StayKeeps DEF Machine, MachineTypes
-----------------------------------------------------------------------------
Numbers ==
    /\ client \in Nat /\ requests \in Nat
    /\ slotHandle \in 0..requests /\ modify \in 0..requests
    /\ slotHandle # None => slotHandle # modify
    /\ slotHandle = None <=> password = "UNKNOWN"

LEMMA NumbersStep ==
    ASSUME Numbers, client' \in Nat, RemoteNext PROVE Numbers'
<1>0. ASSUME UNCHANGED <<slotHandle, password, modify, requests>> PROVE Numbers'
  BY <1>0 DEF Numbers
<1>1. ASSUME OnResetMessageHandler, UNCHANGED requests PROVE Numbers'
  BY <1>1 DEF OnResetMessageHandler, ClearEstablishPaceChannel, SetEstablishPaceChannel, Numbers, None
<1>2. ASSUME StopServer PROVE Numbers'
  BY <1>0, <1>1, <1>2 DEF StopServer, context, message
<1>3. CASE RunState
  <2>1. CASE ProcessRemoteMessages \/ StopRemoteService
    BY <1>0, <1>1, <1>2, <2>1 DEF ProcessRemoteMessages, StopRemoteService, rest, handler, context, message
  <2>2. CASE EstablishPaceChannelResponse
    BY <2>2 DEF EstablishPaceChannelResponse, ClearEstablishPaceChannel, SetEstablishPaceChannel,
       message, Numbers, None
  <2>3. CASE \/ StartRemoteService \/ UpdateRetryCounter \/ VerifyWithoutCard \/ VerifyRetryCounter
             \/ PreparePaceRemote \/ EnterPacePasswordRemote \/ EnterNewPacePinRemote
    BY <1>0, <2>3 DEF StartRemoteService, UpdateRetryCounter, VerifyWithoutCard, VerifyRetryCounter,
       PreparePaceRemote, EnterPacePasswordRemote, EnterNewPacePinRemote, rest, handler, context, message
  <2>4. CASE \/ EstablishPaceChannelRemote \/ PrepareChangePinRemote \/ ChangePinRemote
             \/ ChangePinResponse \/ ClearPacePasswords \/ FinalState
    BY <1>0, <2>4 DEF EstablishPaceChannelRemote, PrepareChangePinRemote, ChangePinRemote,
       ChangePinResponse, ClearPacePasswords, FinalState, rest, handler, context, message
  <2> QED BY <1>3, <2>1, <2>2, <2>3, <2>4 DEF RunState
<1>4. CASE \/ Connected \/ UpdateRetryCounterDone \/ EstablishConnectionDone
           \/ ChangePinDone \/ ReaderChanged \/ Execute \/ Answers
  BY <1>0, <1>4 DEF Connected, UpdateRetryCounterDone, EstablishConnectionDone, ChangePinDone,
       ReaderChanged, Execute, Answers, EnterPassword, CancelPassword, rest, handler, context, message
<1>5. CASE ClientConnects \/ ClientCloses \/ SetRunning \/ KillWorkflow
  BY <1>0, <1>1, <1>2, <1>5 DEF ClientConnects, ClientCloses, SetRunning, KillWorkflow, Abort, handler,
       context, message
<1>6. CASE EstablishPaceChannel
  <2>1. requests' = requests + 1 /\ modify' = modify
    BY <1>6 DEF EstablishPaceChannel, Asks, message
  <2>2. \/ UNCHANGED <<slotHandle, password>>
        \/ slotHandle' = requests + 1 /\ password' \in Types
    BY <1>6 DEF EstablishPaceChannel, SetEstablishPaceChannel, message
  <2>3. "UNKNOWN" \notin Types
    BY RemoteAssumption
  <2> QED BY <2>1, <2>2, <2>3 DEF Numbers, None
<1>7. CASE ModifyPin
  <2>1. requests' = requests + 1 /\ UNCHANGED <<slotHandle, password>>
    BY <1>7 DEF ModifyPin, Asks
  <2>2. modify' \in {modify, requests + 1}
    BY <1>7 DEF ModifyPin
  <2> QED BY <2>1, <2>2 DEF Numbers, None
<1>8. CASE Connect
  <2>1. requests' = requests + 1 /\ UNCHANGED <<slotHandle, password, modify>>
    BY <1>8 DEF Connect, Asks, context, message
  <2> QED BY <2>1 DEF Numbers, None
<1>9. CASE Disconnect \/ SecureMessagingStops \/ CardRemoved \/ NfcEnds
  BY <1>0, <1>9 DEF Disconnect, SecureMessagingStops, CardRemoved, NfcEnds, handler, context, message
<1> QED BY <1>3, <1>4, <1>5, <1>6, <1>7, <1>8, <1>9 DEF RemoteNext, Process, Others

LEMMA NewJobs ==
    ASSUME Numbers
    PROVE  /\ Job("update", slotHandle, client) \in JobSet /\ Job("pace", slotHandle, client) \in JobSet
           /\ Job("setPin", modify, client) \in JobSet /\ Job("connect", requests + 1, client) \in JobSet
<1>1. slotHandle \in Nat /\ modify \in Nat /\ client \in Nat /\ requests + 1 \in Nat
  BY DEF Numbers
<1> QED BY <1>1 DEF Job, JobSet, Ops

LEMMA RunKeepsMachine ==
    ASSUME Machine, Numbers, RunState PROVE Machine'
<1>0. ASSUME NEW s, Running(s) PROVE events # <<>>
  BY <1>0 DEF Running
<1>1. CASE StartRemoteService
  BY <1>0, <1>1, FireKeeps DEF StartRemoteService, Rank, States
<1>2. CASE ProcessRemoteMessages
  <2>1. /\ events # <<>> /\ Running("ProcessRemoteMessages") /\ hears' = TRUE /\ events' = Later
        /\ UNCHANGED <<state, jobs, watched>>
    BY <1>0, <1>2 DEF ProcessRemoteMessages
  <2>2. Rank("ProcessRemoteMessages") <= Rank(state) /\ state # "Crashed"
    BY <2>1, LaterInOrder DEF States
  <2>3. state \in {"ProcessRemoteMessages", "StopRemoteService", "FinalState", "Ended"}
    BY <2>2 DEF Rank, Machine, MachineTypes, States
  <2>4. Later \in Seq(EventSet) /\ Rising(Later) /\ UpTo(Later, state)
    BY <2>1, LaterInOrder
  <2>5. state = "ProcessRemoteMessages" => NoRuns(Later)
    BY <2>1, LaterInOrder
  <2>6. MachineTypes' /\ WatchesPrompts'
    BY <2>1, <2>2, <2>4 DEF Machine, MachineTypes, WatchesPrompts
  <2>7. RunsInOrder'
    BY <2>1, <2>4 DEF RunsInOrder, Rising, UpTo
  <2>8. HearsWhenDone'
    BY <2>1, <2>3, <2>5 DEF HearsWhenDone, NoRuns
  <2> QED BY <2>6, <2>7, <2>8 DEF Machine
<1>3. CASE UpdateRetryCounter
  <2>1. CASE conn = None
    BY <1>0, <1>3, <2>1, FireKeeps DEF UpdateRetryCounter, Rank, States
  <2>2. CASE conn # None
    BY <1>0, <1>3, <2>2, LaterKeeps, NewJobs DEF UpdateRetryCounter, phase
  <2> QED BY <2>1, <2>2
<1>4. CASE VerifyWithoutCard
  BY <1>0, <1>4, FireKeeps DEF VerifyWithoutCard, Rank, States
<1>5. CASE VerifyRetryCounter
  <2>1. CASE gone
    BY <1>5, <2>1, CrashKeeps DEF VerifyRetryCounter
  <2>2. CASE ~gone
    <3>1. Fire(Later, "VerifyRetryCounter", "PreparePaceRemote") /\ events # <<>>
      BY <1>0, <1>5, <2>2 DEF VerifyRetryCounter
    <3> QED BY <3>1, FireKeeps DEF Rank, States
  <2> QED BY <2>1, <2>2
<1>6. CASE PreparePaceRemote
  <2>1. /\ events # <<>>
        /\ \E t \in {"EstablishPaceChannelResponse", "EnterPacePasswordRemote",
                     "EstablishPaceChannelRemote"} : Fire(Later, "PreparePaceRemote", t)
    BY <1>0, <1>6 DEF PreparePaceRemote
  <2> QED BY <2>1, FireKeeps DEF Rank, States
<1>7. CASE EnterPacePasswordRemote
  BY <1>0, <1>7, FireKeeps DEF EnterPacePasswordRemote, Rank, States
<1>8. CASE EnterNewPacePinRemote
  BY <1>0, <1>8, FireKeeps DEF EnterNewPacePinRemote, Rank, States
<1>9. CASE EstablishPaceChannelRemote
  <2>1. \/ Crash
        \/ Fire(Later, "EstablishPaceChannelRemote", "EstablishPaceChannelResponse")
        \/ /\ jobs' = Append(jobs, Job("pace", slotHandle, client))
           /\ events' = Later /\ UNCHANGED <<state, watched, hears>>
    BY <1>9 DEF EstablishPaceChannelRemote, phase
  <2>2. events # <<>>
    BY <1>0, <1>9 DEF EstablishPaceChannelRemote
  <2> QED BY <2>1, <2>2, CrashKeeps, FireKeeps, LaterKeeps, NewJobs DEF Rank, States
<1>10. CASE EstablishPaceChannelResponse
  <2>1. \/ Crash
        \/ \E t \in {"ClearPacePasswords", "ProcessRemoteMessages"} :
               Fire(Later, "EstablishPaceChannelResponse", t)
    BY <1>10 DEF EstablishPaceChannelResponse
  <2>2. events # <<>>
    BY <1>0, <1>10 DEF EstablishPaceChannelResponse
  <2> QED BY <2>1, <2>2, CrashKeeps, FireKeeps DEF Rank, States
<1>11. CASE PrepareChangePinRemote
  <2>1. \E t \in {"EnterNewPacePinRemote", "ChangePinRemote"} :
            Fire(Later, "PrepareChangePinRemote", t)
    BY <1>11 DEF PrepareChangePinRemote
  <2>2. events # <<>>
    BY <1>0, <1>11 DEF PrepareChangePinRemote
  <2> QED BY <2>1, <2>2, FireKeeps DEF Rank, States
<1>12. CASE ChangePinRemote
  <2>1. \/ Crash
        \/ Fire(Later, "ChangePinRemote", "ChangePinResponse")
        \/ /\ jobs' = Append(jobs, Job("setPin", modify, client))
           /\ events' = Later /\ UNCHANGED <<state, watched, hears>>
    BY <1>12 DEF ChangePinRemote, phase
  <2>2. events # <<>>
    BY <1>0, <1>12 DEF ChangePinRemote
  <2> QED BY <2>1, <2>2, CrashKeeps, FireKeeps, LaterKeeps, NewJobs DEF Rank, States
<1>13. CASE ChangePinResponse
  <2>1. \/ Crash
        \/ \E t \in {"ClearPacePasswords", "ProcessRemoteMessages"} :
               Fire(Later, "ChangePinResponse", t)
    BY <1>13 DEF ChangePinResponse
  <2>2. events # <<>>
    BY <1>0, <1>13 DEF ChangePinResponse
  <2> QED BY <2>1, <2>2, CrashKeeps, FireKeeps DEF Rank, States
<1>14. CASE ClearPacePasswords
  BY <1>0, <1>14, FireKeeps DEF ClearPacePasswords, Rank, States
<1>15. CASE StopRemoteService
  BY <1>0, <1>15, FireKeeps DEF StopRemoteService, Rank, States
<1>16. CASE FinalState
  BY <1>0, <1>16, FireKeeps DEF FinalState, Rank, States
<1> QED BY <1>1, <1>2, <1>3, <1>4, <1>5, <1>6, <1>7, <1>8, <1>9, <1>10, <1>11, <1>12, <1>13,
           <1>14, <1>15, <1>16 DEF RunState

\* A command is executed; its result is queued if a state waits for it.
LEMMA ExecuteIs ==
    ASSUME Machine, Execute
    PROVE  /\ jobs # <<>> /\ jobs' = Tail(jobs) /\ jobs' \in Seq(JobSet) /\ Head(jobs) \in JobSet
           /\ UNCHANGED <<state, watched, hears>>
           /\ \E c \in Codes : /\ Done(Head(jobs), c) \in Results
                               /\ events' = IF Head(jobs).wanted
                                            THEN Append(events, Done(Head(jobs), c)) ELSE events
<1>1. /\ jobs # <<>> /\ jobs' = Tail(jobs) /\ UNCHANGED <<state, watched, hears>>
  BY DEF Execute, phase
<1>2. Head(jobs) \in JobSet /\ Tail(jobs) \in Seq(JobSet)
  BY <1>1, TailIsThinned DEF Machine, MachineTypes
<1>3. PICK c \in Outcomes(Head(jobs)) :
          events' = IF Head(jobs).wanted THEN Append(events, Done(Head(jobs), c)) ELSE events
  BY DEF Execute
<1>4. c \in Codes
  BY <1>2, <1>3 DEF Outcomes, Codes, JobSet, Ops
<1>5. Done(Head(jobs), c) \in Results
  BY <1>2, <1>4 DEF Done, Results, JobSet
<1> QED BY <1>1, <1>2, <1>3, <1>4, <1>5

LEMMA ResultsKeepMachine ==
    ASSUME Machine, Process, ~RunState PROVE Machine'
<1>1. CASE Connected \/ ReaderChanged
  BY <1>1, LaterKeeps DEF Connected, ReaderChanged, Arrived, machine
<1>2. CASE UpdateRetryCounterDone
  <2>1. \/ Crash
        \/ \E t \in {"VerifyRetryCounter", "EstablishPaceChannelResponse"} :
               Fire(Later, "UpdateRetryCounter", t)
    BY <1>2 DEF UpdateRetryCounterDone
  <2>2. events # <<>>
    BY <1>2 DEF UpdateRetryCounterDone, Arrived
  <2> QED BY <2>1, <2>2, CrashKeeps, FireKeeps DEF Rank, States
<1>3. CASE EstablishConnectionDone
  <2>1. events # <<>> /\ Fire(Later, "EstablishPaceChannelRemote", "EstablishPaceChannelResponse")
    BY <1>3 DEF EstablishConnectionDone, Arrived
  <2> QED BY <2>1, FireKeeps DEF Rank, States
<1>4. CASE ChangePinDone
  <2>1. events # <<>> /\ Fire(Later, "ChangePinRemote", "ChangePinResponse")
    BY <1>4 DEF ChangePinDone, Arrived
  <2> QED BY <2>1, FireKeeps DEF Rank, States
<1> QED BY <1>1, <1>2, <1>3, <1>4 DEF Process

\* An abort leads on from where the workflow is, killed or not.
LEMMA UnapprovedIsBefore ==
    ASSUME Machine, IsUnapproved
    PROVE  /\ state \in Prompts /\ Before(events, state) /\ Run(state) \in EventSet
           /\ Append(events, Run(state)) \in Seq(EventSet)
           /\ Rising(Append(events, Run(state))) /\ UpTo(Append(events, Run(state)), state)
<1>1. /\ state \in Prompts /\ \A i \in DOMAIN events : events[i] # Run(state)
      /\ events \in Seq(EventSet) /\ Rising(events) /\ UpTo(events, state)
  BY DEF IsUnapproved, Machine, MachineTypes, RunsInOrder
<1>2. state \in States
  BY <1>1 DEF Prompts, States
<1>3. Before(events, state)
  <2> SUFFICES ASSUME NEW i \in DOMAIN events, IsRun(events[i])
               PROVE  Rank(events[i].state) < Rank(state)
    BY DEF Before
  <2>1. events[i] \in EventSet
    BY <1>1
  <2>2. events[i].state \in States /\ events[i].state # state
    BY <1>1, <2>1, Kinds
  <2>3. Rank(events[i].state) <= Rank(state) /\ Rank(events[i].state) # Rank(state)
    BY <1>1, <2>2, Ranks DEF UpTo
  <2> QED BY <2>3, Ranks
<1>4. Run(state) \in EventSet
  BY <1>2 DEF EventSet
<1> QED BY <1>1, <1>2, <1>3, <1>4, QueueGrows

LEMMA AbortKeeps ==
    ASSUME Machine, NEW q \in Seq(EventSet), Rising(q), UpTo(q, state), Enter(q, Aborted(state)),
           state \in States \ {"FinalState"}
    PROVE  Machine' /\ state' = Aborted(state)
<1>1. Aborted(state) \in States /\ Rank(state) < Rank(Aborted(state))
  BY AbortGoesOn
<1>2. Before(q, Aborted(state))
  BY <1>1, Ranks DEF UpTo, Before
<1>3. hears => state = "ProcessRemoteMessages" \/ Aborted(state) = "FinalState"
  <2>1. hears => state \in {"ProcessRemoteMessages", "StopRemoteService"}
    BY DEF Machine, HearsWhenDone, States
  <2>2. Aborted("StopRemoteService") = "FinalState"
    BY DEF Aborted, PaceStates
  <2> QED BY <2>1, <2>2
<1> QED BY <1>1, <1>2, <1>3, EnterKeeps

LEMMA OthersKeepMachine ==
    ASSUME Machine, Numbers, Execute \/ Answers \/ Others PROVE Machine'
<1>0. events \in Seq(EventSet) /\ Rising(events) /\ UpTo(events, state) /\ jobs \in Seq(JobSet)
  BY DEF Machine, MachineTypes, RunsInOrder
<1>1. CASE Execute
  <2>1. PICK e \in Results : events' = IF Head(jobs).wanted THEN Append(events, e) ELSE events
    BY <1>1, ExecuteIs
  <2>2. e \in EventSet /\ ~IsRun(e)
    BY Kinds DEF EventSet
  <2>3. events' \in Seq(EventSet) /\ Rising(events') /\ UpTo(events', state)
        /\ (NoRuns(events) => NoRuns(events'))
    BY <1>0, <2>1, <2>2, QueueGrows
  <2> QED BY <1>1, <2>3, ExecuteIs, StayKeeps DEF Machine, MachineTypes
<1>2. CASE EnterPassword
  <2>1. IsUnapproved /\ events' = Append(events, Run(state)) /\ UNCHANGED <<state, jobs, hears, watched>>
    BY <1>2 DEF EnterPassword, IsPrompting
  <2>2. ~hears
    BY <2>1 DEF Machine, HearsWhenDone, IsUnapproved, Prompts
  <2>3. state # "Crashed"
    BY <2>1 DEF IsUnapproved, Prompts
  <2>4. events' \in Seq(EventSet) /\ Rising(events') /\ UpTo(events', state)
    BY <2>1, UnapprovedIsBefore
  <2>5. MachineTypes' /\ HearsWhenDone' /\ WatchesPrompts'
    BY <2>1, <2>2, <2>3, <2>4 DEF Machine, MachineTypes, HearsWhenDone, WatchesPrompts
  <2>6. RunsInOrder'
    BY <2>1, <2>4 DEF RunsInOrder, Rising, UpTo
  <2> QED BY <2>5, <2>6 DEF Machine
<1>3. CASE CancelPassword
  <2>1. Enter(events, Aborted(state)) /\ state \in States \ {"FinalState"}
    BY <1>3 DEF CancelPassword, IsPrompting, IsUnapproved, Prompts, States
  <2> QED BY <1>0, <2>1, AbortKeeps
<1>4. ASSUME NEW q \in Seq(EventSet), Rising(q), UpTo(q, state), Abort(q),
             state = "FinalState" => q = events, state \notin {"Ended", "Crashed"}
      PROVE  Machine'
  <2>1. CASE state = "FinalState"
    <3>1. UNCHANGED <<state, jobs, hears, watched, shown, events>>
      BY <1>4, <2>1 DEF Abort, machine
    <3> QED BY <1>0, <3>1, StayKeeps
  <2>2. CASE state # "FinalState"
    <3>1. Enter(q, Aborted(state)) /\ state \in States
      BY <1>4, <2>2 DEF Abort, Machine, MachineTypes
    <3> QED BY <1>4, <2>2, <3>1, AbortKeeps
  <2> QED BY <2>1, <2>2
<1>5. CASE SetRunning
  BY <1>0, <1>4, <1>5 DEF SetRunning
<1>6. CASE KillWorkflow
  <2>1. state \notin {"Ended", "Crashed"}
    BY <1>6 DEF KillWorkflow
  <2>2. CASE IsUnapproved
    <3>1. Abort(Append(events, Run(state))) /\ state # "FinalState"
      BY <1>6, <2>2 DEF KillWorkflow, IsUnapproved, Prompts
    <3> QED BY <1>4, <2>1, <2>2, <3>1, UnapprovedIsBefore
  <2>3. CASE ~IsUnapproved
    BY <1>0, <1>4, <1>6, <2>1, <2>3 DEF KillWorkflow
  <2> QED BY <2>2, <2>3
<1>7. CASE ClientConnects \/ Disconnect
  <2>1. UNCHANGED <<state, jobs, hears, watched, shown, events>>
    BY <1>7 DEF ClientConnects, Disconnect, machine
  <2> QED BY <1>0, <2>1, StayKeeps
<1>8. CASE ClientCloses
  <2>1. CASE watched
    <3>1. Enter(events, Aborted(state)) /\ state \in States \ {"FinalState"}
      BY <1>8, <2>1 DEF ClientCloses, PromptGivenUp, Machine, WatchesPrompts, Prompts, States
    <3> QED BY <1>0, <3>1, AbortKeeps
  <2>2. CASE ~watched
    BY <1>0, <1>8, <2>2, StayKeeps DEF ClientCloses, PromptGivenUp
  <2> QED BY <2>1, <2>2
<1>9. CASE Connect
  <2>1. /\ state # "Crashed" /\ jobs' = Append(jobs, Job("connect", requests + 1, client))
        /\ UNCHANGED <<state, hears, watched, events>>
    BY <1>9 DEF Connect, Asks, phase
  <2>2. jobs' \in Seq(JobSet)
    BY <1>0, <2>1, NewJobs
  <2> QED BY <1>0, <2>1, <2>2, StayKeeps
<1>10. CASE EstablishPaceChannel
  <2>1. \/ hears /\ Fire(events, "ProcessRemoteMessages", "UpdateRetryCounter")
        \/ UNCHANGED <<state, jobs, hears, watched, shown, events>>
    BY <1>10 DEF EstablishPaceChannel, machine
  <2> QED BY <1>0, <2>1, RequestKeeps, StayKeeps DEF States
<1>11. CASE ModifyPin
  <2>1. \/ hears /\ Fire(events, "ProcessRemoteMessages", "PrepareChangePinRemote")
        \/ UNCHANGED <<state, jobs, hears, watched, shown, events>>
    BY <1>11 DEF ModifyPin, machine
  <2> QED BY <1>0, <2>1, RequestKeeps, StayKeeps DEF States
<1>12. CASE SecureMessagingStops \/ NfcEnds
  BY <1>12, RequestKeeps DEF SecureMessagingStops, NfcEnds, States
<1>13. CASE CardRemoved
  <2>1. /\ state # "Crashed" /\ events' = Append(events, Removed)
        /\ UNCHANGED <<state, jobs, hears, watched>>
    BY <1>13 DEF CardRemoved, machine
  <2>2. Removed \in EventSet /\ ~IsRun(Removed)
    BY Kinds DEF EventSet
  <2> QED BY <1>0, <2>1, <2>2, QueueGrows, StayKeeps
<1> QED BY <1>1, <1>2, <1>3, <1>5, <1>6, <1>7, <1>8, <1>9, <1>10, <1>11, <1>12, <1>13
        DEF Answers, Others

LEMMA MachineStep ==
    ASSUME Machine, Numbers, [RemoteNext]_vars PROVE Machine'
<1>1. CASE UNCHANGED vars
  <2>1. UNCHANGED <<state, jobs, hears, watched, shown, events>>
    BY <1>1 DEF vars, machine
  <2> QED BY <2>1, StayKeeps DEF Machine, MachineTypes, RunsInOrder
<1>2. CASE RemoteNext
  BY <1>2, RunKeepsMachine, ResultsKeepMachine, OthersKeepMachine DEF RemoteNext, Process
<1> QED BY <1>1, <1>2
-----------------------------------------------------------------------------
Dead == {"FinalState", "Ended", "Crashed"}
ChangeStates == {"PrepareChangePinRemote", "EnterNewPacePinRemote", "ChangePinRemote",
                 "ChangePinResponse"}

Served == slotHandle # None /\ state \notin Dead => client # None /\ slotHandle \in asked
AskedFor == state = "EnterPacePasswordRemote" => slotHandle # None /\ watched
Changing == state \in ChangeStates /\ modify # None => modify \in asked
Serving == Served /\ AskedFor /\ Changing

\* A step that neither begins to ask for a password nor to change the PIN.
Calm ==
    /\ state \in Dead => state' \in Dead
    /\ state' = "EnterPacePasswordRemote" => state = state' /\ watched' = watched
    /\ state' \in ChangeStates => state \in ChangeStates

LEMMA CalmMoves ==
    /\ Crash => Calm
    /\ UNCHANGED <<state, watched>> => Calm
    /\ \A q, s, t : Fire(q, s, t) =>
           \/ UNCHANGED <<state, watched>>
           \/ state = s /\ state' = t
    /\ \A q : state \in States \ {"FinalState"} /\ Enter(q, Aborted(state)) => Calm
<1>1. Crash => Calm
  BY DEF Crash, Calm, Dead, ChangeStates
<1>2. ASSUME UNCHANGED <<state, watched>> PROVE Calm
  BY <1>2 DEF Calm
<1>3. ASSUME NEW q, NEW s, NEW t, Fire(q, s, t)
      PROVE  UNCHANGED <<state, watched>> \/ (state = s /\ state' = t)
  BY <1>3 DEF Fire, Enter, machine
<1>4. ASSUME NEW q, state \in States \ {"FinalState"}, Enter(q, Aborted(state)) PROVE Calm
  <2>1. state' = Aborted(state)
    BY <1>4 DEF Enter
  <2> QED BY <1>4, <2>1 DEF Aborted, Calm, Dead, ChangeStates, States, PaceStates
<1> QED BY <1>1, <1>2, <1>3, <1>4

LEMMA RunIsCalm ==
    ASSUME \/ StartRemoteService \/ ProcessRemoteMessages \/ UpdateRetryCounter
           \/ VerifyWithoutCard \/ VerifyRetryCounter
           \/ EnterPacePasswordRemote \/ EnterNewPacePinRemote
           \/ EstablishPaceChannelRemote \/ EstablishPaceChannelResponse
           \/ PrepareChangePinRemote \/ ChangePinRemote \/ ChangePinResponse
           \/ ClearPacePasswords \/ StopRemoteService \/ FinalState
    PROVE  Calm
<1>1. ASSUME NEW q, NEW s, NEW t, Fire(q, s, t), s \notin Dead \/ t \in Dead,
             t # "EnterPacePasswordRemote", t \in ChangeStates => s \in ChangeStates
      PROVE  Calm
  BY <1>1, CalmMoves DEF Calm
<1>2. CASE ProcessRemoteMessages
  BY <1>2, CalmMoves DEF ProcessRemoteMessages
<1>3. CASE StartRemoteService \/ VerifyWithoutCard \/ EnterPacePasswordRemote \/ ClearPacePasswords
  BY <1>1, <1>3 DEF StartRemoteService, VerifyWithoutCard, EnterPacePasswordRemote, ClearPacePasswords,
     Dead, ChangeStates
<1>4. CASE UpdateRetryCounter
  <2>1. \/ Fire(Later, "UpdateRetryCounter", "EstablishPaceChannelResponse")
        \/ UNCHANGED <<state, watched>>
    BY <1>4 DEF UpdateRetryCounter, phase
  <2> QED BY <1>1, <2>1, CalmMoves DEF Dead, ChangeStates
<1>5. CASE VerifyRetryCounter
  <2>1. Crash \/ Fire(Later, "VerifyRetryCounter", "PreparePaceRemote")
    BY <1>5 DEF VerifyRetryCounter
  <2> QED BY <1>1, <2>1, CalmMoves DEF Dead, ChangeStates
<1>6. CASE EnterNewPacePinRemote
  BY <1>1, <1>6 DEF EnterNewPacePinRemote, Dead, ChangeStates
<1>7. CASE EstablishPaceChannelRemote
  <2>1. \/ Crash \/ Fire(Later, "EstablishPaceChannelRemote", "EstablishPaceChannelResponse")
        \/ UNCHANGED <<state, watched>>
    BY <1>7 DEF EstablishPaceChannelRemote, phase
  <2> QED BY <1>1, <2>1, CalmMoves DEF Dead, ChangeStates
<1>8. CASE EstablishPaceChannelResponse
  <2>1. \/ Crash
        \/ \E t \in {"ClearPacePasswords", "ProcessRemoteMessages"} :
               Fire(Later, "EstablishPaceChannelResponse", t)
    BY <1>8 DEF EstablishPaceChannelResponse
  <2> QED BY <1>1, <2>1, CalmMoves DEF Dead, ChangeStates
<1>9. CASE PrepareChangePinRemote
  <2>1. \E t \in {"EnterNewPacePinRemote", "ChangePinRemote"} :
            Fire(Later, "PrepareChangePinRemote", t)
    BY <1>9 DEF PrepareChangePinRemote
  <2> QED BY <1>1, <2>1 DEF Dead, ChangeStates
<1>10. CASE ChangePinRemote
  <2>1. \/ Crash \/ Fire(Later, "ChangePinRemote", "ChangePinResponse")
        \/ UNCHANGED <<state, watched>>
    BY <1>10 DEF ChangePinRemote, phase
  <2> QED BY <1>1, <2>1, CalmMoves DEF Dead, ChangeStates
<1>11. CASE ChangePinResponse
  <2>1. \/ Crash
        \/ \E t \in {"ClearPacePasswords", "ProcessRemoteMessages"} :
               Fire(Later, "ChangePinResponse", t)
    BY <1>11 DEF ChangePinResponse
  <2> QED BY <1>1, <2>1, CalmMoves DEF Dead, ChangeStates
<1>12. CASE StopRemoteService \/ FinalState
  BY <1>1, <1>12 DEF StopRemoteService, FinalState, Dead, ChangeStates
<1> QED BY <1>2, <1>3, <1>4, <1>5, <1>6, <1>7, <1>8, <1>9, <1>10, <1>11, <1>12

LEMMA OthersAreCalm ==
    ASSUME Machine,
           \/ Connected \/ UpdateRetryCounterDone \/ EstablishConnectionDone \/ ChangePinDone
           \/ ReaderChanged \/ Execute \/ Answers \/ ClientConnects \/ ClientCloses \/ Connect
           \/ Disconnect \/ EstablishPaceChannel \/ SecureMessagingStops \/ CardRemoved
           \/ NfcEnds \/ SetRunning \/ KillWorkflow
    PROVE  Calm
<1>1. ASSUME NEW q, NEW s, NEW t, Fire(q, s, t), s \notin Dead \/ t \in Dead,
             t # "EnterPacePasswordRemote", t \in ChangeStates => s \in ChangeStates
      PROVE  Calm
  BY <1>1, CalmMoves DEF Calm
<1>2. CASE Connected \/ ReaderChanged \/ EnterPassword \/ ClientConnects \/ Connect \/ Disconnect \/ CardRemoved
  BY <1>2, CalmMoves DEF Connected, ReaderChanged, EnterPassword, ClientConnects, Connect, Disconnect,
     CardRemoved, machine, phase
<1>3. CASE Execute
  BY <1>3, CalmMoves DEF Execute, phase
<1>4. CASE UpdateRetryCounterDone
  <2>1. \/ Crash
        \/ \E t \in {"VerifyRetryCounter", "EstablishPaceChannelResponse"} :
               Fire(Later, "UpdateRetryCounter", t)
    BY <1>4 DEF UpdateRetryCounterDone
  <2> QED BY <1>1, <2>1, CalmMoves DEF Dead, ChangeStates
<1>5. CASE EstablishConnectionDone
  BY <1>1, <1>5 DEF EstablishConnectionDone, Dead, ChangeStates
<1>6. CASE ChangePinDone
  BY <1>1, <1>6 DEF ChangePinDone, Dead, ChangeStates
<1>7. CASE CancelPassword
  BY <1>7, CalmMoves DEF CancelPassword, IsPrompting, IsUnapproved, Prompts, States
<1>8. CASE ClientCloses
  <2>1. watched => state \in States \ {"FinalState"}
    BY DEF Machine, WatchesPrompts, Prompts, States
  <2> QED BY <1>8, <2>1, CalmMoves DEF ClientCloses, PromptGivenUp
<1>9. ASSUME NEW q, Abort(q), state \notin {"Ended", "Crashed"} PROVE Calm
  <2>1. state \in States
    BY <1>9 DEF Machine, MachineTypes
  <2> QED BY <1>9, <2>1, CalmMoves DEF Abort, machine
<1>10. CASE SetRunning \/ KillWorkflow
  BY <1>9, <1>10 DEF SetRunning, KillWorkflow
<1>11. CASE EstablishPaceChannel
  <2>1. \/ Fire(events, "ProcessRemoteMessages", "UpdateRetryCounter")
        \/ UNCHANGED <<state, watched>>
    BY <1>11 DEF EstablishPaceChannel, machine
  <2> QED BY <1>1, <2>1, CalmMoves DEF Dead, ChangeStates
<1>12. CASE SecureMessagingStops \/ NfcEnds
  BY <1>1, <1>12 DEF SecureMessagingStops, NfcEnds, Dead, ChangeStates
<1> QED BY <1>2, <1>3, <1>4, <1>5, <1>6, <1>7, <1>8, <1>10, <1>11, <1>12
        DEF Answers
-----------------------------------------------------------------------------
LEMMA ServingStep ==
    ASSUME Machine, Numbers, Serving, RemoteNext PROVE Serving'
<1>1. ASSUME Calm, UNCHANGED <<client, asked, slotHandle, modify>> PROVE Serving'
  BY <1>1 DEF Calm, Serving, Served, AskedFor, Changing
<1>2. CASE ProcessRemoteMessages
  <2>1. UNCHANGED <<client, asked, state, watched>>
    BY <1>2 DEF ProcessRemoteMessages, rest, server, handler
  <2>2. CASE client = None
    <3>1. slotHandle' = None /\ modify' = None
      BY <1>2, <2>2 DEF ProcessRemoteMessages, OnResetMessageHandler, ClearEstablishPaceChannel,
         SetEstablishPaceChannel
    <3>2. state # "EnterPacePasswordRemote"
      BY <2>2 DEF Serving, Served, AskedFor, Dead
    <3> QED BY <2>1, <3>1, <3>2 DEF Serving, Served, AskedFor, Changing
  <2>3. CASE client # None
    <3>1. UNCHANGED <<slotHandle, modify>>
      BY <1>2, <2>3 DEF ProcessRemoteMessages, context, message
    <3> QED BY <2>1, <3>1 DEF Serving, Served, AskedFor, Changing
  <2> QED BY <2>2, <2>3
<1>3. CASE EstablishPaceChannelResponse
  <2>1. Calm
    BY <1>3, RunIsCalm
  <2>2. CASE Crash
    BY <2>2 DEF Crash, Serving, Served, AskedFor, Changing, Dead, ChangeStates
  <2>3. CASE ~Crash
    <3>1. /\ slotHandle' = None /\ modify' = modify
          /\ asked' = asked \/ asked' = asked \ {slotHandle}
      BY <1>3, <2>3 DEF EstablishPaceChannelResponse, ClearEstablishPaceChannel, SetEstablishPaceChannel,
         Answer
    <3>2. state # "EnterPacePasswordRemote"
      <4>1. Rank("EstablishPaceChannelResponse") <= Rank(state)
        BY <1>3, LaterInOrder DEF EstablishPaceChannelResponse, Running, States
      <4> QED BY <4>1 DEF Rank
    <3> QED BY <2>1, <3>1, <3>2 DEF Calm, Serving, Served, AskedFor, Changing, Numbers
  <2> QED BY <2>2, <2>3
<1>4. CASE ChangePinResponse
  <2>1. Calm
    BY <1>4, RunIsCalm
  <2>2. CASE Crash
    BY <2>2 DEF Crash, Serving, Served, AskedFor, Changing, Dead, ChangeStates
  <2>3. CASE ~Crash
    <3>1. /\ UNCHANGED <<slotHandle, modify, client>>
          /\ asked' = asked \/ asked' = asked \ {modify}
          /\ \E t \in {"ClearPacePasswords", "ProcessRemoteMessages"} :
                 Fire(Later, "ChangePinResponse", t)
      BY <1>4, <2>3 DEF ChangePinResponse, Answer, context, message, server
    <3>2. state' \notin ChangeStates
      <4>1. Rank("ChangePinResponse") <= Rank(state)
        BY <1>4, LaterInOrder DEF ChangePinResponse, Running, States
      <4>2. state \in ChangeStates => state = "ChangePinResponse"
        BY <4>1 DEF Rank, ChangeStates
      <4> QED BY <3>1, <4>2 DEF Fire, Enter, machine, ChangeStates
    <3> QED BY <2>1, <3>1, <3>2 DEF Calm, Serving, Served, AskedFor, Changing, Numbers
  <2> QED BY <2>2, <2>3
<1>5. ASSUME StopServer, state' = "FinalState" PROVE Serving'
  BY <1>5 DEF Serving, Served, AskedFor, Changing, Dead, ChangeStates
<1>6. CASE StopRemoteService
  <2>1. CASE state = "StopRemoteService"
    BY <1>5, <1>6, <2>1 DEF StopRemoteService, Fire, Enter
  <2>2. CASE state # "StopRemoteService"
    BY <1>1, <1>6, <2>2, CalmMoves DEF StopRemoteService, server, handler, context, message
  <2> QED BY <2>1, <2>2
<1>7. CASE ClientConnects
  <2>1. UNCHANGED <<asked, state, watched>> /\ client = None
    BY <1>7 DEF ClientConnects, handler, machine
  <2>2. \/ UNCHANGED <<slotHandle, modify>>
        \/ slotHandle' = None /\ modify' = None
    BY <1>7 DEF ClientConnects, OnResetMessageHandler, ClearEstablishPaceChannel,
       SetEstablishPaceChannel, context, message
  <2>3. state # "EnterPacePasswordRemote" /\ (state \in Dead \/ slotHandle = None)
    BY <2>1 DEF Serving, Served, AskedFor, Dead
  <2> QED BY <2>1, <2>2, <2>3 DEF Serving, Served, AskedFor, Changing
<1>8. CASE ClientCloses
  <2>1. slotHandle' = None /\ modify' = None
    BY <1>8 DEF ClientCloses, OnResetMessageHandler, ClearEstablishPaceChannel, SetEstablishPaceChannel
  <2>2. state' # "EnterPacePasswordRemote"
    <3>1. CASE watched
      <4>1. state' = Aborted(state) /\ state \in Prompts
        BY <1>8, <3>1 DEF ClientCloses, PromptGivenUp, Enter, Machine, WatchesPrompts
      <4> QED BY <4>1 DEF Aborted, Prompts, PaceStates
    <3>2. CASE ~watched
      BY <1>8, <3>2 DEF ClientCloses, PromptGivenUp, Serving, AskedFor
    <3> QED BY <3>1, <3>2
  <2> QED BY <2>1, <2>2 DEF Serving, Served, AskedFor, Changing
<1>9. CASE EstablishPaceChannel
  <2>1. Calm
    BY <1>9, OthersAreCalm
  <2>2. client # None /\ asked' = asked \cup {requests + 1} /\ UNCHANGED <<client, modify>>
    BY <1>9 DEF EstablishPaceChannel, Asks, message, server
  <2>3. \/ slotHandle' = slotHandle
        \/ hears /\ slotHandle' = requests + 1
    BY <1>9 DEF EstablishPaceChannel, SetEstablishPaceChannel, message
  <2>4. hears => state # "EnterPacePasswordRemote"
    BY DEF Machine, HearsWhenDone
  <2> QED BY <2>1, <2>2, <2>3, <2>4 DEF Calm, Serving, Served, AskedFor, Changing
<1>10. CASE ModifyPin
  <2>1. asked' = asked \cup {requests + 1} /\ UNCHANGED <<client, slotHandle>>
    BY <1>10 DEF ModifyPin, Asks, server
  <2>2. CASE UNCHANGED <<modify, state, watched>>
    BY <2>1, <2>2 DEF Serving, Served, AskedFor, Changing
  <2>3. CASE /\ modify' = requests + 1 /\ hears
             /\ Fire(events, "ProcessRemoteMessages", "PrepareChangePinRemote")
    <3>1. /\ state' # "EnterPacePasswordRemote"
          /\ state \in Dead => state' \in Dead
      BY <2>3, CalmMoves DEF Machine, HearsWhenDone, Dead
    <3> QED BY <2>1, <2>3, <3>1 DEF Serving, Served, AskedFor, Changing
  <2> QED BY <1>10, <2>2, <2>3 DEF ModifyPin, machine
<1>11. CASE PreparePaceRemote
  <2>1. /\ UNCHANGED <<client, asked, slotHandle, modify, password>>
        /\ Fire(Later, "PreparePaceRemote",
                IF password = "UNKNOWN" THEN "EstablishPaceChannelResponse"
                ELSE IF pw[password] = None THEN "EnterPacePasswordRemote"
                ELSE "EstablishPaceChannelRemote")
    BY <1>11 DEF PreparePaceRemote, rest, server, handler, context, message
  <2>2. CASE UNCHANGED <<state, watched>>
    BY <1>1, <2>1, <2>2, CalmMoves
  <2>3. CASE state = "PreparePaceRemote" /\ password = "UNKNOWN"
    BY <2>1, <2>3 DEF Fire, Enter, Serving, Served, AskedFor, Changing, Dead, ChangeStates
  <2>4. CASE state = "PreparePaceRemote" /\ password # "UNKNOWN"
    <3>1. slotHandle # None /\ client # None /\ slotHandle \in asked
      BY <2>4 DEF Numbers, Serving, Served, Dead
    <3>2. /\ state' \in {"EnterPacePasswordRemote", "EstablishPaceChannelRemote"}
          /\ state' = "EnterPacePasswordRemote" => watched'
      BY <2>1, <2>4, <3>1 DEF Fire, Enter, Prompts
    <3> QED BY <2>1, <3>1, <3>2 DEF Serving, Served, AskedFor, Changing, ChangeStates
  <2> QED BY <2>1, <2>2, <2>3, <2>4, CalmMoves
<1>12. ASSUME NEW q, Abort(q), Calm PROVE Serving'
  <2>1. CASE state = "StopRemoteService"
    <3>1. StopServer /\ state' = Aborted(state)
      BY <1>12, <2>1 DEF Abort, Enter
    <3> QED BY <1>5, <2>1, <3>1 DEF Aborted, PaceStates
  <2>2. CASE state # "StopRemoteService"
    BY <1>1, <1>12, <2>2 DEF Abort, server, handler, context, message
  <2> QED BY <2>1, <2>2
<1>13. CASE SetRunning \/ KillWorkflow
  <2>1. \E q : Abort(q)
    BY <1>13 DEF SetRunning, KillWorkflow
  <2> QED BY <1>12, <1>13, <2>1, OthersAreCalm
<1>14. CASE \/ StartRemoteService \/ UpdateRetryCounter \/ VerifyWithoutCard \/ VerifyRetryCounter
            \/ EnterPacePasswordRemote \/ EnterNewPacePinRemote \/ EstablishPaceChannelRemote
            \/ PrepareChangePinRemote \/ ChangePinRemote \/ ClearPacePasswords \/ FinalState
  <2>1. UNCHANGED <<client, asked, slotHandle, modify>>
    BY <1>14 DEF StartRemoteService, UpdateRetryCounter, VerifyWithoutCard, VerifyRetryCounter,
       EnterPacePasswordRemote, EnterNewPacePinRemote, EstablishPaceChannelRemote,
       PrepareChangePinRemote, ChangePinRemote, ClearPacePasswords, FinalState,
       rest, server, handler, context, message
  <2> QED BY <1>1, <1>14, <2>1, RunIsCalm
<1>15. CASE \/ Connected \/ UpdateRetryCounterDone \/ EstablishConnectionDone \/ ChangePinDone
            \/ ReaderChanged \/ Execute \/ Answers \/ Connect \/ Disconnect
            \/ SecureMessagingStops \/ CardRemoved \/ NfcEnds
  <2>1. UNCHANGED <<client, asked, slotHandle, modify>>
    BY <1>15 DEF Connected, UpdateRetryCounterDone, EstablishConnectionDone, ChangePinDone,
       ReaderChanged, Execute, Answers, EnterPassword, CancelPassword, Connect, Disconnect,
       SecureMessagingStops, CardRemoved, NfcEnds, rest, server, handler, context, message
  <2> QED BY <1>1, <1>15, <2>1, OthersAreCalm
<1> QED BY <1>2, <1>3, <1>4, <1>6, <1>7, <1>8, <1>9, <1>10, <1>11, <1>13, <1>14, <1>15
        DEF RemoteNext, Process, RunState, Others
-----------------------------------------------------------------------------
(* The results of commands *)

Tasks == {"pace", "setPin"}
Awaited(j, o) == j.op = o /\ j.wanted

\* Of operation "o" there is at most one command to execute or result to work off,
\* only in the state that waits for it and once that has run, for request "i".
Lone(o, q, js, s, i) ==
    /\ \A n \in DOMAIN q : q[n].type = o =>
           /\ s = WaitsFor[o] /\ i \in {None, q[n].of}
           /\ \A m \in DOMAIN q : m # n => q[m].type # o
           /\ \A m \in DOMAIN q : q[m] # Run(WaitsFor[o])
           /\ \A m \in DOMAIN js : ~Awaited(js[m], o)
    /\ \A n \in DOMAIN js : Awaited(js[n], o) =>
           /\ s = WaitsFor[o] /\ i \in {None, js[n].of}
           /\ \A m \in DOMAIN js : m # n => ~Awaited(js[m], o)
           /\ \A m \in DOMAIN q : q[m] # Run(WaitsFor[o])

NoResult(o, q) == \A n \in DOMAIN q : q[n].type # o
NoTask(o, q, js) == NoResult(o, q) /\ \A n \in DOMAIN js : ~Awaited(js[n], o)

LEMMA NoTaskIsLone ==
    ASSUME NEW o, NEW q, NEW js, NoTask(o, q, js) PROVE \A s, i : Lone(o, q, js, s, i)
BY DEF NoTask, NoResult, Lone

LEMMA OtherStateNoTask ==
    ASSUME NEW o, NEW q, NEW js, NEW s, NEW i, Lone(o, q, js, s, i), s # WaitsFor[o]
    PROVE  NoTask(o, q, js)
BY DEF NoTask, NoResult, Lone

LEMMA LoneForNobody ==
    ASSUME NEW o, NEW q, NEW js, NEW s, NEW i, Lone(o, q, js, s, i)
    PROVE  \A k \in {i, None} : Lone(o, q, js, s, k)
BY DEF Lone

LEMMA LoneLater ==
    ASSUME NEW o \in Tasks, NEW q \in Seq(EventSet), q # <<>>, NEW js, NEW s, NEW i,
           Lone(o, q, js, s, i)
    PROVE  /\ Lone(o, Tail(q), js, s, i)
           /\ Head(q) = Run(WaitsFor[o]) => NoTask(o, q, js) /\ NoTask(o, Tail(q), js)
           /\ Head(q).type = o => /\ i \in {None, Head(q).of} /\ s = WaitsFor[o]
                                  /\ NoTask(o, Tail(q), js)
                                  /\ \A n \in DOMAIN Tail(q) : Tail(q)[n] # Run(s)
<1> DEFINE r == Tail(q)
<1>1. /\ 1 \in DOMAIN q /\ Head(q) = q[1]
      /\ \A n \in DOMAIN r : n \in Nat \ {0} /\ n + 1 \in DOMAIN q /\ r[n] = q[n + 1]
  BY TailIsThinned
<1> HIDE DEF r
<1>2. \A n \in DOMAIN r : n + 1 # 1 /\ \A m \in DOMAIN r : m # n => m + 1 # n + 1
  BY <1>1
<1>3. Lone(o, r, js, s, i)
  BY <1>1, <1>2 DEF Lone
<1>4. ASSUME Head(q) = Run(WaitsFor[o]) PROVE NoTask(o, q, js) /\ NoTask(o, r, js)
  <2>1. NoTask(o, q, js)
    BY <1>1, <1>4 DEF Lone, NoTask, NoResult
  <2> QED BY <1>1, <2>1 DEF NoTask, NoResult
<1>5. ASSUME Head(q).type = o
      PROVE  /\ i \in {None, Head(q).of} /\ s = WaitsFor[o] /\ NoTask(o, r, js)
             /\ \A n \in DOMAIN r : r[n] # Run(s)
  BY <1>1, <1>2, <1>5 DEF Lone, NoTask, NoResult
<1> QED BY <1>3, <1>4, <1>5 DEF r

LEMMA LoneAppend ==
    ASSUME NEW o \in Tasks, NEW q \in Seq(EventSet), NEW e \in EventSet, NEW js, NEW s, NEW i,
           e.type # o, e # Run(WaitsFor[o]), Lone(o, q, js, s, i)
    PROVE  Lone(o, Append(q, e), js, s, i)
<1> DEFINE r == Append(q, e)
<1>1. /\ DOMAIN q \subseteq Nat /\ Len(q) \in Nat
      /\ \A n \in DOMAIN q : n <= Len(q) /\ r[n] = q[n]
      /\ r[Len(q) + 1] = e
      /\ \A n \in DOMAIN r : n \in DOMAIN q \/ n = Len(q) + 1
  BY Appended
<1> HIDE DEF r
<1>2. Lone(o, r, js, s, i)
  BY <1>1 DEF Lone
<1> QED BY <1>2 DEF r

LEMMA LoneOtherJob ==
    ASSUME NEW o \in Tasks, NEW q, NEW js \in Seq(JobSet), NEW j \in JobSet, NEW s, NEW i,
           j.op # o, Lone(o, q, js, s, i)
    PROVE  Lone(o, q, Append(js, j), s, i)
<1> DEFINE r == Append(js, j)
<1>1. /\ DOMAIN js \subseteq Nat /\ Len(js) \in Nat
      /\ \A n \in DOMAIN js : n \in DOMAIN r /\ r[n] = js[n]
      /\ r[Len(js) + 1] = j
      /\ \A n \in DOMAIN r : n \in DOMAIN js \/ n = Len(js) + 1
  BY Appended
<1> HIDE DEF r
<1>2. \A n \in DOMAIN r : Awaited(r[n], o) => n \in DOMAIN js /\ r[n] = js[n]
  BY <1>1 DEF Awaited
<1>3. Lone(o, q, r, s, i)
  BY <1>2 DEF Lone
<1> QED BY <1>3 DEF r

\* The command of a request is given to the reader thread.
LEMMA LoneStarts ==
    ASSUME NEW o \in Tasks, NEW q, NEW js \in Seq(JobSet), NEW j \in JobSet, NoTask(o, q, js),
           \A m \in DOMAIN q : q[m] # Run(WaitsFor[o])
    PROVE  Lone(o, q, Append(js, j), WaitsFor[o], j.of)
<1> DEFINE r == Append(js, j)
<1>1. /\ DOMAIN js \subseteq Nat /\ Len(js) \in Nat
      /\ \A n \in DOMAIN js : n <= Len(js) /\ r[n] = js[n]
      /\ r[Len(js) + 1] = j
      /\ \A n \in DOMAIN r : n \in DOMAIN js \/ n = Len(js) + 1
  BY Appended
<1> HIDE DEF r
<1>2. \A n \in DOMAIN r : Awaited(r[n], o) => n = Len(js) + 1
  BY <1>1 DEF NoTask
<1>3. Lone(o, q, r, WaitsFor[o], j.of)
  BY <1>1, <1>2 DEF Lone, NoTask, NoResult
<1> QED BY <1>3 DEF r

\* The reader thread has executed a command.
LEMMA LoneExecuted ==
    ASSUME NEW o \in Tasks, NEW q \in Seq(EventSet), NEW js \in Seq(JobSet), js # <<>>, NEW c \in Codes,
           Done(Head(js), c) \in Results, NEW s, NEW i, Lone(o, q, js, s, i)
    PROVE  Lone(o, IF Head(js).wanted THEN Append(q, Done(Head(js), c)) ELSE q, Tail(js), s, i)
<1> DEFINE r == Tail(js)
           e == Done(Head(js), c)
           p == Append(q, e)
<1>1. /\ 1 \in DOMAIN js /\ Head(js) = js[1]
      /\ \A n \in DOMAIN r : n \in Nat \ {0} /\ n + 1 \in DOMAIN js /\ r[n] = js[n + 1]
  BY TailIsThinned
<1>2. e \in EventSet /\ e.type = Head(js).op /\ e.of = Head(js).of /\ ~IsRun(e)
  BY Kinds DEF EventSet, Done
<1>3. \A t : e # Run(t)
  BY <1>2, Kinds
<1> HIDE DEF r, e
<1>4. /\ DOMAIN q \subseteq Nat /\ Len(q) \in Nat
      /\ \A n \in DOMAIN q : n <= Len(q) /\ p[n] = q[n]
      /\ p[Len(q) + 1] = e
      /\ \A n \in DOMAIN p : n \in DOMAIN q \/ n = Len(q) + 1
  <2>1. e \in EventSet
    BY <1>2
  <2> QED BY <2>1, Appended
<1> HIDE DEF p
<1>5. \A n \in DOMAIN r : n + 1 # 1 /\ \A m \in DOMAIN r : m # n => m + 1 # n + 1
  BY <1>1
<1>6. Lone(o, q, r, s, i)
  BY <1>1, <1>5 DEF Lone
<1>7. ASSUME Head(js).wanted PROVE Lone(o, p, r, s, i)
  <2>1. CASE Head(js).op # o
    <3>1. e.type # o
      BY <1>2, <2>1
    <3> QED BY <1>2, <1>3, <1>6, <3>1, LoneAppend DEF p
  <2>2. CASE Head(js).op = o
    <3>1. Awaited(js[1], o)
      BY <1>1, <1>7, <2>2 DEF Awaited
    <3>2. /\ s = WaitsFor[o] /\ i \in {None, e.of}
          /\ \A m \in DOMAIN r : ~Awaited(r[m], o)
          /\ \A m \in DOMAIN q : q[m] # Run(WaitsFor[o])
      BY <1>1, <1>2, <1>5, <3>1 DEF Lone
    <3>3. \A m \in DOMAIN q : q[m].type # o
      BY <1>1, <3>1 DEF Lone
    <3>4. /\ \A n \in DOMAIN p : p[n].type = o => n = Len(q) + 1 /\ p[n] = e
          /\ \A n \in DOMAIN p : p[n] # Run(WaitsFor[o])
      BY <1>3, <1>4, <3>2, <3>3
    <3> QED BY <3>2, <3>4 DEF Lone
  <2> QED BY <2>1, <2>2
<1> QED BY <1>6, <1>7 DEF r, p, e

\* A state is left, and with it the command it waits for.
LEMMA EnterNoTask ==
    ASSUME Machine, NEW o \in Tasks, NEW i, Lone(o, events, jobs, state, i),
           NEW q \in Seq(EventSet), NoResult(o, q), NEW s \in States \cup {"Ended"}, Enter(q, s)
    PROVE  NoTask(o, events', jobs')
<1>1. NoResult(o, events')
  <2>1. CASE events' = q
    BY <2>1
  <2>2. CASE s \in States /\ events' = Append(q, Run(s))
    <3>1. Run(s) \in EventSet /\ Run(s).type # o
      BY <2>2 DEF EventSet, Run, Tasks
    <3> DEFINE r == Append(q, Run(s))
    <3>2. /\ \A n \in DOMAIN q : r[n] = q[n]
          /\ r[Len(q) + 1] = Run(s)
          /\ \A n \in DOMAIN r : n \in DOMAIN q \/ n = Len(q) + 1
      BY <3>1, Appended
    <3> HIDE DEF r
    <3>3. NoResult(o, r)
      BY <3>1, <3>2 DEF NoResult
    <3> QED BY <2>2, <3>3 DEF r
  <2> QED BY <2>1, <2>2 DEF Enter
<1>2. /\ DOMAIN jobs' = DOMAIN jobs
      /\ \A n \in DOMAIN jobs : jobs'[n].wanted => WaitsFor[jobs[n].op] # state /\ jobs'[n] = jobs[n]
  BY ForgottenJobs DEF Enter, Machine, MachineTypes
<1>3. ASSUME NEW n \in DOMAIN jobs', Awaited(jobs'[n], o) PROVE FALSE
  <2>1. n \in DOMAIN jobs /\ Awaited(jobs[n], o) /\ WaitsFor[jobs[n].op] # state
    BY <1>2, <1>3 DEF Awaited
  <2>2. state = WaitsFor[o]
    BY <2>1 DEF Lone
  <2> QED BY <2>1, <2>2 DEF Awaited
<1> QED BY <1>1, <1>3 DEF NoTask
-----------------------------------------------------------------------------
Own == {"EstablishPaceChannelRemote", "EstablishPaceChannelResponse", "ChangePinRemote",
        "ChangePinResponse"}
NoOwn(q) == \A n \in DOMAIN q : \A t \in Own : q[n] # Run(t)
Current(q, s) == \A n \in DOMAIN q : \A t \in Own : q[n] = Run(t) => s = t

\* The queue and the commands of a workflow that is not cancelled, for the requests
\* "i" of a channel and "k" of a new PIN.
Settled(q, js, s, i, k) ==
    Current(q, s) /\ Lone("pace", q, js, s, i) /\ Lone("setPin", q, js, s, k)
OutputsFit ==
    /\ slotHandle = None \/ output.of \in {None, slotHandle}
    /\ modify = None \/ modifyOutput.of \in {None, modify}
Sound == ~cancelled => Settled(events, jobs, state, slotHandle, modify) /\ OutputsFit

LEMMA Waits ==
    /\ WaitsFor["pace"] = "EstablishPaceChannelRemote" /\ WaitsFor["setPin"] = "ChangePinRemote"
    /\ {"pace", "setPin"} = Tasks
    /\ \A o \in Tasks : WaitsFor[o] \in Own /\ WaitsFor[o] \notin Prompts
BY DEF WaitsFor, Tasks, Own, Prompts

LEMMA LaterSettled ==
    ASSUME Machine, events # <<>>, Settled(events, jobs, state, slotHandle, modify),
           NEW i \in {slotHandle, None}, NEW k \in {modify, None}
    PROVE  Settled(Later, jobs, state, i, k)
<1>1. events \in Seq(EventSet)
  BY DEF Machine, MachineTypes
<1>2. Current(Later, state)
  BY <1>1, TailIsThinned DEF Settled, Current, Later
<1>3. Lone("pace", Later, jobs, state, slotHandle) /\ Lone("setPin", Later, jobs, state, modify)
  BY <1>1, LoneLater, Waits DEF Settled, Later
<1> QED BY <1>2, <1>3, LoneForNobody DEF Settled

LEMMA EnterSettles ==
    ASSUME Machine, Settled(events, jobs, state, slotHandle, modify),
           NEW q \in Seq(EventSet), NoOwn(q), NoResult("pace", q), NoResult("setPin", q),
           NEW s \in States \cup {"Ended"}, Enter(q, s), NEW i, NEW k
    PROVE  Settled(events', jobs', state', i, k)
<1>1. NoTask("pace", events', jobs') /\ NoTask("setPin", events', jobs')
  BY EnterNoTask, Waits DEF Settled
<1>2. state' = s
  BY DEF Enter
<1>3. Current(events', s)
  <2>1. CASE events' = q
    BY <2>1 DEF NoOwn, Current
  <2>2. CASE s \in States /\ events' = Append(q, Run(s))
    <3> DEFINE r == Append(q, Run(s))
    <3>1. Run(s) \in EventSet
      BY <2>2 DEF EventSet
    <3>2. /\ \A n \in DOMAIN q : r[n] = q[n]
          /\ r[Len(q) + 1] = Run(s)
          /\ \A n \in DOMAIN r : n \in DOMAIN q \/ n = Len(q) + 1
      BY <3>1, Appended
    <3>3. \A t : Run(s) = Run(t) => s = t
      BY DEF Run
    <3> HIDE DEF r
    <3>4. Current(r, s)
      BY <3>2, <3>3 DEF Current, NoOwn
    <3> QED BY <2>2, <3>4 DEF r
  <2> QED BY <2>1, <2>2 DEF Enter
<1> QED BY <1>1, <1>2, <1>3, NoTaskIsLone DEF Settled

\* A state that is not waiting for a command is left.
LEMMA LeaveSettles ==
    ASSUME Machine, Settled(events, jobs, state, slotHandle, modify), state \notin Own,
           NEW s \in States \cup {"Ended"},
           \/ Enter(events, s)
           \/ events # <<>> /\ Enter(Later, s),
           NEW i, NEW k
    PROVE  Settled(events', jobs', state', i, k)
<1>1. NoTask("pace", events, jobs) /\ NoTask("setPin", events, jobs) /\ NoOwn(events)
  BY OtherStateNoTask, Waits DEF Settled, Current, NoOwn
<1>2. events \in Seq(EventSet)
  BY DEF Machine, MachineTypes
<1>3. events # <<>> => /\ NoResult("pace", Later) /\ NoResult("setPin", Later) /\ NoOwn(Later)
                       /\ Later \in Seq(EventSet)
  BY <1>1, <1>2, TailIsThinned DEF NoTask, NoResult, NoOwn, Later
<1> QED BY <1>1, <1>2, <1>3, EnterSettles DEF NoTask

LEMMA FireSettles ==
    ASSUME Machine, Settled(events, jobs, state, slotHandle, modify), events # <<>>,
           NEW s \in States, NEW next \in States \cup {"Ended"}, Fire(Later, s, next),
           \/ s \notin Own
           \/ Head(events) = Run(s)
           \/ \E o \in Tasks : Head(events).type = o /\ s = WaitsFor[o],
           NEW i \in {slotHandle, None}, NEW k \in {modify, None}
    PROVE  Settled(events', jobs', state', i, k)
<1>1. CASE state # s
  BY <1>1, LaterSettled DEF Fire, machine
<1>2. CASE state = s /\ s \notin Own
  BY <1>2, LeaveSettles DEF Fire
<1>3. CASE state = s /\ s \in Own
  <2>1. Enter(Later, next)
    BY <1>3 DEF Fire
  <2>2. Later \in Seq(EventSet) /\ events \in Seq(EventSet)
    BY LaterInOrder DEF Machine, MachineTypes
  <2>3. ASSUME NEW o \in Tasks, NEW n, Lone(o, events, jobs, state, n) PROVE NoResult(o, Later)
    <3>1. CASE s # WaitsFor[o]
      <4>1. NoTask(o, events, jobs)
        BY <1>3, <2>3, <3>1, OtherStateNoTask
      <4> QED BY <2>2, <4>1, TailIsThinned DEF NoTask, NoResult, Later
    <3>2. CASE s = WaitsFor[o]
      <4>1. Head(events) = Run(s) \/ Head(events).type = o
        BY <1>3, <3>2, Waits DEF Tasks
      <4>2. Head(events) = Run(WaitsFor[o]) => NoTask(o, Tail(events), jobs)
        BY <2>2, <2>3, LoneLater
      <4>3. Head(events).type = o => NoTask(o, Tail(events), jobs)
        BY <2>2, <2>3, LoneLater
      <4> QED BY <3>2, <4>1, <4>2, <4>3 DEF NoTask, Later
    <3> QED BY <3>1, <3>2
  <2>4. NoResult("pace", Later) /\ NoResult("setPin", Later)
    BY <2>3, Waits DEF Settled
  <2>5. NoOwn(Later)
    <3>1. \A n \in DOMAIN Later : Later[n] # Run(s)
      <4>1. CASE Head(events) = Run(s)
        <5>1. NoRuns(Later)
          BY <1>3, <4>1, LaterInOrder DEF Running
        <5> QED BY <5>1, Kinds DEF NoRuns
      <4>2. CASE \E o \in Tasks : Head(events).type = o /\ s = WaitsFor[o]
        <5>1. PICK o \in Tasks : Head(events).type = o /\ s = WaitsFor[o]
          BY <4>2
        <5>2. \E n : Lone(o, events, jobs, state, n)
          BY DEF Settled, Tasks
        <5> QED BY <1>3, <2>2, <5>1, <5>2, LoneLater DEF Later
      <4> QED BY <1>3, <4>1, <4>2
    <3>2. Current(Later, state)
      BY LaterSettled DEF Settled
    <3> QED BY <1>3, <3>1, <3>2 DEF NoOwn, Current
  <2> QED BY <2>1, <2>2, <2>4, <2>5, EnterSettles
<1> QED BY <1>1, <1>2, <1>3

LEMMA CrashSettles ==
    ASSUME Crash, NEW i, NEW k PROVE Settled(events', jobs', state', i, k)
<1>1. events' = <<>> /\ jobs' = <<>>
  BY DEF Crash
<1>2. DOMAIN events' = {} /\ DOMAIN jobs' = {}
  BY <1>1
<1> QED BY <1>2 DEF Settled, Current, Lone

\* A request, or what else comes while the workflow hears the client.
LEMMA RequestSettles ==
    ASSUME Machine, Settled(events, jobs, state, slotHandle, modify), hears,
           NEW next \in States, Fire(events, "ProcessRemoteMessages", next), NEW i, NEW k
    PROVE  Settled(events', jobs', state', i, k)
<1>1. state \notin Own
  BY DEF Machine, HearsWhenDone, Own
<1>2. CASE state = "ProcessRemoteMessages"
  BY <1>1, <1>2, LeaveSettles DEF Fire
<1>3. CASE state # "ProcessRemoteMessages"
  <2>1. UNCHANGED <<events, jobs, state>>
    BY <1>3 DEF Fire, machine
  <2>2. NoTask("pace", events, jobs) /\ NoTask("setPin", events, jobs) /\ Current(events, state)
    BY <1>1, OtherStateNoTask, Waits DEF Settled
  <2> QED BY <2>1, <2>2, NoTaskIsLone DEF Settled
<1> QED BY <1>2, <1>3

LEMMA RunSettles ==
    ASSUME Machine, Numbers, Settled(events, jobs, state, slotHandle, modify), RunState
    PROVE  Settled(events', jobs', state', slotHandle', modify')
<1>0. ASSUME NEW s, Running(s) PROVE events # <<>> /\ Head(events) = Run(s)
  BY <1>0 DEF Running
<1>1. ASSUME NEW s \in States, Running(s), NEW next \in States \cup {"Ended"}, Fire(Later, s, next),
             slotHandle' \in {slotHandle, None}, modify' \in {modify, None}
      PROVE  Settled(events', jobs', state', slotHandle', modify')
  BY <1>0, <1>1, FireSettles
<1>2. CASE ProcessRemoteMessages
  <2>1. /\ events # <<>> /\ events' = Later /\ UNCHANGED <<jobs, state>>
        /\ slotHandle' \in {slotHandle, None} /\ modify' \in {modify, None}
    BY <1>0, <1>2 DEF ProcessRemoteMessages, OnResetMessageHandler, ClearEstablishPaceChannel,
       SetEstablishPaceChannel, context, message
  <2> QED BY <2>1, LaterSettled
<1>3. CASE StopRemoteService
  <2>1. slotHandle' \in {slotHandle, None} /\ modify' \in {modify, None}
    BY <1>3 DEF StopRemoteService, StopServer, OnResetMessageHandler, ClearEstablishPaceChannel,
       SetEstablishPaceChannel, context, message
  <2>2. Running("StopRemoteService") /\ Fire(Later, "StopRemoteService", "FinalState")
    BY <1>3 DEF StopRemoteService
  <2> QED BY <1>1, <2>1, <2>2 DEF States
<1>4. CASE EstablishPaceChannelResponse
  <2>1. CASE Crash
    BY <2>1, CrashSettles
  <2>2. CASE ~Crash
    <3>1. /\ Running("EstablishPaceChannelResponse") /\ slotHandle' = None /\ modify' = modify
          /\ \E t \in {"ClearPacePasswords", "ProcessRemoteMessages"} :
                 Fire(Later, "EstablishPaceChannelResponse", t)
      BY <1>4, <2>2 DEF EstablishPaceChannelResponse, ClearEstablishPaceChannel,
         SetEstablishPaceChannel
    <3> QED BY <1>1, <3>1 DEF States
  <2> QED BY <2>1, <2>2
<1>5. CASE EstablishPaceChannelRemote
  <2>1. Running("EstablishPaceChannelRemote") /\ UNCHANGED <<slotHandle, modify>>
    BY <1>5 DEF EstablishPaceChannelRemote, context, message
  <2>2. CASE Crash
    BY <2>2, CrashSettles
  <2>3. CASE Fire(Later, "EstablishPaceChannelRemote", "EstablishPaceChannelResponse")
    BY <1>1, <2>1, <2>3 DEF States
  <2>4. CASE /\ jobs' = Append(jobs, Job("pace", slotHandle, client))
             /\ events' = Later /\ UNCHANGED state
    <3> DEFINE j == Job("pace", slotHandle, client)
    <3>1. j \in JobSet /\ j.op = "pace" /\ j.of = slotHandle
      BY NewJobs DEF Job
    <3>2. events # <<>> /\ Head(events) = Run(WaitsFor["pace"]) /\ events \in Seq(EventSet)
      BY <1>0, <2>1, Waits DEF Machine, MachineTypes
    <3>3. NoTask("pace", Later, jobs)
      BY <3>2, LoneLater, Waits DEF Settled, Later
    <3>4. state = "EstablishPaceChannelRemote"
      <4>1. 1 \in DOMAIN events /\ events[1] = Run("EstablishPaceChannelRemote")
        BY <3>2, TailIsThinned, Waits
      <4> QED BY <4>1 DEF Settled, Current, Own
    <3>5. \A m \in DOMAIN Later : Later[m] # Run(WaitsFor["pace"])
      <4>1. NoRuns(Later)
        BY <2>1, <3>2, <3>4, LaterInOrder
      <4> QED BY <4>1, Kinds DEF NoRuns
    <3>6. jobs \in Seq(JobSet)
      BY DEF Machine, MachineTypes
    <3> HIDE DEF j
    <3>7. Lone("pace", Later, Append(jobs, j), WaitsFor["pace"], j.of)
      BY <3>1, <3>3, <3>5, <3>6, LoneStarts, Waits
    <3>8. Settled(Later, jobs, state, slotHandle, modify)
      BY <3>2, LaterSettled
    <3>9. Lone("setPin", Later, Append(jobs, j), state, modify)
      BY <3>1, <3>6, <3>8, LoneOtherJob, Waits DEF Settled
    <3> QED BY <2>1, <2>4, <3>1, <3>4, <3>7, <3>8, <3>9, Waits DEF Settled, j
  <2> QED BY <1>5, <2>2, <2>3, <2>4 DEF EstablishPaceChannelRemote, phase
<1>6. CASE ChangePinRemote
  <2>1. Running("ChangePinRemote") /\ UNCHANGED <<slotHandle, modify>>
    BY <1>6 DEF ChangePinRemote, message
  <2>2. CASE Crash
    BY <2>2, CrashSettles
  <2>3. CASE Fire(Later, "ChangePinRemote", "ChangePinResponse")
    BY <1>1, <2>1, <2>3 DEF States
  <2>4. CASE /\ jobs' = Append(jobs, Job("setPin", modify, client))
             /\ events' = Later /\ UNCHANGED state
    <3> DEFINE j == Job("setPin", modify, client)
    <3>1. j \in JobSet /\ j.op = "setPin" /\ j.of = modify
      BY NewJobs DEF Job
    <3>2. events # <<>> /\ Head(events) = Run(WaitsFor["setPin"]) /\ events \in Seq(EventSet)
      BY <1>0, <2>1, Waits DEF Machine, MachineTypes
    <3>3. NoTask("setPin", Later, jobs)
      BY <3>2, LoneLater, Waits DEF Settled, Later
    <3>4. state = "ChangePinRemote"
      <4>1. 1 \in DOMAIN events /\ events[1] = Run("ChangePinRemote")
        BY <3>2, TailIsThinned, Waits
      <4> QED BY <4>1 DEF Settled, Current, Own
    <3>5. \A m \in DOMAIN Later : Later[m] # Run(WaitsFor["setPin"])
      <4>1. NoRuns(Later)
        BY <2>1, <3>2, <3>4, LaterInOrder
      <4> QED BY <4>1, Kinds DEF NoRuns
    <3>6. jobs \in Seq(JobSet)
      BY DEF Machine, MachineTypes
    <3> HIDE DEF j
    <3>7. Lone("setPin", Later, Append(jobs, j), WaitsFor["setPin"], j.of)
      BY <3>1, <3>3, <3>5, <3>6, LoneStarts, Waits
    <3>8. Settled(Later, jobs, state, slotHandle, modify)
      BY <3>2, LaterSettled
    <3>9. Lone("pace", Later, Append(jobs, j), state, slotHandle)
      BY <3>1, <3>6, <3>8, LoneOtherJob, Waits DEF Settled
    <3> QED BY <2>1, <2>4, <3>1, <3>4, <3>7, <3>8, <3>9, Waits DEF Settled, j
  <2> QED BY <1>6, <2>2, <2>3, <2>4 DEF ChangePinRemote, phase
<1>7. CASE UpdateRetryCounter
  <2>1. Running("UpdateRetryCounter") /\ UNCHANGED <<slotHandle, modify>>
    BY <1>7 DEF UpdateRetryCounter, context, message
  <2>2. CASE Fire(Later, "UpdateRetryCounter", "EstablishPaceChannelResponse")
    BY <1>1, <2>1, <2>2 DEF States
  <2>3. CASE /\ jobs' = Append(jobs, Job("update", slotHandle, client))
             /\ events' = Later /\ UNCHANGED state
    <3> DEFINE j == Job("update", slotHandle, client)
    <3>1. j \in JobSet /\ j.op = "update" /\ jobs \in Seq(JobSet)
      BY NewJobs DEF Job, Machine, MachineTypes
    <3>2. Settled(Later, jobs, state, slotHandle, modify)
      BY <1>0, <2>1, LaterSettled
    <3> HIDE DEF j
    <3>3. /\ Lone("pace", Later, Append(jobs, j), state, slotHandle)
          /\ Lone("setPin", Later, Append(jobs, j), state, modify)
      BY <3>1, <3>2, LoneOtherJob, Waits DEF Settled
    <3> QED BY <2>1, <2>3, <3>2, <3>3 DEF Settled, j
  <2> QED BY <1>7, <2>2, <2>3 DEF UpdateRetryCounter, phase
<1>8. CASE VerifyRetryCounter
  <2>1. Running("VerifyRetryCounter") /\ UNCHANGED <<slotHandle, modify>>
    BY <1>8 DEF VerifyRetryCounter, message
  <2>2. Crash \/ Fire(Later, "VerifyRetryCounter", "PreparePaceRemote")
    BY <1>8 DEF VerifyRetryCounter
  <2> QED BY <1>1, <2>1, <2>2, CrashSettles DEF States
<1>9. CASE PreparePaceRemote
  <2>1. Running("PreparePaceRemote") /\ UNCHANGED <<slotHandle, modify>>
    BY <1>9 DEF PreparePaceRemote, context, message
  <2>2. \E t \in {"EstablishPaceChannelResponse", "EnterPacePasswordRemote",
                  "EstablishPaceChannelRemote"} : Fire(Later, "PreparePaceRemote", t)
    BY <1>9 DEF PreparePaceRemote
  <2> QED BY <1>1, <2>1, <2>2 DEF States
<1>10. CASE PrepareChangePinRemote
  <2>1. Running("PrepareChangePinRemote") /\ UNCHANGED <<slotHandle, modify>>
    BY <1>10 DEF PrepareChangePinRemote, context, message
  <2>2. \E t \in {"EnterNewPacePinRemote", "ChangePinRemote"} :
            Fire(Later, "PrepareChangePinRemote", t)
    BY <1>10 DEF PrepareChangePinRemote
  <2> QED BY <1>1, <2>1, <2>2 DEF States
<1>11. CASE ChangePinResponse
  <2>1. Running("ChangePinResponse") /\ UNCHANGED <<slotHandle, modify>>
    BY <1>11 DEF ChangePinResponse, context, message
  <2>2. \/ Crash
        \/ \E t \in {"ClearPacePasswords", "ProcessRemoteMessages"} :
               Fire(Later, "ChangePinResponse", t)
    BY <1>11 DEF ChangePinResponse
  <2> QED BY <1>1, <2>1, <2>2, CrashSettles DEF States
<1>12. CASE \/ StartRemoteService \/ VerifyWithoutCard \/ EnterPacePasswordRemote
            \/ EnterNewPacePinRemote \/ ClearPacePasswords \/ FinalState
  <2>1. UNCHANGED <<slotHandle, modify>>
    BY <1>12 DEF StartRemoteService, VerifyWithoutCard, EnterPacePasswordRemote,
       EnterNewPacePinRemote, ClearPacePasswords, FinalState, context, message
  <2>2. \E s \in States, t \in States \cup {"Ended"} : Running(s) /\ Fire(Later, s, t)
    BY <1>12 DEF StartRemoteService, VerifyWithoutCard, EnterPacePasswordRemote,
       EnterNewPacePinRemote, ClearPacePasswords, FinalState, States
  <2> QED BY <1>1, <2>1, <2>2
<1> QED BY <1>2, <1>3, <1>4, <1>5, <1>6, <1>7, <1>8, <1>9, <1>10, <1>11, <1>12 DEF RunState

LEMMA OthersSettle ==
    ASSUME Machine, Numbers, Settled(events, jobs, state, slotHandle, modify), RemoteNext,
           ~RunState, ~SetRunning, ~KillWorkflow
    PROVE  Settled(events', jobs', state', slotHandle', modify')
<1>0. events \in Seq(EventSet) /\ jobs \in Seq(JobSet)
  BY DEF Machine, MachineTypes
<1>1. CASE Connected \/ ReaderChanged
  <2>1. events # <<>> /\ events' = Later /\ UNCHANGED <<jobs, state, slotHandle, modify>>
    BY <1>1 DEF Connected, ReaderChanged, Arrived, machine, context, message
  <2> QED BY <2>1, LaterSettled
<1>2. CASE UpdateRetryCounterDone
  <2>1. events # <<>> /\ UNCHANGED <<slotHandle, modify>>
    BY <1>2 DEF UpdateRetryCounterDone, Arrived, message
  <2>2. \/ Crash
        \/ \E t \in {"VerifyRetryCounter", "EstablishPaceChannelResponse"} :
               Fire(Later, "UpdateRetryCounter", t)
    BY <1>2 DEF UpdateRetryCounterDone
  <2> QED BY <2>1, <2>2, CrashSettles, FireSettles DEF States, Own
<1>3. CASE EstablishConnectionDone
  <2>1. /\ events # <<>> /\ Head(events).type = "pace" /\ UNCHANGED <<slotHandle, modify>>
        /\ Fire(Later, "EstablishPaceChannelRemote", "EstablishPaceChannelResponse")
    BY <1>3 DEF EstablishConnectionDone, Arrived
  <2> QED BY <2>1, FireSettles, Waits DEF States
<1>4. CASE ChangePinDone
  <2>1. /\ events # <<>> /\ Head(events).type = "setPin" /\ UNCHANGED <<slotHandle, modify>>
        /\ Fire(Later, "ChangePinRemote", "ChangePinResponse")
    BY <1>4 DEF ChangePinDone, Arrived, message
  <2> QED BY <2>1, FireSettles, Waits DEF States
<1>5. CASE Execute
  <2>1. PICK c \in Codes : /\ Done(Head(jobs), c) \in Results
                           /\ events' = IF Head(jobs).wanted
                                        THEN Append(events, Done(Head(jobs), c)) ELSE events
    BY <1>5, ExecuteIs
  <2>2. /\ jobs # <<>> /\ jobs' = Tail(jobs) /\ UNCHANGED <<state, slotHandle, modify>>
    BY <1>5, ExecuteIs DEF Execute, context, message
  <2> DEFINE e == Done(Head(jobs), c)
  <2>3. e \in EventSet /\ \A t : e # Run(t)
    BY <2>1, Kinds DEF EventSet
  <2>4. Current(events', state)
    <3>1. CASE Head(jobs).wanted
      <4> DEFINE r == Append(events, e)
      <4>1. /\ \A n \in DOMAIN events : r[n] = events[n]
            /\ r[Len(events) + 1] = e
            /\ \A n \in DOMAIN r : n \in DOMAIN events \/ n = Len(events) + 1
        BY <1>0, <2>3, Appended
      <4>2. events' = r
        BY <2>1, <3>1
      <4> HIDE DEF r, e
      <4>3. Current(r, state)
        BY <2>3, <4>1 DEF Settled, Current
      <4> QED BY <4>2, <4>3
    <3>2. CASE ~Head(jobs).wanted
      BY <2>1, <3>2 DEF Settled
    <3> QED BY <3>1, <3>2
  <2>5. /\ Lone("pace", events', jobs', state, slotHandle)
        /\ Lone("setPin", events', jobs', state, modify)
    <3> HIDE DEF e
    <3>1. ASSUME NEW o \in Tasks, NEW i, Lone(o, events, jobs, state, i)
          PROVE  Lone(o, events', jobs', state, i)
      BY <1>0, <2>1, <2>2, <3>1, LoneExecuted
    <3> QED BY <3>1, Waits DEF Settled
  <2> QED BY <2>2, <2>4, <2>5 DEF Settled
<1>6. CASE EnterPassword
  <2>1. /\ state \in Prompts /\ events' = Append(events, Run(state))
        /\ Run(state) \in EventSet /\ UNCHANGED <<state, jobs, slotHandle, modify>>
    BY <1>6, UnapprovedIsBefore DEF EnterPassword, IsPrompting, message
  <2>2. NoTask("pace", events, jobs) /\ NoTask("setPin", events, jobs) /\ NoOwn(events)
    BY <2>1, OtherStateNoTask, Waits DEF Settled, Current, NoOwn, Own, Prompts
  <2> DEFINE r == Append(events, Run(state))
  <2>3. /\ \A n \in DOMAIN events : r[n] = events[n]
        /\ r[Len(events) + 1] = Run(state)
        /\ \A n \in DOMAIN r : n \in DOMAIN events \/ n = Len(events) + 1
    BY <1>0, <2>1, Appended
  <2>4. Run(state).type = "run" /\ \A t : Run(state) = Run(t) => state = t
    BY DEF Run
  <2>5. events' = r
    BY <2>1
  <2> HIDE DEF r
  <2>6. NoTask("pace", r, jobs) /\ NoTask("setPin", r, jobs)
    BY <2>2, <2>3, <2>4 DEF NoTask, NoResult
  <2>7. Current(r, state)
    BY <2>2, <2>3, <2>4 DEF NoOwn, Current
  <2> QED BY <2>1, <2>5, <2>6, <2>7, NoTaskIsLone DEF Settled
<1>7. CASE CancelPassword
  <2>1. Enter(events, Aborted(state)) /\ state \in Prompts /\ UNCHANGED <<slotHandle, modify>>
    BY <1>7 DEF CancelPassword, IsPrompting, IsUnapproved
  <2>2. Aborted(state) \in States /\ state \notin Own
    BY <2>1 DEF Aborted, Prompts, States, Own, PaceStates
  <2> QED BY <2>1, <2>2, LeaveSettles
<1>8. CASE ClientConnects \/ Disconnect
  <2>1. /\ UNCHANGED <<events, jobs, state>>
        /\ slotHandle' \in {slotHandle, None} /\ modify' \in {modify, None}
    BY <1>8 DEF ClientConnects, Disconnect, OnResetMessageHandler, ClearEstablishPaceChannel,
       SetEstablishPaceChannel, machine, context, message
  <2> QED BY <2>1, LoneForNobody DEF Settled
<1>9. CASE ClientCloses
  <2>1. slotHandle' = None /\ modify' = None
    BY <1>9 DEF ClientCloses, OnResetMessageHandler, ClearEstablishPaceChannel, SetEstablishPaceChannel
  <2>2. CASE watched
    <3>1. Enter(events, Aborted(state)) /\ state \in Prompts
      BY <1>9, <2>2 DEF ClientCloses, PromptGivenUp, Machine, WatchesPrompts
    <3>2. Aborted(state) \in States /\ state \notin Own
      BY <3>1 DEF Aborted, Prompts, States, Own, PaceStates
    <3> QED BY <3>1, <3>2, LeaveSettles
  <2>3. CASE ~watched
    <3>1. UNCHANGED <<events, jobs, state>>
      BY <1>9, <2>3 DEF ClientCloses, PromptGivenUp
    <3> QED BY <2>1, <3>1, LoneForNobody DEF Settled
  <2> QED BY <2>2, <2>3
<1>10. CASE Connect
  <2> DEFINE j == Job("connect", requests + 1, client)
  <2>1. jobs' = Append(jobs, j) /\ UNCHANGED <<events, state, slotHandle, modify>>
    BY <1>10 DEF Connect, phase, context, message
  <2>2. j \in JobSet /\ j.op = "connect"
    BY NewJobs DEF Job
  <2> HIDE DEF j
  <2>3. /\ Lone("pace", events, Append(jobs, j), state, slotHandle)
        /\ Lone("setPin", events, Append(jobs, j), state, modify)
    BY <1>0, <2>2, LoneOtherJob, Waits DEF Settled
  <2> QED BY <2>1, <2>3 DEF Settled
<1>11. CASE EstablishPaceChannel \/ ModifyPin \/ SecureMessagingStops \/ NfcEnds
  <2>1. \/ UNCHANGED <<events, jobs, state, slotHandle, modify>>
        \/ /\ hears
           /\ \E t \in {"UpdateRetryCounter", "PrepareChangePinRemote", "ClearPacePasswords",
                        "StopRemoteService"} : Fire(events, "ProcessRemoteMessages", t)
    BY <1>11 DEF EstablishPaceChannel, ModifyPin, SecureMessagingStops, NfcEnds, machine, message
  <2> QED BY <2>1, RequestSettles DEF States
<1>12. CASE CardRemoved
  <2>1. events' = Append(events, Removed) /\ UNCHANGED <<jobs, state, slotHandle, modify>>
    BY <1>12 DEF CardRemoved, machine, context, message
  <2>2. Removed \in EventSet /\ Removed.type \notin Tasks /\ \A t : Removed # Run(t)
    BY Kinds DEF EventSet, Removed, Tasks
  <2>3. Lone("pace", events', jobs, state, slotHandle) /\ Lone("setPin", events', jobs, state, modify)
    BY <1>0, <2>1, <2>2, LoneAppend, Waits DEF Settled
  <2>4. Current(events', state)
    <3> DEFINE r == Append(events, Removed)
    <3>1. /\ \A n \in DOMAIN events : r[n] = events[n]
          /\ r[Len(events) + 1] = Removed
          /\ \A n \in DOMAIN r : n \in DOMAIN events \/ n = Len(events) + 1
      BY <1>0, <2>2, Appended
    <3> HIDE DEF r
    <3>2. Current(r, state)
      BY <2>2, <3>1 DEF Settled, Current
    <3> QED BY <2>1, <3>2 DEF r
  <2> QED BY <2>1, <2>3, <2>4 DEF Settled
<1> QED BY <1>1, <1>2, <1>3, <1>4, <1>5, <1>6, <1>7, <1>8, <1>9, <1>10, <1>11, <1>12
        DEF RemoteNext, Process, Answers, Others

LEMMA OutputsStep ==
    ASSUME Machine, Numbers, Settled(events, jobs, state, slotHandle, modify), OutputsFit, RemoteNext
    PROVE  OutputsFit'
<1>0. ASSUME slotHandle' \in {slotHandle, None}, output' = output, modify' \in {modify, None},
             modifyOutput' = modifyOutput
      PROVE  OutputsFit'
  BY <1>0 DEF OutputsFit
<1>1. ASSUME OnResetMessageHandler \/ UNCHANGED context PROVE OutputsFit'
  BY <1>1 DEF OnResetMessageHandler, ClearEstablishPaceChannel, SetEstablishPaceChannel, OutputsFit,
     context, message
<1>2. CASE ProcessRemoteMessages \/ StopRemoteService \/ ClientConnects \/ ClientCloses
           \/ SetRunning \/ KillWorkflow
  BY <1>1, <1>2 DEF ProcessRemoteMessages, StopRemoteService, ClientConnects, ClientCloses, SetRunning,
     KillWorkflow, Abort, StopServer
<1>3. CASE EstablishPaceChannelResponse
  BY <1>3 DEF EstablishPaceChannelResponse, ClearEstablishPaceChannel, SetEstablishPaceChannel,
     OutputsFit, message
<1>4. CASE ChangePinRemote
  BY <1>4 DEF ChangePinRemote, OutputsFit, NoOutput, message
<1>5. CASE \/ StartRemoteService \/ UpdateRetryCounter \/ VerifyWithoutCard \/ VerifyRetryCounter
           \/ PreparePaceRemote \/ EnterPacePasswordRemote \/ EnterNewPacePinRemote
           \/ EstablishPaceChannelRemote \/ PrepareChangePinRemote \/ ChangePinResponse
           \/ ClearPacePasswords \/ FinalState
  BY <1>0, <1>5 DEF StartRemoteService, UpdateRetryCounter, VerifyWithoutCard, VerifyRetryCounter,
     PreparePaceRemote, EnterPacePasswordRemote, EnterNewPacePinRemote, EstablishPaceChannelRemote,
     PrepareChangePinRemote, ChangePinResponse, ClearPacePasswords, FinalState, context, message
<1>6. CASE EstablishConnectionDone
  <2>1. /\ events # <<>> /\ Head(events).type = "pace" /\ output'.of = Head(events).of
        /\ UNCHANGED <<slotHandle, modify, modifyOutput>>
    BY <1>6 DEF EstablishConnectionDone, Arrived
  <2>2. events \in Seq(EventSet) /\ Lone("pace", events, jobs, state, slotHandle)
    BY DEF Machine, MachineTypes, Settled
  <2>3. slotHandle \in {None, Head(events).of}
    BY <2>1, <2>2, LoneLater, Waits
  <2> QED BY <2>1, <2>3 DEF OutputsFit
<1>7. CASE ChangePinDone
  <2>1. /\ events # <<>> /\ Head(events).type = "setPin" /\ modifyOutput'.of = Head(events).of
        /\ UNCHANGED <<slotHandle, modify, output>>
    BY <1>7 DEF ChangePinDone, Arrived, message
  <2>2. events \in Seq(EventSet) /\ Lone("setPin", events, jobs, state, modify)
    BY DEF Machine, MachineTypes, Settled
  <2>3. modify \in {None, Head(events).of}
    BY <2>1, <2>2, LoneLater, Waits
  <2> QED BY <2>1, <2>3 DEF OutputsFit
<1>8. CASE CancelPassword
  <2>1. /\ UNCHANGED <<slotHandle, modify>>
        /\ output' = output \/ output'.of = slotHandle
        /\ modifyOutput' = modifyOutput \/ modifyOutput'.of = modify
    BY <1>8 DEF CancelPassword
  <2> QED BY <2>1 DEF OutputsFit
<1>9. CASE EstablishPaceChannel
  <2>1. /\ UNCHANGED <<modify, modifyOutput>>
        /\ \/ UNCHANGED <<slotHandle, output>>
           \/ output' = NoOutput
    BY <1>9 DEF EstablishPaceChannel, SetEstablishPaceChannel, message
  <2> QED BY <2>1 DEF OutputsFit, NoOutput
<1>10. CASE ModifyPin
  <2>1. /\ UNCHANGED <<slotHandle, output>>
        /\ \/ UNCHANGED <<modify, modifyOutput>>
           \/ modifyOutput' = NoOutput
    BY <1>10 DEF ModifyPin
  <2> QED BY <2>1 DEF OutputsFit, NoOutput
<1>11. CASE \/ Connected \/ ReaderChanged \/ UpdateRetryCounterDone \/ Execute \/ EnterPassword
            \/ Connect \/ Disconnect \/ SecureMessagingStops \/ CardRemoved \/ NfcEnds
  BY <1>0, <1>11 DEF Connected, ReaderChanged, UpdateRetryCounterDone, Execute, EnterPassword, Connect,
     Disconnect, SecureMessagingStops, CardRemoved, NfcEnds, context, message
<1> QED BY <1>2, <1>3, <1>4, <1>5, <1>6, <1>7, <1>8, <1>9, <1>10, <1>11
        DEF RemoteNext, Process, RunState, Answers, Others

LEMMA CancelledStays == ASSUME RemoteNext, ~cancelled' PROVE ~cancelled /\ ~SetRunning /\ ~KillWorkflow
<1>1. CASE SetRunning \/ KillWorkflow
  BY <1>1 DEF SetRunning, KillWorkflow, Abort
<1>2. CASE RunState
  BY <1>1, <1>2 DEF RunState, StartRemoteService, ProcessRemoteMessages,
       UpdateRetryCounter, VerifyWithoutCard, VerifyRetryCounter, PreparePaceRemote,
       EnterPacePasswordRemote, EnterNewPacePinRemote, EstablishPaceChannelRemote,
       EstablishPaceChannelResponse, PrepareChangePinRemote, ChangePinRemote,
       ChangePinResponse, ClearPacePasswords, StopRemoteService, FinalState, rest, ending
<1>3. CASE \/ Connected \/ UpdateRetryCounterDone \/ EstablishConnectionDone
           \/ ChangePinDone \/ ReaderChanged \/ Execute \/ Answers
  BY <1>1, <1>3 DEF Connected, UpdateRetryCounterDone, EstablishConnectionDone, ChangePinDone,
       ReaderChanged, Execute, Answers, EnterPassword, CancelPassword, rest, ending
<1>4. CASE Others /\ ~SetRunning /\ ~KillWorkflow
  BY <1>1, <1>4 DEF Others, ClientConnects, ClientCloses, Connect, Disconnect, EstablishPaceChannel,
       ModifyPin, SecureMessagingStops, CardRemoved, NfcEnds, ending
<1> QED BY <1>1, <1>2, <1>3, <1>4 DEF RemoteNext, Process

LEMMA SoundStep ==
    ASSUME Machine, Numbers, Sound, RemoteNext PROVE Sound'
<1> SUFFICES ASSUME ~cancelled'
             PROVE  Settled(events', jobs', state', slotHandle', modify') /\ OutputsFit'
  BY DEF Sound
<1>1. ~SetRunning /\ ~KillWorkflow /\ Settled(events, jobs, state, slotHandle, modify) /\ OutputsFit
  BY CancelledStays DEF Sound
<1> QED BY <1>1, RunSettles, OthersSettle, OutputsStep
-----------------------------------------------------------------------------
RequestIInv == Machine /\ Numbers /\ Serving /\ Sound

LEMMA RequestIInvInit == RemoteInit => RequestIInv
<1> SUFFICES ASSUME RemoteInit PROVE RequestIInv
  OBVIOUS
<1>1. /\ events = <<Run("StartRemoteService")>> /\ jobs = <<>> /\ state = "StartRemoteService"
      /\ hears = FALSE /\ watched = FALSE
  BY DEF RemoteInit
<1>2. Run("StartRemoteService") \in EventSet
  BY DEF EventSet, States
<1>3. /\ events \in Seq(EventSet) /\ DOMAIN events = {1} /\ events[1] = Run("StartRemoteService")
      /\ jobs \in Seq(JobSet) /\ DOMAIN jobs = {}
  BY <1>1, <1>2
<1>4. Run("StartRemoteService").type = "run" /\ Run("StartRemoteService").state = "StartRemoteService"
      /\ \A t : Run("StartRemoteService") = Run(t) => t = "StartRemoteService"
  BY DEF Run
<1>5. Rising(events) /\ UpTo(events, state)
  BY <1>1, <1>3, <1>4, Ranks DEF Rising, UpTo
<1>6. Machine
  BY <1>1, <1>3, <1>5 DEF Machine, MachineTypes, RunsInOrder, HearsWhenDone, WatchesPrompts, States
<1>7. Numbers /\ Serving /\ OutputsFit
  BY DEF RemoteInit, Numbers, Serving, Served, AskedFor, Changing, ChangeStates, OutputsFit, None
<1>8. Settled(events, jobs, state, slotHandle, modify)
  BY <1>3, <1>4 DEF Settled, Current, Lone, Own, Tasks
<1> QED BY <1>6, <1>7, <1>8 DEF RequestIInv, Sound

LEMMA RequestIInvStep == ClientIsCounted' /\ RequestIInv /\ [RemoteNext]_vars => RequestIInv'
<1> SUFFICES ASSUME ClientIsCounted', RequestIInv, [RemoteNext]_vars PROVE RequestIInv'
  OBVIOUS
<1>1. Machine'
  BY MachineStep DEF RequestIInv
<1>2. CASE UNCHANGED vars
  <2>1. UNCHANGED <<state, events, jobs, watched, client, asked, requests, slotHandle, password, output,
                    modify, modifyOutput, cancelled>>
    BY <1>2 DEF vars, machine, server, handler, context, message, ending
  <2>2. Numbers' /\ Serving'
    BY <2>1 DEF RequestIInv, Numbers, Serving, Served, AskedFor, Changing
  <2>3. Sound'
    BY <2>1 DEF RequestIInv, Sound, OutputsFit
  <2> QED BY <1>1, <2>2, <2>3 DEF RequestIInv
<1>3. CASE RemoteNext
  <2>1. client' \in Nat
    BY DEF ClientIsCounted
  <2> QED BY <1>1, <1>3, <2>1, NumbersStep, ServingStep, SoundStep DEF RequestIInv
<1> QED BY <1>2, <1>3

LEMMA RunningIsQueued ==
    ASSUME Machine, NEW s \in Own, Running(s), Current(events, state) PROVE state = s
<1>1. 1 \in DOMAIN events /\ events[1] = Run(s)
  BY TailIsThinned DEF Machine, MachineTypes, Running
<1> QED BY <1>1 DEF Current

LEMMA AnswersFit == RequestIInv => AnswerFitsRequest
<1> SUFFICES ASSUME RequestIInv, ~cancelled, client # None
             PROVE  /\ Running("EstablishPaceChannelResponse") /\ slotHandle # None
                         => slotHandle \in asked /\ output.of \in {None, slotHandle}
                    /\ Running("ChangePinResponse") /\ modify # None
                         => modify \in asked /\ modifyOutput.of \in {None, modify}
  BY DEF AnswerFitsRequest
<1>1. Machine /\ Serving /\ OutputsFit /\ Current(events, state)
  BY DEF RequestIInv, Sound, Settled
<1>2. Running("EstablishPaceChannelResponse") => state = "EstablishPaceChannelResponse"
  BY <1>1, RunningIsQueued DEF Own
<1>3. Running("ChangePinResponse") => state = "ChangePinResponse"
  BY <1>1, RunningIsQueued DEF Own
<1> QED BY <1>1, <1>2, <1>3 DEF Serving, Served, Changing, OutputsFit, Dead, ChangeStates

\* Invariant: the run() calls in the event queue are in the order of the states of
\* one request, the workflow hears no client while there is one, and what it waits
\* for belongs to the request it works on.
THEOREM RequestInvariant == RemoteSpec => []RequestIInv
<1>1. RemoteIInv => ClientIsCounted
  BY DEF RemoteIInv
<1> QED BY <1>1, RemoteInvariant, RequestIInvInit, RequestIInvStep, PTL DEF RemoteSpec

\* The user is asked for a password only while a client waits for the channel it
\* opens (StateEnterPacePasswordRemote and the handler's "destroyed").
THEOREM PromptsAreWanted == RemoteSpec => []PromptHasRequest
<1>1. RequestIInv => PromptHasRequest
  BY DEF RequestIInv, Serving, Served, AskedFor, PromptHasRequest, Dead
<1> QED BY <1>1, RequestInvariant, PTL

\* A client is answered what came of its own request, as long as nobody cancels the
\* workflow (StateEstablishPaceChannelResponse and StateChangePinResponse).
THEOREM AnswersBelongToRequest == RemoteSpec => []AnswerFitsRequest
BY AnswersFit, RequestInvariant, PTL
=============================================================================
