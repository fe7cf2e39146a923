------------------------- MODULE PaceChannelProofs -------------------------
(***************************************************************************)
(* Theorems about PaceChannel, and about the PIN change around it, for     *)
(* every set of readers and cards and every number of moved cards,         *)
(* failures and cancellations.  The invariants they rest on are stated and *)
(* explained in PaceInvariants.                                            *)
(***************************************************************************)
EXTENDS PaceInvariants, TLAPS

-----------------------------------------------------------------------------
(* The queue *)

LEMMA RunTyped == \A s \in Inner \cup Left : Run(s) \in PaceEvents /\ Run(s).type = "run"
BY DEF Run, PaceEvents

LEMMA TailKeeps ==
    ASSUME NEW queue \in Seq(PaceEvents), queue # <<>>, NEW s, NEW before, NEW gone,
           QueueOK(queue, before, s), before => gone, Head(queue) \in Clearing => gone
    PROVE  Tail(queue) \in Seq(PaceEvents) /\ QueueOK(Tail(queue), gone, s)
<1>1. /\ Tail(queue) \in Seq(PaceEvents) /\ Len(Tail(queue)) = Len(queue) - 1
      /\ \A i \in 1..Len(Tail(queue)) : Tail(queue)[i] = queue[i + 1]
      /\ Head(queue) = queue[1] /\ Len(queue) \in Nat \ {0}
  OBVIOUS
<1>2. CASE gone
  BY <1>1, <1>2 DEF QueueOK, InOrder
<1>3. CASE ~gone
  <2>1. ASSUME NEW j \in DOMAIN Tail(queue), Tail(queue)[j] = Run("Aborted")
        PROVE  \E i \in 1..(j - 1) : Tail(queue)[i] \in Clearing
    <3>1. j \in Nat /\ j + 1 \in DOMAIN queue /\ queue[j + 1] = Run("Aborted")
      BY <1>1, <2>1
    <3>2. PICK i \in 1..j : queue[i] \in Clearing
      BY <1>3, <3>1 DEF QueueOK, InOrder
    <3>3. i # 1
      BY <1>1, <1>3, <3>2
    <3>4. i - 1 \in 1..(j - 1) /\ i - 1 \in 1..Len(Tail(queue)) /\ (i - 1) + 1 = i
      BY <1>1, <3>1, <3>2, <3>3
    <3>5. Tail(queue)[i - 1] = queue[i]
      BY <1>1, <3>4
    <3> QED BY <3>2, <3>4, <3>5
  <2>2. s \in Closing => Clears(Tail(queue))
    <3> SUFFICES ASSUME s \in Closing PROVE Clears(Tail(queue))
      OBVIOUS
    <3>1. PICK i \in DOMAIN queue : queue[i] \in Clearing
      BY <1>3 DEF QueueOK, Clears
    <3>2. i # 1
      BY <1>1, <1>3, <3>1
    <3>3. i - 1 \in 1..Len(Tail(queue)) /\ (i - 1) + 1 = i
      BY <1>1, <3>1, <3>2
    <3>4. Tail(queue)[i - 1] = queue[i] /\ i - 1 \in DOMAIN Tail(queue)
      BY <1>1, <3>3
    <3> QED BY <3>1, <3>4 DEF Clears
  <2>3. s # "Aborted" => \A i \in DOMAIN Tail(queue) : Tail(queue)[i] # Run("Aborted")
    BY <1>1 DEF QueueOK
  <2> QED BY <1>1, <2>1, <2>2, <2>3 DEF QueueOK, InOrder
<1> QED BY <1>2, <1>3

\* News that come, or are not meant for the connection any more, change nothing.
LEMMA NewsKeep ==
    ASSUME NEW queue \in Seq(PaceEvents), NEW news \in Seq(PaceEvents), NEW s, NEW gone,
           QueueOK(queue, gone, s), \A i \in DOMAIN news : news[i].type # "run"
    PROVE  queue \o news \in Seq(PaceEvents) /\ QueueOK(queue \o news, gone, s)
<1>1. /\ queue \o news \in Seq(PaceEvents) /\ Len(queue \o news) = Len(queue) + Len(news)
      /\ \A i \in 1..Len(queue \o news) :
            (queue \o news)[i] = IF i <= Len(queue) THEN queue[i] ELSE news[i - Len(queue)]
      /\ Len(queue) \in Nat /\ Len(news) \in Nat
  OBVIOUS
<1>2. ASSUME NEW j \in DOMAIN (queue \o news), (queue \o news)[j] = Run("Aborted")
      PROVE  j \in DOMAIN queue /\ queue[j] = Run("Aborted")
  BY <1>1, <1>2 DEF Run
<1>3. InOrder(queue \o news, gone)
  <2> SUFFICES ASSUME NEW j \in DOMAIN (queue \o news),
                      (queue \o news)[j] = Run("Aborted"), ~gone
               PROVE  \E i \in 1..(j - 1) : (queue \o news)[i] \in Clearing
    BY DEF InOrder
  <2>1. PICK i \in 1..(j - 1) : queue[i] \in Clearing
    BY <1>2 DEF QueueOK, InOrder
  <2> QED BY <1>1, <1>2, <2>1
<1>4. s \in Closing => gone \/ Clears(queue \o news)
  BY <1>1 DEF QueueOK, Clears
<1> QED BY <1>1, <1>2, <1>3, <1>4 DEF QueueOK

LEMMA ChangedKeep ==
    ASSUME NEW queue \in Seq(PaceEvents), NEW other \in Seq(PaceEvents), NEW s, NEW gone,
           QueueOK(queue, gone, s), DOMAIN other = DOMAIN queue,
           \A i \in DOMAIN queue : \/ other[i] = queue[i]
                                   \/ other[i].type # "run" /\ queue[i].type # "run"
    PROVE  QueueOK(other, gone, s)
<1>1. \A i \in DOMAIN queue : \A r : other[i] = Run(r) <=> queue[i] = Run(r)
  BY DEF Run
<1>2. \A i \in DOMAIN queue : other[i] \in Clearing <=> queue[i] \in Clearing
  BY <1>1 DEF Clearing
<1>3. \A j \in DOMAIN queue : 1..(j - 1) \subseteq DOMAIN queue
  OBVIOUS
<1> QED BY <1>1, <1>2, <1>3 DEF QueueOK, InOrder, Clears

LEMMA UndeliveredKeeps ==
    ASSUME NEW queue \in Seq(PaceEvents), NEW s, NEW gone, NEW old, QueueOK(queue, gone, s)
    PROVE  /\ Undelivered(queue, old) \in Seq(PaceEvents)
           /\ QueueOK(Undelivered(queue, old), gone, s)
<1> DEFINE other == Undelivered(queue, old)
<1>1. \A e \in PaceEvents : e.type = "connect" =>
          /\ [e EXCEPT !.wanted = FALSE] \in PaceEvents
          /\ [e EXCEPT !.wanted = FALSE].type = "connect"
  BY DEF PaceEvents, NewsTypes, Ops
<1>2. \A i \in DOMAIN queue : queue[i] \in PaceEvents
  OBVIOUS
<1>3. other \in Seq(PaceEvents) /\ DOMAIN other = DOMAIN queue
  BY <1>1, <1>2 DEF Undelivered
<1>4. \A i \in DOMAIN queue : \/ other[i] = queue[i]
                              \/ other[i].type # "run" /\ queue[i].type # "run"
  BY <1>1, <1>2 DEF Undelivered
<1>5. QueueOK(other, gone, s)
  BY <1>3, <1>4, ChangedKeep
<1> QED BY <1>3, <1>5

LEMMA UnsubscribedKeeps ==
    ASSUME NEW queue \in Seq(PaceEvents), NEW s, NEW gone, QueueOK(queue, gone, s)
    PROVE  /\ Unsubscribed(queue) \in Seq(PaceEvents)
           /\ QueueOK(Unsubscribed(queue), gone, s)
<1> DEFINE other == Unsubscribed(queue)
<1>1. \A e \in PaceEvents : e.type \in NewsTypes =>
          /\ [e EXCEPT !.subscribed = FALSE] \in PaceEvents
          /\ [e EXCEPT !.subscribed = FALSE].type = e.type /\ e.type # "run"
  BY DEF PaceEvents, NewsTypes, Ops
<1>2. \A i \in DOMAIN queue : queue[i] \in PaceEvents
  OBVIOUS
<1>3. other \in Seq(PaceEvents) /\ DOMAIN other = DOMAIN queue
  BY <1>1, <1>2 DEF Unsubscribed
<1>4. \A i \in DOMAIN queue : \/ other[i] = queue[i]
                              \/ other[i].type # "run" /\ queue[i].type # "run"
  BY <1>1, <1>2 DEF Unsubscribed
<1>5. QueueOK(other, gone, s)
  BY <1>3, <1>4, ChangedKeep
<1> QED BY <1>3, <1>5

LEMMA ForgottenTyped ==
    ASSUME NEW js \in Seq(PaceJobs), NEW s PROVE Forgotten(js, s) \in Seq(PaceJobs)
<1>1. \A j \in PaceJobs : [j EXCEPT !.wanted = FALSE] \in PaceJobs
  BY DEF PaceJobs
<1>2. \A i \in DOMAIN js : js[i] \in PaceJobs
  OBVIOUS
<1> QED BY <1>1, <1>2 DEF Forgotten

\* What is known of a card on a reader is what the events say of it.
LEMMA PolledNewsTyped ==
    ASSUME DataTyped, NEW r \in Readers, NEW b \in BOOLEAN
    PROVE  /\ PolledNews(r, b) \in Seq(PaceEvents)
           /\ \A i \in DOMAIN PolledNews(r, b) : PolledNews(r, b)[i].type # "run"
<1>1. slot[r] # NoCard => slot[r] \in Cards /\ counter[slot[r]] \in Counters
  BY DEF DataTyped, Secrets, Counters
<1>2. \A t \in NewsTypes, c \in Secrets, n \in Counters :
          News(t, r, c, n, b) \in PaceEvents /\ News(t, r, c, n, b).type # "run"
  BY DEF News, PaceEvents, NewsTypes
<1>3. CASE ~Noticed(r)
  BY <1>3 DEF PolledNews
<1>4. CASE Noticed(r) /\ slot[r] # NoCard
  BY <1>1, <1>2, <1>4 DEF PolledNews, NewsTypes, Secrets
<1>5. CASE Noticed(r) /\ slot[r] = NoCard
  BY <1>2, <1>5 DEF PolledNews, NewsTypes, Secrets, Counters
<1> QED BY <1>3, <1>4, <1>5

LEMMA AfterResetKeeps ==
    ASSUME DataTyped, NEW queue \in Seq(PaceEvents), NEW s, NEW gone, QueueOK(queue, gone, s)
    PROVE  AfterReset(queue) \in Seq(PaceEvents) /\ QueueOK(AfterReset(queue), gone, s)
<1>1. Unsubscribed(queue) \in Seq(PaceEvents) /\ QueueOK(Unsubscribed(queue), gone, s)
  BY UnsubscribedKeeps
<1>2. CASE readerName \in Readers
  BY <1>1, <1>2, PolledNewsTyped, NewsKeep DEF AfterReset
<1>3. CASE readerName \notin Readers
  BY <1>1, <1>3, NewsKeep DEF AfterReset
<1> QED BY <1>2, <1>3
-----------------------------------------------------------------------------
(* Leaving a state *)

LEMMA EnterKeeps ==
    ASSUME NEW queue \in Seq(PaceEvents), NEW js \in Seq(PaceJobs), NEW next \in Inner \cup Left,
           NEW gone, state # "Aborted", QueueOK(queue, gone, state),
           next \in {"DestroyPace", "Aborted"} => gone \/ Clears(queue),
           Enter(queue, js, next)
    PROVE  MachineTyped' /\ QueueOK(events', gone, state')
<1> DEFINE left == Undelivered(queue, state)
<1>1. left \in Seq(PaceEvents) /\ QueueOK(left, gone, state)
  BY UndeliveredKeeps
<1>2. next \in {"DestroyPace", "Aborted"} => gone \/ Clears(left)
  BY DEF Undelivered, Clearing, Run, Clears
<1>3. \A i \in DOMAIN left : left[i] # Run("Aborted")
  BY <1>1 DEF QueueOK
<1>4. state' = next /\ jobs' \in Seq(PaceJobs)
  BY ForgottenTyped DEF Enter
<1>5. CASE events' = left /\ next \in WaitsForUser
  BY <1>1, <1>3, <1>4, <1>5 DEF MachineTyped, QueueOK, InOrder, Closing, WaitsForUser
<1>6. CASE events' = Append(left, Run(next))
  <2>1. Run(next) \in PaceEvents
    BY RunTyped
  <2>2. /\ events' \in Seq(PaceEvents) /\ Len(events') = Len(left) + 1 /\ Len(left) \in Nat
        /\ \A i \in 1..Len(left) : events'[i] = left[i]
        /\ events'[Len(left) + 1] = Run(next)
    BY <1>1, <1>6, <2>1
  <2>3. Clears(left) => Clears(events')
    BY <2>2 DEF Clears
  <2>4. next \in Closing => gone \/ Clears(events')
    BY <1>2, <2>2, <2>3 DEF Closing, Clears, Clearing
  <2>5. InOrder(events', gone)
    <3> SUFFICES ASSUME NEW j \in DOMAIN events', events'[j] = Run("Aborted"), ~gone
                 PROVE  \E i \in 1..(j - 1) : events'[i] \in Clearing
      BY DEF InOrder
    <3>1. j = Len(left) + 1 /\ next = "Aborted"
      BY <1>3, <2>2 DEF Run
    <3>2. PICK i \in DOMAIN left : left[i] \in Clearing
      BY <1>2, <3>1 DEF Clears
    <3> QED BY <1>1, <2>2, <3>1, <3>2
  <2>6. next # "Aborted" => \A i \in DOMAIN events' : events'[i] # Run("Aborted")
    BY <1>3, <2>2 DEF Run
  <2> QED BY <1>4, <2>2, <2>4, <2>5, <2>6 DEF MachineTyped, QueueOK
<1> QED BY <1>5, <1>6 DEF Enter

\* A signal of a state, if it is active; else only the queue changes.
LEMMA FireKeeps ==
    ASSUME MachineTyped, NEW queue \in Seq(PaceEvents), NEW js \in Seq(PaceJobs),
           NEW s \in Inner, NEW next \in Inner \cup Left, NEW gone,
           QueueOK(queue, gone, state),
           state = s /\ next \in {"DestroyPace", "Aborted"} => gone \/ Clears(queue),
           FireWith(queue, js, s, next)
    PROVE  MachineTyped' /\ QueueOK(events', gone, state')
<1>1. CASE state = s
  BY <1>1, EnterKeeps DEF FireWith, Inner
<1>2. CASE state # s
  BY <1>2 DEF FireWith, MachineTyped
<1> QED BY <1>1, <1>2
-----------------------------------------------------------------------------
(* The next event, and what the readers and their threads say *)

ArrivedFits ==
    events # <<>> =>
        /\ Arrived.type \in NewsTypes \cup Ops => Arrived.reader \in Readers
        /\ Arrived.type \in NewsTypes => Arrived.counter \in Counters
CommandFits == jobs # <<>> /\ Command.op \in Ops => Command.reader \in Readers

LEMMA HeadTyped ==
    ASSUME MachineTyped, events # <<>>
    PROVE  Head(events) \in PaceEvents /\ Later \in Seq(PaceEvents) /\ ArrivedFits
<1>1. Head(events) \in PaceEvents /\ Later \in Seq(PaceEvents)
  BY DEF MachineTyped, Later
<1> QED BY <1>1 DEF ArrivedFits, Arrived, PaceEvents, NewsTypes, Ops

LEMMA LaterKeeps ==
    ASSUME PaceIInv, events # <<>>, NEW gone, pw = NoPasswords => gone,
           Head(events) \in Clearing => gone
    PROVE  Later \in Seq(PaceEvents) /\ QueueOK(Later, gone, state)
BY TailKeeps DEF PaceIInv, MachineTyped, Later

\* Any other event than run() of a state that clears the passwords.
LEMMA OtherKeeps ==
    ASSUME PaceIInv, events # <<>>, Head(events) \notin Clearing, pw' = pw \/ pw' = NoPasswords
    PROVE  Later \in Seq(PaceEvents) /\ QueueOK(Later, pw' = NoPasswords, state)
BY LaterKeeps

LEMMA DataKept ==
    ASSUME DataTyped, UNCHANGED <<pw, pwType, conn, info, session, slot, counter>>
    PROVE  DataTyped'
BY DEF DataTyped

LEMMA NoPasswordsTyped == NoPasswords \in [Types \cup {"NEW"} -> Secrets]
BY DEF NoPasswords, Secrets

LEMMA SessionsTyped ==
    ASSUME DataTyped, NEW rs PROVE Disconnected(rs) \in [Readers -> Secrets \cup {"dead"}]
BY DEF DataTyped, Disconnected, Secrets

LEMMA ResetTyped ==
    ASSUME DataTyped, ResetCardConnection, UNCHANGED <<pw, pwType, slot, counter>>
    PROVE  DataTyped'
<1>1. conn' \in Connections
  BY DEF ResetCardConnection, Connections
<1>2. session' \in [Readers -> Secrets \cup {"dead"}]
  BY SessionsTyped DEF ResetCardConnection
<1>3. \A r \in Readers : PolledInfo(r) \in Counters
  BY DEF DataTyped, PolledInfo, Counters, Secrets
<1>4. info' \in [Readers -> Counters]
  BY <1>3 DEF DataTyped, ResetCardConnection
<1> QED BY <1>1, <1>2, <1>4 DEF DataTyped

LEMMA FlagsTyped == ASSUME DataTyped PROVE PaceFlags \in Connections
<1> DEFINE ok == Arrived.code = "OK"
           can == ok /\ conn.can
           first == [conn EXCEPT !.can = ok]
           second == [conn EXCEPT !.pin = ok, !.can = can]
<1>1. ok \in BOOLEAN /\ can \in BOOLEAN
  OBVIOUS
<1>2. \/ PaceFlags = conn
      \/ conn # NoConn /\ PaceFlags = first
      \/ conn # NoConn /\ PaceFlags = second
  BY DEF PaceFlags
<1> HIDE DEF ok, can
<1>3. ASSUME conn # NoConn PROVE first \in Connections /\ second \in Connections
  BY <1>1, <1>3 DEF DataTyped, Connections
<1> QED BY <1>2, <1>3 DEF DataTyped
-----------------------------------------------------------------------------
(* run() of the states *)

LEMMA RunData == ASSUME DataTyped, RunStep PROVE DataTyped'
<1>0. DataTyped /\ NoPasswords \in [Types \cup {"NEW"} -> Secrets]
  BY NoPasswordsTyped
<1> USE DEF rest, readerSide, kept, context
<1>1. CASE MaintainAborts \/ MaintainContinues
  BY <1>0, <1>1, DataKept DEF MaintainAborts, MaintainContinues
<1>2. CASE MaintainAfterWrongPassword
  BY <1>0, <1>2 DEF MaintainAfterWrongPassword, DataTyped
<1>3. CASE MaintainAfterCardVanished
  BY <1>0, <1>3, ResetTyped DEF MaintainAfterCardVanished
<1>4. CASE ClearPacePasswordsOnError \/ ClearPacePasswordsBeforeDestroy
  BY <1>0, <1>4 DEF ClearPacePasswordsOnError, ClearPacePasswordsBeforeDestroy, ClearPasswords,
     DataTyped
<1>5. CASE \/ SelectReader \/ ConnectCard \/ UpdateRetryCounter \/ EnterPacePassword
           \/ EstablishAborts \/ UnfortunateCardPosition \/ DestroyPace
  BY <1>0, <1>5, DataKept DEF SelectReader, ConnectCard, UpdateRetryCounter, RunUpdate,
     EnterPacePassword, EstablishAborts, UnfortunateCardPosition,
     DestroyPace, RunDestroy
<1>6. CASE VerifyRetryCounter
  BY <1>0, <1>6 DEF VerifyRetryCounter, DataTyped
<1>7. CASE PreparePace
  BY <1>0, <1>7 DEF RequiredPassword, PaceTypes, Types, PreparePace, DataTyped
<1>8. CASE EstablishPaceChannel
  BY <1>0, <1>8, DataKept DEF EstablishPaceChannel, DataTyped
<1> QED
  BY <1>1, <1>2, <1>3, <1>4, <1>5, <1>6, <1>7, <1>8 DEF RunStep

\* A command that is invoked, or a connect, joins the jobs.
LEMMA JobTyped ==
    ASSUME NEW op \in Ops, NEW r \in Readers, NEW p \in PaceTypes, NEW s \in Secrets
    PROVE  Job(op, r, p, s) \in PaceJobs
BY DEF Job, PaceJobs

LEMMA ConnectJobsTyped ==
    ASSUME NEW js \in Seq(PaceJobs), NEW name, NEW known
    PROVE  js \o ConnectJobs(name, known) \in Seq(PaceJobs)
<1>1. ConnectJobs(name, known) \in Seq(PaceJobs)
  BY JobTyped DEF ConnectJobs, Ops, PaceTypes, Types, Secrets
<1> QED BY <1>1

LEMMA InvokeKeeps ==
    ASSUME MachineTyped, NEW queue \in Seq(PaceEvents), NEW job \in PaceJobs, NEW gone,
           QueueOK(queue, gone, state), Invoke(queue, job)
    PROVE  MachineTyped' /\ QueueOK(events', gone, state')
BY DEF Invoke, MachineTyped

LEMMA RunningKeeps ==
    ASSUME PaceIInv, NEW s, Running(s), s \notin {"ClearPacePasswordsOnError",
           "ClearPacePasswordsBeforeDestroy"}, pw' = pw \/ pw' = NoPasswords
    PROVE  Later \in Seq(PaceEvents) /\ QueueOK(Later, pw' = NoPasswords, state)
BY OtherKeeps DEF Running, Run, Clearing

LEMMA FiresOn ==
    ASSUME PaceIInv, NEW queue \in Seq(PaceEvents), NEW gone, QueueOK(queue, gone, state),
           NEW s \in Inner, NEW next \in Inner \cup {"Established"}, next # "DestroyPace",
           Fire(queue, s, next)
    PROVE  MachineTyped' /\ QueueOK(events', gone, state')
BY FireKeeps DEF PaceIInv, MachineTyped, Fire, Left, Inner

LEMMA RunMachine ==
    ASSUME PaceIInv, RunStep PROVE MachineTyped' /\ QueueOK(events', pw' = NoPasswords, state')
<1> DEFINE gone == pw' = NoPasswords
<1>0. MachineTyped /\ DataTyped /\ (conn # NoConn => conn.reader \in Readers)
  BY DEF PaceIInv, DataTyped, Connections
<1> USE DEF rest, readerSide, kept, context, Inner
<1>1. CASE MaintainAborts
  BY <1>1, RunningKeeps, FiresOn DEF MaintainAborts
<1>2. CASE MaintainAfterWrongPassword
  BY <1>2, RunningKeeps, FiresOn DEF MaintainAfterWrongPassword
<1>3. CASE MaintainAfterCardVanished
  BY <1>0, <1>3, RunningKeeps, AfterResetKeeps, FiresOn DEF MaintainAfterCardVanished
<1>4. CASE MaintainContinues
  BY <1>4, RunningKeeps, FiresOn DEF MaintainContinues
<1>5. CASE ClearPacePasswordsOnError
  <2>1. gone /\ events # <<>>
    BY <1>5 DEF ClearPacePasswordsOnError, ClearPasswords, Running
  <2>2. Later \in Seq(PaceEvents) /\ QueueOK(Later, gone, state)
    BY <2>1, LaterKeeps
  <2>3. CASE state \in Inner
    BY <1>0, <1>5, <2>1, <2>2, <2>3, EnterKeeps
       DEF ClearPacePasswordsOnError, Leave, Left, MachineTyped
  <2>4. CASE state \notin Inner
    BY <1>0, <1>5, <2>2, <2>4 DEF ClearPacePasswordsOnError, Leave, MachineTyped
  <2> QED BY <2>3, <2>4
<1>6. CASE ClearPacePasswordsBeforeDestroy
  <2>1. gone /\ events # <<>>
    BY <1>6 DEF ClearPacePasswordsBeforeDestroy, ClearPasswords, Running
  <2>2. Later \in Seq(PaceEvents) /\ QueueOK(Later, gone, state)
    BY <2>1, LaterKeeps
  <2>3. FireWith(Later, jobs, "ClearPacePasswordsBeforeDestroy", "DestroyPace")
    BY <1>6 DEF ClearPacePasswordsBeforeDestroy, Fire
  <2>4. jobs \in Seq(PaceJobs)
    BY <1>0 DEF MachineTyped
  <2> HIDE DEF rest, readerSide, kept, context
  <2> QED BY <1>0, <2>1, <2>2, <2>3, <2>4, FireKeeps
<1>7. CASE SelectReader
  BY <1>0, <1>7, RunningKeeps, EnterKeeps DEF SelectReader, MachineTyped
<1>8. CASE ConnectCard
  BY <1>0, <1>8, RunningKeeps, ConnectJobsTyped DEF ConnectCard, MachineTyped
<1>9. CASE UpdateRetryCounter
  <2>1. Later \in Seq(PaceEvents) /\ QueueOK(Later, gone, state)
    BY <1>9, RunningKeeps DEF UpdateRetryCounter, RunUpdate
  <2>2. CASE conn = NoConn
    BY <1>9, <2>1, <2>2, FiresOn DEF UpdateRetryCounter, RunUpdate
  <2>3. CASE conn # NoConn
    <3>1. Job("update", conn.reader, "PIN", NoCard) \in PaceJobs
      BY <1>0, <2>3, JobTyped DEF Ops, PaceTypes, Types, Secrets
    <3> QED BY <1>0, <1>9, <2>1, <2>3, <3>1, InvokeKeeps DEF UpdateRetryCounter, RunUpdate
  <2> QED BY <2>2, <2>3
<1>10. CASE VerifyRetryCounter
  BY <1>10, RunningKeeps, FiresOn DEF VerifyRetryCounter
<1>11. CASE PreparePace
  BY <1>11, RunningKeeps, FiresOn DEF PreparePace, AfterPreparePace
<1>12. CASE EnterPacePassword
  BY <1>12, RunningKeeps, FiresOn DEF EnterPacePassword
<1>13. CASE EstablishAborts
  BY <1>13, RunningKeeps, FiresOn DEF EstablishAborts
<1>14. CASE EstablishPaceChannel
  <2>1. Later \in Seq(PaceEvents) /\ QueueOK(Later, gone, state)
    BY <1>14, RunningKeeps DEF EstablishPaceChannel
  <2>2. CASE conn = NoConn \/ LacksPassword
    BY <1>14, <2>1, <2>2, FiresOn DEF EstablishPaceChannel
  <2>3. CASE ~(conn = NoConn \/ LacksPassword)
    <3>1. Password(pwType) \in Secrets /\ pwType \in PaceTypes
      BY <1>0 DEF Password, DataTyped, Secrets
    <3>2. Job("pace", conn.reader, pwType, Password(pwType)) \in PaceJobs
      BY <1>0, <2>3, <3>1, JobTyped DEF Ops
    <3> QED BY <1>0, <1>14, <2>1, <2>3, <3>2, InvokeKeeps DEF EstablishPaceChannel
  <2> QED BY <2>2, <2>3
<1>15. CASE UnfortunateCardPosition
  BY <1>15, RunningKeeps, FiresOn DEF UnfortunateCardPosition
<1>16. CASE DestroyPace
  <2>1. Later \in Seq(PaceEvents) /\ QueueOK(Later, gone, state)
    BY <1>16, RunningKeeps DEF DestroyPace, RunDestroy
  <2>2. Job("destroy", conn.reader, "PIN", NoCard) \in PaceJobs
    BY <1>0, <1>16, JobTyped DEF DestroyPace, RunDestroy, Ops, PaceTypes, Types, Secrets
  <2> QED BY <1>0, <1>16, <2>1, <2>2, InvokeKeeps DEF DestroyPace, RunDestroy
<1> QED
  BY <1>1, <1>2, <1>3, <1>4, <1>5, <1>6, <1>7, <1>8, <1>9, <1>10, <1>11, <1>12, <1>13,
     <1>14, <1>15, <1>16 DEF RunStep
-----------------------------------------------------------------------------
(* Results and news *)

LEMMA ResultData == ASSUME DataTyped, ArrivedFits, ResultStep PROVE DataTyped'
<1>0. /\ DataTyped /\ NoPasswords \in [Types \cup {"NEW"} -> Secrets]
      /\ PaceFlags \in Connections
  BY NoPasswordsTyped, FlagsTyped
<1> USE DEF rest, readerSide, kept, context, link, machine
<1>1. CASE ConnectSucceeds
  <2>1. Arrived.reader \in Readers
    BY <1>1 DEF ArrivedFits, ConnectSucceeds, Arrives, Arrived, NewsTypes, Ops
  <2>2. conn' \in Connections
    BY <1>0, <1>1, <2>1 DEF ConnectSucceeds, Connections, DataTyped
  <2> QED BY <1>0, <1>1, <2>2, SessionsTyped DEF ConnectSucceeds, DataTyped
<1>2. CASE ConnectFails \/ DestroyDone
  BY <1>0, <1>2, DataKept DEF ConnectFails, DestroyDone, Destroyed
<1>3. CASE ConnectForgotten
  BY <1>0, <1>3, SessionsTyped DEF ConnectForgotten, DataTyped
<1>4. CASE UpdateDone
  BY <1>0, <1>4, DataKept, ResetTyped DEF UpdateDone, Updated
<1>5. CASE PaceForgotten \/ PaceSucceeds \/ PaceRefused \/ PaceInvalidPin \/ PaceFails
  BY <1>0, <1>5
     DEF PaceForgotten, PaceSucceeds, PaceRefused, PaceInvalidPin, PaceFails, DataTyped
<1>6. CASE PaceVanished
  BY <1>0, <1>6, ResetTyped DEF PaceVanished
<1>7. CASE NewsArrives
  BY <1>0, <1>7 DEF ArrivedFits, NewsArrives, DataTyped, Connections, NewsTaken, Subscribed
<1> QED
  BY <1>1, <1>2, <1>3, <1>4, <1>5, <1>6, <1>7 DEF ResultStep

LEMMA ArrivalKeeps ==
    ASSUME PaceIInv, events # <<>>, Arrived.type \in NewsTypes \cup Ops,
           pw' = pw \/ pw' = NoPasswords
    PROVE  Later \in Seq(PaceEvents) /\ QueueOK(Later, pw' = NoPasswords, state)
<1>1. Head(events) \notin Clearing
  BY DEF Arrived, Clearing, Run, NewsTypes, Ops
<1> QED BY <1>1, OtherKeeps

LEMMA ResultMachine ==
    ASSUME PaceIInv, ResultStep PROVE MachineTyped' /\ QueueOK(events', pw' = NoPasswords, state')
<1> DEFINE gone == pw' = NoPasswords
<1>0. /\ MachineTyped /\ DataTyped
      /\ "connect" \in Ops /\ "update" \in Ops /\ "pace" \in Ops /\ "destroy" \in Ops
  BY DEF PaceIInv, Ops
<1> USE DEF rest, readerSide, kept, context, link, machine, Arrives, Arrived, Inner
<1>1. CASE ConnectSucceeds
  <2> DEFINE queue == Unsubscribed(Later)
  <2>1. Later \in Seq(PaceEvents) /\ QueueOK(Later, gone, state)
    BY <1>0, <1>1, ArrivalKeeps DEF ConnectSucceeds
  <2>2. queue \in Seq(PaceEvents) /\ QueueOK(queue, gone, state)
    BY <2>1, UnsubscribedKeeps
  <2>3. CASE UNCHANGED <<state, jobs>> /\ events' = queue
    BY <1>0, <2>2, <2>3 DEF MachineTyped
  <2>4. ASSUME NEW next \in {"MaintainCardConnection", "UpdateRetryCounter"},
               Fire(queue, "ConnectCard", next)
        PROVE  MachineTyped' /\ QueueOK(events', gone, state')
    BY <2>2, <2>4, FiresOn
  <2> QED BY <1>1, <2>3, <2>4 DEF ConnectSucceeds
<1>2. CASE ConnectFails
  BY <1>0, <1>2, ArrivalKeeps, FiresOn DEF ConnectFails
<1>3. CASE ConnectForgotten
  BY <1>0, <1>3, ArrivalKeeps DEF ConnectForgotten, MachineTyped
<1>4. CASE UpdateDone
  BY <1>0, <1>4, ArrivalKeeps, AfterResetKeeps, FiresOn DEF UpdateDone, Updated, MachineTyped
<1>5. CASE DestroyDone
  BY <1>0, <1>5, ArrivalKeeps, FiresOn DEF DestroyDone, Destroyed, MachineTyped
<1>6. CASE PaceForgotten
  BY <1>0, <1>6, ArrivalKeeps DEF PaceForgotten, MachineTyped
<1>7. CASE PaceSucceeds
  <2>1. Later \in Seq(PaceEvents) /\ QueueOK(Later, gone, state)
    BY <1>0, <1>7, ArrivalKeeps DEF PaceSucceeds
  <2>2. CASE state \in Inner /\ Enter(Later, jobs, "Established")
    BY <1>0, <2>1, <2>2, EnterKeeps DEF Left, MachineTyped
  <2>3. CASE UNCHANGED <<state, jobs>> /\ events' = Later
    BY <1>0, <2>1, <2>3 DEF MachineTyped
  <2>4. ASSUME NEW next \in {"ClearPacePasswordsBeforeDestroy", "MaintainCardConnection"},
               Fire(Later, "EstablishPaceChannel", next)
        PROVE  MachineTyped' /\ QueueOK(events', gone, state')
    BY <2>1, <2>4, FiresOn
  <2> QED BY <1>7, <2>2, <2>3, <2>4 DEF PaceSucceeds, Leave
<1>8. CASE PaceRefused
  BY <1>0, <1>8, ArrivalKeeps, FiresOn DEF PaceRefused
<1>9. CASE PaceInvalidPin
  BY <1>0, <1>9, ArrivalKeeps, FiresOn DEF PaceInvalidPin
<1>10. CASE PaceFails
  BY <1>0, <1>10, ArrivalKeeps, FiresOn DEF PaceFails
<1>11. CASE PaceVanished
  <2>1. Later \in Seq(PaceEvents) /\ QueueOK(Later, gone, state)
    BY <1>0, <1>11, ArrivalKeeps DEF PaceVanished
  <2>2. AfterReset(Later) \in Seq(PaceEvents) /\ QueueOK(AfterReset(Later), gone, state)
    BY <1>0, <2>1, AfterResetKeeps
  <2>3. PICK next \in {"UnfortunateCardPosition", "MaintainCardConnection"} :
            Fire(AfterReset(Later), "EstablishPaceChannel", next)
    BY <1>11 DEF PaceVanished
  <2> QED BY <2>2, <2>3, FiresOn
<1>12. CASE NewsArrives
  <2>1. Later \in Seq(PaceEvents) /\ QueueOK(Later, gone, state)
    BY <1>12, ArrivalKeeps DEF NewsArrives
  <2>2. PICK js \in Seq(PaceJobs) :
            \/ state = "SelectReader" /\ Enter(Later, js, "ConnectCard")
            \/ jobs' = js /\ events' = Later /\ UNCHANGED state
    <3>1. PICK name : LET js == jobs \o (IF "ConnectCard" \in armed /\ Arrived.type = "inserted"
                                         THEN ConnectJobs(name, cache') ELSE <<>>)
                      IN  \/ state = "SelectReader" /\ Enter(Later, js, "ConnectCard")
                          \/ jobs' = js /\ events' = Later /\ UNCHANGED state
      BY <1>12 DEF NewsArrives
    <3>2. jobs \in Seq(PaceJobs) /\ jobs \o <<>> \in Seq(PaceJobs)
      BY <1>0 DEF MachineTyped
    <3> QED BY <3>1, <3>2, ConnectJobsTyped
  <2>3. CASE state = "SelectReader" /\ Enter(Later, js, "ConnectCard")
    BY <1>0, <2>1, <2>3, EnterKeeps
  <2>4. CASE jobs' = js /\ events' = Later /\ UNCHANGED state
    BY <1>0, <2>1, <2>4 DEF MachineTyped
  <2> QED BY <2>2, <2>3, <2>4
<1> QED
  BY <1>1, <1>2, <1>3, <1>4, <1>5, <1>6, <1>7, <1>8, <1>9, <1>10, <1>11, <1>12 DEF ResultStep
-----------------------------------------------------------------------------
(* The reader thread, the readers and the user *)

LEMMA CommandTyped ==
    ASSUME MachineTyped, jobs # <<>>
    PROVE  /\ Command \in PaceJobs /\ Command.reader \in Readers
           /\ Command.op \in Ops /\ Command.password \in PaceTypes
           /\ CommandFits
<1>1. Command \in PaceJobs
  BY DEF Command, MachineTyped
<1> QED BY <1>1 DEF PaceJobs, CommandFits

LEMMA ReportKeeps ==
    ASSUME PaceIInv, jobs # <<>>, NEW news \in Seq(PaceEvents),
           \A i \in DOMAIN news : news[i].type # "run", NEW code \in Codes, Report(news, code)
    PROVE  /\ MachineTyped' /\ QueueOK(events', pw' = NoPasswords, state')
           /\ UNCHANGED <<pw, pwType, conn>>
<1> DEFINE done == Done(Command.op, Command.reader, Command.password, code, Command.wanted)
<1>0. MachineTyped /\ QueueOK(events, pw = NoPasswords, state) /\ events \in Seq(PaceEvents)
  BY DEF PaceIInv, MachineTyped
<1>1. done \in PaceEvents /\ done.type # "run"
  BY <1>0, CommandTyped DEF Done, PaceEvents, PaceJobs, Ops
<1>2. /\ events \o news \in Seq(PaceEvents)
      /\ QueueOK(events \o news, pw = NoPasswords, state)
  BY <1>0, NewsKeep
<1>3. <<done>> \in Seq(PaceEvents) /\ \A i \in DOMAIN <<done>> : <<done>>[i].type # "run"
  BY <1>1
<1>4. /\ (events \o news) \o <<done>> \in Seq(PaceEvents)
      /\ QueueOK((events \o news) \o <<done>>, pw = NoPasswords, state)
  BY <1>2, <1>3, NewsKeep
<1>5. events' = (events \o news) \o <<done>> /\ jobs' = Tail(jobs)
      /\ UNCHANGED <<state, pw, pwType, conn>>
  BY DEF Report, mainSide, context, link
<1> QED BY <1>0, <1>4, <1>5 DEF MachineTyped

LEMMA JudgedTyped ==
    ASSUME DataTyped, NEW r \in Readers, Alive(r), NEW p, NEW secret
    PROVE  Judged(r, p, secret).tries \in Tries /\ Judged(r, p, secret).code \in Codes
<1>1. counter[session[r]] \in Tries
  BY DEF DataTyped, Alive
<1>2. counter[session[r]] # 0 => counter[session[r]] - 1 \in Tries
  BY <1>1 DEF Tries
<1>3. 3 \in Tries
  BY DEF Tries
<1>4. \A code, tries, accepted : /\ Verdict(code, tries, accepted).tries = tries
                                 /\ Verdict(code, tries, accepted).code = code
  BY DEF Verdict
<1> QED BY <1>1, <1>2, <1>3, <1>4 DEF Judged, Codes, WrongPassword

LEMMA ReaderThreadData == ASSUME DataTyped, CommandFits, ReaderThread PROVE DataTyped'
<1>0. UNCHANGED <<pw, pwType, conn, slot>>
  BY DEF ReaderThread, ExecuteConnect, ExecuteUpdate, ExecuteDestroy, ExecutePace,
     ExecutePaceInVain, Report, mainSide, context, link, world
<1> DEFINE r == Command.reader
<1>1. CASE ExecuteConnect
  BY <1>0, <1>1 DEF ExecuteConnect, DataTyped
<1>2. CASE ExecuteUpdate
  <2>1. r \in Readers /\ UNCHANGED <<session, counter>>
    BY <1>2 DEF ExecuteUpdate, Executing, Command, CommandFits, Ops
  <2>2. Alive(r) => counter[session[r]] \in Counters
    BY DEF Alive, DataTyped, Counters
  <2>3. info' \in [Readers -> Counters]
    BY <1>2, <2>1, <2>2 DEF ExecuteUpdate, DataTyped
  <2> QED BY <1>0, <2>1, <2>3 DEF DataTyped
<1>3. CASE ExecuteDestroy \/ ExecutePaceInVain
  BY <1>0, <1>3 DEF ExecuteDestroy, ExecutePaceInVain, world, readerSide, DataTyped
<1>4. CASE ExecutePace
  <2>1. r \in Readers /\ Alive(r) /\ UNCHANGED <<info, session>>
    BY <1>4 DEF ExecutePace, ReachesCard, Executing, Command, CommandFits, Ops
  <2>2. PICK secret : Judge(Judged(r, Command.password, secret))
    BY <1>4 DEF ExecutePace
  <2>3. Judged(r, Command.password, secret).tries \in Tries
    BY <2>1, JudgedTyped
  <2>4. counter' \in [Cards -> Tries]
    BY <2>2, <2>3 DEF Judge, DataTyped
  <2> QED BY <1>0, <2>1, <2>4 DEF DataTyped
<1> QED BY <1>1, <1>2, <1>3, <1>4 DEF ReaderThread

LEMMA ReaderThreadKeeps == ASSUME PaceIInv, ReaderThread PROVE PaceIInv'
<1>0. /\ MachineTyped
      /\ <<>> \in Seq(PaceEvents) /\ \A i \in DOMAIN <<>> : <<>>[i].type # "run"
      /\ {"OK", "COMMAND_FAILED", "CARD_NOT_FOUND"} \subseteq Codes
      /\ jobs # <<>>
  BY DEF PaceIInv, Codes, Unrecoverable, ReaderThread, ExecuteConnect, ExecuteUpdate,
     ExecuteDestroy, ExecutePace, ExecutePaceInVain, ReachesCard, Executing
<1>d. DataTyped /\ DataTyped'
  BY <1>0, ReaderThreadData, CommandTyped DEF PaceIInv
<1>1. CASE ExecuteConnect
  <2>1. PICK code \in Codes : Report(<<>>, code)
    BY <1>0, <1>1 DEF ExecuteConnect
  <2> QED BY <1>0, <1>d, <2>1, ReportKeeps DEF PaceIInv
<1>2. CASE ExecuteUpdate
  <2> DEFINE r == Command.reader
             tries == counter[session[r]]
             news == <<News("retryCounter", r, session[r], tries, Subscribed(r))>>
  <2>1. r \in Readers
    BY <1>0, CommandTyped
  <2>2. Alive(r) => tries \in Counters /\ session[r] \in Secrets
    BY <1>d DEF Alive, DataTyped, Counters, Secrets
  <2>3. Alive(r) => News("retryCounter", r, session[r], tries, Subscribed(r)) \in PaceEvents
    BY <2>1, <2>2 DEF News, PaceEvents, NewsTypes, Subscribed
  <2>4. Alive(r) => news \in Seq(PaceEvents) /\ \A i \in DOMAIN news : news[i].type # "run"
    BY <2>3 DEF News
  <2>5. PICK told \in Seq(PaceEvents), code \in Codes :
            Report(told, code) /\ \A i \in DOMAIN told : told[i].type # "run"
    BY <1>0, <1>2, <2>4 DEF ExecuteUpdate
  <2> QED BY <1>0, <1>d, <2>5, ReportKeeps DEF PaceIInv
<1>3. CASE ExecuteDestroy \/ ExecutePaceInVain
  <2>1. \A r : NotAsked(r) \subseteq Codes
    BY DEF NotAsked, Codes, WrongPassword, Unrecoverable
  <2>2. PICK code \in Codes : Report(<<>>, code)
    BY <1>0, <1>3, <2>1 DEF ExecuteDestroy, ExecutePaceInVain
  <2> QED BY <1>0, <1>d, <2>2, ReportKeeps DEF PaceIInv
<1>4. CASE ExecutePace
  <2> DEFINE r == Command.reader
  <2>1. r \in Readers /\ Alive(r)
    BY <1>0, <1>4, CommandTyped DEF ExecutePace, ReachesCard
  <2>2. PICK secret : LET verdict == Judged(r, Command.password, secret)
                      IN  \/ Report(<<>>, verdict.code)
                          \/ \E code \in {"CARD_NOT_FOUND", "COMMAND_FAILED"} : Report(<<>>, code)
    BY <1>4 DEF ExecutePace
  <2>3. Judged(r, Command.password, secret).code \in Codes
    BY <1>d, <2>1, JudgedTyped
  <2>4. PICK code \in Codes : Report(<<>>, code)
    BY <1>0, <2>2, <2>3
  <2> QED BY <1>0, <1>d, <2>4, ReportKeeps DEF PaceIInv
<1> QED BY <1>1, <1>2, <1>3, <1>4 DEF ReaderThread

LEMMA PollData == ASSUME DataTyped, NEW r \in Readers, Poll(r) PROVE DataTyped'
<1>1. UNCHANGED <<pw, pwType, conn, slot, counter>>
  BY DEF Poll, machineSide, machine, context, link, world
<1>2. PolledInfo(r) \in Counters
  BY DEF PolledInfo, DataTyped, Counters, Secrets
<1>3. info' \in [Readers -> Counters] /\ session' \in [Readers -> Secrets \cup {"dead"}]
  BY <1>2 DEF Poll, DataTyped, Secrets
<1> QED BY <1>1, <1>3 DEF DataTyped

LEMMA PollKeeps == ASSUME PaceIInv, NEW r \in Readers, Poll(r) PROVE PaceIInv'
<1>0. /\ MachineTyped /\ DataTyped /\ QueueOK(events, pw = NoPasswords, state)
      /\ events \in Seq(PaceEvents) /\ Subscribed(r) \in BOOLEAN
  BY DEF PaceIInv, MachineTyped, Subscribed
<1>1. /\ events' = events \o PolledNews(r, Subscribed(r))
      /\ UNCHANGED <<state, jobs, pw, pwType, conn, slot, counter>>
  BY DEF Poll, machineSide, machine, context, link, world
<1>2. events' \in Seq(PaceEvents) /\ QueueOK(events', pw = NoPasswords, state)
  BY <1>0, <1>1, PolledNewsTyped, NewsKeep
<1>3. DataTyped'
  BY <1>0, PollData
<1> QED BY <1>0, <1>1, <1>2, <1>3 DEF PaceIInv, MachineTyped

LEMMA ApprovalKeeps ==
    ASSUME NEW queue \in Seq(PaceEvents), NEW s \in Inner, NEW gone, QueueOK(queue, gone, s)
    PROVE  /\ Append(queue, Run(s)) \in Seq(PaceEvents)
           /\ QueueOK(Append(queue, Run(s)), gone, s)
<1> DEFINE longer == Append(queue, Run(s))
<1>1. /\ longer \in Seq(PaceEvents) /\ Len(longer) = Len(queue) + 1 /\ Len(queue) \in Nat
      /\ \A i \in 1..Len(queue) : longer[i] = queue[i]
      /\ longer[Len(queue) + 1] = Run(s)
  BY RunTyped
<1>2. Run(s) # Run("Aborted") /\ s # "Aborted"
  BY DEF Run, Inner
<1>3. Clears(queue) => Clears(longer)
  BY <1>1 DEF Clears
<1>4. \A j \in DOMAIN longer : longer[j] # Run("Aborted")
  BY <1>1, <1>2 DEF QueueOK
<1> HIDE DEF longer
<1>5. QueueOK(longer, gone, s)
  BY <1>3, <1>4 DEF QueueOK, InOrder
<1> QED BY <1>1, <1>5 DEF longer

LEMMA CancelKeeps ==
    ASSUME PaceIInv, NEW kill \in BOOLEAN, UserCancels(kill) PROVE PaceIInv'
<1> DEFINE gone == pw = NoPasswords
<1>0. /\ MachineTyped /\ DataTyped /\ QueueOK(events, gone, state)
      /\ events \in Seq(PaceEvents) /\ jobs \in Seq(PaceJobs) /\ state \in Inner
  BY DEF PaceIInv, MachineTyped, UserCancels
<1>1. PICK queue \in {events, Append(events, Run(state))} : Enter(queue, jobs, AbortTarget)
  BY DEF UserCancels, Cancel
<1>2. queue \in Seq(PaceEvents) /\ QueueOK(queue, gone, state)
  BY <1>0, <1>1, ApprovalKeeps
<1>3. AbortTarget \in Inner \cup Left
  BY DEF AbortTarget, Inner, Left
<1>4. AbortTarget \in {"DestroyPace", "Aborted"} => gone \/ Clears(queue)
  BY <1>2 DEF AbortTarget, Closing, QueueOK
<1>5. MachineTyped' /\ QueueOK(events', gone, state')
  BY <1>0, <1>1, <1>2, <1>3, <1>4, EnterKeeps DEF Inner
<1>6. UNCHANGED <<pw, pwType, conn, info, session, slot, counter>>
  BY DEF UserCancels, Cancel, readerSide, world, link
<1>7. DataTyped'
  BY <1>0, <1>6, DataKept
<1> QED BY <1>5, <1>6, <1>7 DEF PaceIInv

LEMMA EnvironmentData == ASSUME DataTyped, Environment PROVE DataTyped'
<1> USE DEF machineSide, machine, context, link, reader, world, rest, readerSide, kept, untouched
<1>1. ASSUME NEW r \in Readers, TakeCard(r) PROVE DataTyped'
  BY <1>1 DEF TakeCard, DataTyped, Secrets
<1>2. ASSUME NEW r \in Readers, NEW c \in Cards, PutCard(r, c) PROVE DataTyped'
  BY <1>2 DEF PutCard, DataTyped, Secrets
<1>3. CASE UserEntersPassword
  BY <1>3 DEF UserEntersPassword, DataTyped, Secrets
<1>4. CASE UserMovesCard \/ UserChangesReaders
  BY <1>4, DataKept DEF UserMovesCard, UserChangesReaders
<1>5. ASSUME NEW kill \in BOOLEAN, UserCancels(kill) PROVE DataTyped'
  BY <1>5, DataKept DEF UserCancels, Cancel
<1> QED BY <1>1, <1>2, <1>3, <1>4, <1>5 DEF Environment

LEMMA EnvironmentKeeps == ASSUME PaceIInv, Environment PROVE PaceIInv'
<1>0. /\ MachineTyped /\ QueueOK(events, pw = NoPasswords, state)
      /\ events \in Seq(PaceEvents) /\ jobs \in Seq(PaceJobs)
  BY DEF PaceIInv, MachineTyped
<1>d. DataTyped'
  BY EnvironmentData DEF PaceIInv
<1> USE DEF machineSide, machine, context, link, reader, world, rest, readerSide, kept, untouched,
        Approve
<1>1. CASE \E r \in Readers : TakeCard(r) \/ \E c \in Cards : PutCard(r, c)
  BY <1>d, <1>0, <1>1 DEF TakeCard, PutCard, PaceIInv, MachineTyped
<1>3. CASE UserEntersPassword
  <2>1. state = "EnterPacePassword" /\ state \in Inner /\ state \notin Closing
    BY <1>3 DEF UserEntersPassword, Inner, Closing
  <2>2. QueueOK(events, pw' = NoPasswords, state)
    BY <1>0, <2>1 DEF QueueOK, InOrder
  <2>3. events' = Append(events, Run(state)) /\ UNCHANGED <<state, jobs>>
    BY <1>3 DEF UserEntersPassword
  <2>4. MachineTyped' /\ QueueOK(events', pw' = NoPasswords, state')
    BY <1>0, <2>1, <2>2, <2>3, ApprovalKeeps DEF MachineTyped
  <2> QED BY <1>d, <2>4 DEF PaceIInv
<1>4. CASE UserMovesCard
  BY <1>d, <1>0, <1>4, ApprovalKeeps DEF UserMovesCard, Inner, MachineTyped, PaceIInv
<1>5. CASE UserChangesReaders
  BY <1>d, <1>0, <1>5, EnterKeeps DEF UserChangesReaders, Inner, PaceIInv
<1>6. ASSUME NEW kill \in BOOLEAN, UserCancels(kill) PROVE PaceIInv'
  BY <1>6, CancelKeeps
<1> QED BY <1>1, <1>3, <1>4, <1>5, <1>6 DEF Environment

LEMMA NextStateRunsKeeps == ASSUME PaceIInv, NextStateRuns PROVE PaceIInv'
<1>1. /\ events # <<>> /\ Head(events) \notin Clearing /\ events' = Later
      /\ UNCHANGED <<state, jobs, pw, pwType, conn, info, session, slot, counter>>
  BY DEF NextStateRuns, machine, kept, rest, readerSide, context, Clearing, Run, Left
<1>2. Later \in Seq(PaceEvents) /\ QueueOK(Later, pw' = NoPasswords, state)
  BY <1>1, OtherKeeps
<1> QED BY <1>1, <1>2, DataKept DEF PaceIInv, MachineTyped
-----------------------------------------------------------------------------
(* The invariant *)

LEMMA InitPace == Init => PaceIInv
<1> SUFFICES ASSUME Init PROVE PaceIInv
  OBVIOUS
<1> DEFINE s == "MaintainCardConnection"
<1>1. s \in Inner /\ Run(s) \in PaceEvents /\ s \notin Closing
  BY RunTyped DEF Inner, Closing
<1>2. /\ events \in Seq(PaceEvents) /\ events = <<Run(s)>> /\ state = s
      /\ jobs \in Seq(PaceJobs)
  BY <1>1 DEF Init
<1>3. \A j \in DOMAIN events : events[j] # Run("Aborted")
  BY <1>2 DEF Run
<1>4. QueueOK(events, pw = NoPasswords, state)
  BY <1>1, <1>2, <1>3 DEF QueueOK, InOrder
<1>5. slot \in [Readers -> Secrets] /\ counter \in [Cards -> Tries]
  BY PaceAssumption DEF Init, Tries
<1>6. info \in [Readers -> Counters]
  BY <1>5 DEF Init, Counters, Secrets
<1>7. pw \in [Types \cup {"NEW"} -> Secrets]
  BY NoPasswordsTyped DEF Init
<1>8. DataTyped
  BY <1>5, <1>6, <1>7 DEF Init, DataTyped, PaceTypes, Connections, Secrets
<1> QED BY <1>1, <1>2, <1>4, <1>8 DEF PaceIInv, MachineTyped

LEMMA StepPace == PaceIInv /\ [Next]_vars => PaceIInv'
<1> SUFFICES ASSUME PaceIInv, [Next]_vars PROVE PaceIInv'
  OBVIOUS
<1>1. CASE RunStep
  BY <1>1, RunData, RunMachine DEF PaceIInv
<1>2. CASE ResultStep
  BY <1>2, HeadTyped, ResultData, ResultMachine DEF PaceIInv, ArrivedFits
<1>3. CASE ReaderThread
  BY <1>3, ReaderThreadKeeps
<1>4. CASE Environment
  BY <1>4, EnvironmentKeeps
<1>5. CASE \E r \in Readers : Poll(r)
  BY <1>5, PollKeeps
<1>6. CASE NextStateRuns
  BY <1>6, NextStateRunsKeeps
<1>7. CASE UNCHANGED vars
  BY <1>7 DEF PaceIInv, MachineTyped, DataTyped, vars, machine, context, link, reader, world
<1> QED BY <1>1, <1>2, <1>3, <1>4, <1>5, <1>6, <1>7 DEF Next, PaceStep, MainThread

\* In every reachable state an abort waits in the queue behind the run() that
\* clears the passwords, or they are gone already; a state from which a
\* cancellation leads to an abort is active only while this is so.
THEOREM PaceInvariant == Spec => []PaceIInv
<1> QED BY InitPace, StepPace, PTL DEF Spec

\* When the state after an abort begins to run, no password is left in the
\* context: wherever the user cancelled, kills the workflow or takes the card,
\* and whatever of the readers and the state machine was still in the queue.
\* StateGenericSendReceive and the destructor of the context assert it.
THEOREM PasswordsNeverOutliveAbort == Spec => []PasswordsClearedOnAbort
<1>1. PaceIInv => PasswordsClearedOnAbort
  <2> SUFFICES ASSUME PaceIInv, Running("Aborted") PROVE pw = NoPasswords
    BY DEF PasswordsClearedOnAbort
  <2>1. 1 \in DOMAIN events /\ events[1] = Run("Aborted")
    BY DEF PaceIInv, MachineTyped, Running
  <2> QED BY <2>1 DEF PaceIInv, QueueOK, InOrder
<1> QED BY <1>1, PaceInvariant, PTL
-----------------------------------------------------------------------------
(* What the queues are about: run() of which states, results and commands of *)
(* which kinds.                                                              *)

LEMMA NoneIsFew == \A seq, K : None(seq, K) => Few(seq, K)
BY DEF None, Few

LEMMA TailFewer ==
    ASSUME NEW S, NEW seq \in Seq(S), seq # <<>>, NEW K
    PROVE  /\ None(seq, K) => None(Tail(seq), K)
           /\ Few(seq, K) => Few(Tail(seq), K)
           /\ Few(seq, K) /\ Head(seq) \in K => None(Tail(seq), K)
<1> DEFINE rest_ == Tail(seq)
<1>1. /\ rest_ \in Seq(S) /\ Len(rest_) = Len(seq) - 1 /\ Len(seq) \in Nat \ {0}
      /\ \A i \in 1..Len(rest_) : rest_[i] = seq[i + 1]
      /\ Head(seq) = seq[1]
  OBVIOUS
<1> HIDE DEF rest_
<1>2. \A i \in DOMAIN rest_ : i + 1 \in DOMAIN seq /\ rest_[i] = seq[i + 1] /\ i + 1 # 1
  BY <1>1
<1>3. 1 \in DOMAIN seq
  BY <1>1
<1>4. \A i, j \in DOMAIN rest_ : i + 1 = j + 1 => i = j
  BY <1>1
<1>5. None(seq, K) => None(rest_, K)
  BY <1>2 DEF None
<1>6. Few(seq, K) => Few(rest_, K)
  BY <1>2, <1>4 DEF Few
<1>7. Few(seq, K) /\ Head(seq) \in K => None(rest_, K)
  BY <1>1, <1>2, <1>3 DEF Few, None
<1> QED BY <1>5, <1>6, <1>7 DEF rest_

LEMMA MoreFew ==
    ASSUME NEW S, NEW seq \in Seq(S), NEW new \in Seq(S), NEW K
    PROVE  /\ None(seq, K) /\ None(new, K) => None(seq \o new, K)
           /\ Few(seq, K) /\ None(new, K) => Few(seq \o new, K)
           /\ None(seq, K) /\ Few(new, K) => Few(seq \o new, K)
<1> DEFINE long == seq \o new
<1>1. /\ long \in Seq(S) /\ Len(long) = Len(seq) + Len(new)
      /\ Len(seq) \in Nat /\ Len(new) \in Nat
      /\ \A i \in 1..Len(long) :
            long[i] = IF i <= Len(seq) THEN seq[i] ELSE new[i - Len(seq)]
  OBVIOUS
<1> HIDE DEF long
<1>2. \A i \in DOMAIN long : \/ i \in DOMAIN seq /\ long[i] = seq[i]
                             \/ /\ i - Len(seq) \in DOMAIN new /\ long[i] = new[i - Len(seq)]
                                /\ i = (i - Len(seq)) + Len(seq)
  BY <1>1
<1>3. None(seq, K) /\ None(new, K) => None(long, K)
  BY <1>2 DEF None
<1>4. Few(seq, K) /\ None(new, K) => Few(long, K)
  BY <1>2 DEF None, Few
<1>5. None(seq, K) /\ Few(new, K) => Few(long, K)
  BY <1>2 DEF None, Few
<1> QED BY <1>3, <1>4, <1>5 DEF long

LEMMA OneFew ==
    ASSUME NEW x, NEW K
    PROVE  Few(<<x>>, K) /\ (x \notin K => None(<<x>>, K)) /\ None(<<>>, K)
BY DEF Few, None

LEMMA KindTyped == \A e \in PaceEvents : Kind(e) \in AllKinds
BY DEF Kind, PaceEvents, AllKinds, NewsTypes, Ops

LEMMA KindsTyped ==
    ASSUME NEW queue \in Seq(PaceEvents)
    PROVE  /\ Kinds(queue) \in Seq(AllKinds) /\ DOMAIN Kinds(queue) = DOMAIN queue
           /\ Len(Kinds(queue)) = Len(queue)
<1>1. \A i \in DOMAIN queue : Kind(queue[i]) \in AllKinds
  BY KindTyped
<1>2. DOMAIN queue = 1..Len(queue) /\ Len(queue) \in Nat
  OBVIOUS
<1> QED BY <1>1, <1>2 DEF Kinds

LEMMA TailOf ==
    ASSUME NEW S, NEW seq \in Seq(S), Len(seq) > 0
    PROVE  /\ seq # <<>> /\ Tail(seq) \in Seq(S) /\ Len(Tail(seq)) = Len(seq) - 1
           /\ \A i \in 1..(Len(seq) - 1) : Tail(seq)[i] = seq[i + 1]
           /\ Head(seq) = seq[1]
OBVIOUS

LEMMA KindsTail ==
    ASSUME NEW queue \in Seq(PaceEvents), queue # <<>>
    PROVE  /\ Kinds(Tail(queue)) = Tail(Kinds(queue)) /\ Kinds(queue) # <<>>
           /\ Head(Kinds(queue)) = Kind(Head(queue))
<1>1. Kinds(queue) \in Seq(AllKinds) /\ Len(Kinds(queue)) = Len(queue)
  BY KindsTyped
<1>2. /\ Tail(queue) \in Seq(PaceEvents) /\ Len(Tail(queue)) = Len(queue) - 1
      /\ Len(queue) \in Nat \ {0} /\ \A i \in 1..Len(Tail(queue)) : Tail(queue)[i] = queue[i + 1]
      /\ Head(queue) = queue[1]
  OBVIOUS
<1>3. Len(Kinds(queue)) > 0 /\ Kinds(queue) # <<>>
  BY <1>1, <1>2
<1>4. /\ Tail(Kinds(queue)) \in Seq(AllKinds) /\ Len(Tail(Kinds(queue))) = Len(queue) - 1
      /\ \A i \in 1..(Len(queue) - 1) : Tail(Kinds(queue))[i] = Kinds(queue)[i + 1]
      /\ Head(Kinds(queue)) = Kinds(queue)[1]
  BY <1>1, <1>3, TailOf, Zenon
<1>5. Kinds(Tail(queue)) \in Seq(AllKinds) /\ Len(Kinds(Tail(queue))) = Len(queue) - 1
  BY <1>2, KindsTyped, Zenon
<1>6. \A i \in 1..(Len(queue) - 1) : Kinds(Tail(queue))[i] = Tail(Kinds(queue))[i]
  BY <1>2, <1>4 DEF Kinds
<1>7. Kinds(Tail(queue)) = Tail(Kinds(queue))
  BY <1>4, <1>5, <1>6
<1>8. Kinds(queue)[1] = Kind(queue[1])
  BY <1>2 DEF Kinds
<1> QED BY <1>2, <1>3, <1>4, <1>7, <1>8

LEMMA Concatenated ==
    ASSUME NEW S, NEW s \in Seq(S), NEW t \in Seq(S), NEW u \in Seq(S),
           Len(u) = Len(s) + Len(t), \A i \in 1..Len(s) : u[i] = s[i],
           \A i \in 1..Len(t) : u[Len(s) + i] = t[i]
    PROVE  u = s \o t
<1>1. /\ s \o t \in Seq(S) /\ Len(s \o t) = Len(u) /\ Len(s) \in Nat /\ Len(t) \in Nat
      /\ \A i \in 1..Len(u) : (s \o t)[i] = IF i <= Len(s) THEN s[i] ELSE t[i - Len(s)]
  OBVIOUS
<1>2. ASSUME NEW i \in 1..Len(u) PROVE (s \o t)[i] = u[i]
  <2>1. CASE i <= Len(s)
    BY <1>1, <2>1
  <2>2. CASE ~(i <= Len(s))
    BY <1>1, <2>2
  <2> QED BY <2>1, <2>2
<1> QED BY <1>1, <1>2

LEMMA KindsJoin ==
    ASSUME NEW queue \in Seq(PaceEvents), NEW new \in Seq(PaceEvents)
    PROVE  queue \o new \in Seq(PaceEvents) /\ Kinds(queue \o new) = Kinds(queue) \o Kinds(new)
<1> DEFINE long == queue \o new
<1>1. /\ long \in Seq(PaceEvents) /\ Len(long) = Len(queue) + Len(new)
      /\ Len(queue) \in Nat /\ Len(new) \in Nat
      /\ \A i \in 1..Len(long) :
            long[i] = IF i <= Len(queue) THEN queue[i] ELSE new[i - Len(queue)]
  OBVIOUS
<1> HIDE DEF long
<1>2. /\ Kinds(queue) \in Seq(AllKinds) /\ Len(Kinds(queue)) = Len(queue)
      /\ Kinds(new) \in Seq(AllKinds) /\ Len(Kinds(new)) = Len(new)
      /\ Kinds(long) \in Seq(AllKinds) /\ Len(Kinds(long)) = Len(long)
  BY <1>1, KindsTyped
<1>3. ASSUME NEW i \in 1..Len(queue) PROVE Kinds(long)[i] = Kinds(queue)[i]
  BY <1>1 DEF Kinds
<1>4. ASSUME NEW i \in 1..Len(new) PROVE Kinds(long)[Len(queue) + i] = Kinds(new)[i]
  <2>1. /\ Len(queue) + i \in 1..Len(long) /\ (Len(queue) + i) - Len(queue) = i
        /\ ~(Len(queue) + i <= Len(queue))
    BY <1>1
  <2>2. long[Len(queue) + i] = new[i]
    BY <1>1, <2>1
  <2> QED BY <2>1, <2>2 DEF Kinds
<1>5. /\ Len(Kinds(long)) = Len(Kinds(queue)) + Len(Kinds(new))
      /\ \A i \in 1..Len(Kinds(queue)) : Kinds(long)[i] = Kinds(queue)[i]
      /\ \A i \in 1..Len(Kinds(new)) : Kinds(long)[Len(Kinds(queue)) + i] = Kinds(new)[i]
  BY <1>1, <1>2, <1>3, <1>4
<1>6. Kinds(long) = Kinds(queue) \o Kinds(new)
  BY <1>2, <1>5, Concatenated
<1> QED BY <1>1, <1>6 DEF long

LEMMA KindsSame ==
    ASSUME NEW queue \in Seq(PaceEvents), NEW s
    PROVE  Kinds(Undelivered(queue, s)) = Kinds(queue) /\ Kinds(Unsubscribed(queue)) = Kinds(queue)
<1>1. \A i \in DOMAIN queue : queue[i] \in PaceEvents
  OBVIOUS
<1>2. \A e \in PaceEvents :
          /\ e.type = "connect" => Kind([e EXCEPT !.wanted = FALSE]) = Kind(e)
          /\ e.type \in NewsTypes => Kind([e EXCEPT !.subscribed = FALSE]) = Kind(e)
  BY DEF PaceEvents, Kind, NewsTypes, Ops
<1>3. \A i \in DOMAIN queue : /\ Kind(Undelivered(queue, s)[i]) = Kind(queue[i])
                              /\ Kind(Unsubscribed(queue)[i]) = Kind(queue[i])
  BY <1>1, <1>2 DEF Undelivered, Unsubscribed
<1>4. DOMAIN Undelivered(queue, s) = DOMAIN queue /\ DOMAIN Unsubscribed(queue) = DOMAIN queue
  BY DEF Undelivered, Unsubscribed
<1> QED BY <1>3, <1>4 DEF Kinds

LEMMA KindsOne ==
    ASSUME NEW e \in PaceEvents
    PROVE  /\ <<e>> \in Seq(PaceEvents) /\ Kinds(<<e>>) = <<Kind(e)>> /\ Kind(e) \in AllKinds
           /\ \A queue \in Seq(PaceEvents) : Kinds(Append(queue, e)) = Kinds(queue) \o <<Kind(e)>>
<1>1. <<e>> \in Seq(PaceEvents) /\ Kind(e) \in AllKinds
  BY KindTyped
<1>2. Kinds(<<e>>) = <<Kind(e)>>
  BY DEF Kinds
<1>3. ASSUME NEW queue \in Seq(PaceEvents)
      PROVE  Kinds(Append(queue, e)) = Kinds(queue) \o <<Kind(e)>>
  <2>1. Append(queue, e) = queue \o <<e>>
    OBVIOUS
  <2> QED BY <1>1, <1>2, <2>1, KindsJoin
<1> QED BY <1>1, <1>2, <1>3

LEMMA CommandsTyped ==
    ASSUME NEW js \in Seq(PaceJobs), NEW s
    PROVE  /\ Commands(js) \in Seq(Ops) /\ DOMAIN Commands(js) = DOMAIN js
           /\ Len(Commands(js)) = Len(js) /\ Commands(Forgotten(js, s)) = Commands(js)
<1>1. \A i \in DOMAIN js : js[i] \in PaceJobs
  OBVIOUS
<1>2. \A j \in PaceJobs : j.op \in Ops /\ [j EXCEPT !.wanted = FALSE].op = j.op
  BY DEF PaceJobs
<1>3. DOMAIN js = 1..Len(js) /\ Len(js) \in Nat
  OBVIOUS
<1>4. Commands(js) \in Seq(Ops) /\ DOMAIN Commands(js) = DOMAIN js /\ Len(Commands(js)) = Len(js)
  BY <1>1, <1>2, <1>3 DEF Commands
<1>5. /\ DOMAIN Forgotten(js, s) = DOMAIN js
      /\ \A i \in DOMAIN js : Forgotten(js, s)[i].op = js[i].op
  BY <1>1, <1>2 DEF Forgotten
<1>6. Commands(Forgotten(js, s)) = Commands(js)
  BY <1>5 DEF Commands
<1> QED BY <1>4, <1>6

LEMMA CommandsTail ==
    ASSUME NEW js \in Seq(PaceJobs), js # <<>>
    PROVE  /\ Commands(Tail(js)) = Tail(Commands(js)) /\ Commands(js) # <<>>
           /\ Head(Commands(js)) = Head(js).op /\ Tail(js) \in Seq(PaceJobs)
<1>1. Commands(js) \in Seq(Ops) /\ Len(Commands(js)) = Len(js)
  BY CommandsTyped
<1>2. /\ Tail(js) \in Seq(PaceJobs) /\ Len(Tail(js)) = Len(js) - 1
      /\ Len(js) \in Nat \ {0} /\ \A i \in 1..Len(Tail(js)) : Tail(js)[i] = js[i + 1]
      /\ Head(js) = js[1]
  OBVIOUS
<1>3. Len(Commands(js)) > 0 /\ Commands(js) # <<>>
  BY <1>1, <1>2
<1>4. /\ Tail(Commands(js)) \in Seq(Ops) /\ Len(Tail(Commands(js))) = Len(js) - 1
      /\ \A i \in 1..(Len(js) - 1) : Tail(Commands(js))[i] = Commands(js)[i + 1]
      /\ Head(Commands(js)) = Commands(js)[1]
  BY <1>1, <1>3, TailOf, Zenon
<1>5. Commands(Tail(js)) \in Seq(Ops) /\ Len(Commands(Tail(js))) = Len(js) - 1
  BY <1>2, CommandsTyped, Zenon
<1>6. \A i \in 1..(Len(js) - 1) : Commands(Tail(js))[i] = Tail(Commands(js))[i]
  BY <1>2, <1>4 DEF Commands
<1>7. Commands(Tail(js)) = Tail(Commands(js))
  BY <1>4, <1>5, <1>6
<1>8. Commands(js)[1] = js[1].op
  BY <1>2 DEF Commands
<1> QED BY <1>2, <1>3, <1>4, <1>7, <1>8

LEMMA CommandsJoin ==
    ASSUME NEW js \in Seq(PaceJobs), NEW new \in Seq(PaceJobs)
    PROVE  js \o new \in Seq(PaceJobs) /\ Commands(js \o new) = Commands(js) \o Commands(new)
<1> DEFINE long == js \o new
<1>1. /\ long \in Seq(PaceJobs) /\ Len(long) = Len(js) + Len(new)
      /\ Len(js) \in Nat /\ Len(new) \in Nat
      /\ \A i \in 1..Len(long) :
            long[i] = IF i <= Len(js) THEN js[i] ELSE new[i - Len(js)]
  OBVIOUS
<1> HIDE DEF long
<1>2. /\ Commands(js) \in Seq(Ops) /\ Len(Commands(js)) = Len(js)
      /\ Commands(new) \in Seq(Ops) /\ Len(Commands(new)) = Len(new)
      /\ Commands(long) \in Seq(Ops) /\ Len(Commands(long)) = Len(long)
  BY <1>1, CommandsTyped
<1>3. ASSUME NEW i \in 1..Len(js) PROVE Commands(long)[i] = Commands(js)[i]
  BY <1>1 DEF Commands
<1>4. ASSUME NEW i \in 1..Len(new) PROVE Commands(long)[Len(js) + i] = Commands(new)[i]
  <2>1. /\ Len(js) + i \in 1..Len(long) /\ (Len(js) + i) - Len(js) = i
        /\ ~(Len(js) + i <= Len(js))
    BY <1>1
  <2>2. long[Len(js) + i] = new[i]
    BY <1>1, <2>1
  <2> QED BY <2>1, <2>2 DEF Commands
<1>5. /\ Len(Commands(long)) = Len(Commands(js)) + Len(Commands(new))
      /\ \A i \in 1..Len(Commands(js)) : Commands(long)[i] = Commands(js)[i]
      /\ \A i \in 1..Len(Commands(new)) : Commands(long)[Len(Commands(js)) + i] = Commands(new)[i]
  BY <1>1, <1>2, <1>3, <1>4
<1>6. Commands(long) = Commands(js) \o Commands(new)
  BY <1>2, <1>5, Concatenated
<1> QED BY <1>1, <1>6 DEF long

LEMMA CommandsOne ==
    ASSUME NEW j \in PaceJobs
    PROVE  /\ <<j>> \in Seq(PaceJobs) /\ Commands(<<j>>) = <<j.op>> /\ j.op \in Ops
           /\ \A js \in Seq(PaceJobs) :
                  /\ Append(js, j) \in Seq(PaceJobs)
                  /\ Commands(Append(js, j)) = Commands(js) \o <<j.op>>
<1>1. <<j>> \in Seq(PaceJobs) /\ j.op \in Ops
  BY DEF PaceJobs
<1>2. Commands(<<j>>) = <<j.op>>
  BY DEF Commands
<1>3. ASSUME NEW js \in Seq(PaceJobs)
      PROVE  Append(js, j) \in Seq(PaceJobs) /\ Commands(Append(js, j)) = Commands(js) \o <<j.op>>
  <2>1. Append(js, j) = js \o <<j>>
    OBVIOUS
  <2> QED BY <1>1, <1>2, <2>1, CommandsJoin
<1> QED BY <1>1, <1>2, <1>3
-----------------------------------------------------------------------------
(* One thing at a time *)

\* "kept" has lost elements of "seq" or won some in H.
Grown(seq, kept_, H) ==
    \A K : K \cap H = {} => /\ None(seq, K) => None(kept_, K)
                            /\ Few(seq, K) => Few(kept_, K)

LEMMA GrownSame == \A seq, H : Grown(seq, seq, H)
BY DEF Grown

LEMMA GrownTwice ==
    ASSUME NEW s, NEW t, NEW u, NEW G, NEW H, Grown(s, t, G), Grown(t, u, H), G \subseteq H
    PROVE  Grown(s, u, H)
<1> SUFFICES ASSUME NEW K, K \cap H = {}
             PROVE  (None(s, K) => None(u, K)) /\ (Few(s, K) => Few(u, K))
  BY DEF Grown
<1>1. K \cap G = {}
  OBVIOUS
<1> QED BY <1>1 DEF Grown

LEMMA GrownTail ==
    ASSUME NEW S, NEW seq \in Seq(S), seq # <<>>, NEW H
    PROVE  Grown(seq, Tail(seq), H)
BY TailFewer DEF Grown

LEMMA GrownMore ==
    ASSUME NEW S, NEW seq \in Seq(S), NEW new \in Seq(S), NEW H, \A i \in DOMAIN new : new[i] \in H
    PROVE  Grown(seq, seq \o new, H)
<1> SUFFICES ASSUME NEW K, K \cap H = {}
             PROVE  /\ None(seq, K) => None(seq \o new, K)
                    /\ Few(seq, K) => Few(seq \o new, K)
  BY DEF Grown
<1>1. None(new, K)
  BY DEF None
<1> QED BY <1>1, MoreFew

\* The queue behind the next event.
LEMMA LaterKinds ==
    ASSUME MachineTyped, events # <<>>
    PROVE  /\ Later \in Seq(PaceEvents) /\ Kinds(Later) = Tail(Kinds(events))
           /\ Kinds(events) \in Seq(AllKinds) /\ Kinds(events) # <<>>
           /\ Head(Kinds(events)) = Kind(Head(events)) /\ Head(events) \in PaceEvents
           /\ 1 \in DOMAIN Kinds(events) /\ Kinds(events)[1] = Kind(Head(events))
<1>1. events \in Seq(PaceEvents) /\ Later \in Seq(PaceEvents) /\ Head(events) \in PaceEvents
  BY DEF MachineTyped, Later
<1>2. /\ Kinds(Later) = Tail(Kinds(events)) /\ Kinds(events) # <<>>
      /\ Head(Kinds(events)) = Kind(Head(events))
  BY <1>1, KindsTail DEF Later
<1>3. Kinds(events) \in Seq(AllKinds)
  BY <1>1, KindsTyped
<1>4. 1 \in DOMAIN Kinds(events) /\ Kinds(events)[1] = Head(Kinds(events))
  BY <1>2, <1>3
<1> QED BY <1>1, <1>2, <1>3, <1>4

LEMMA LaterGrown ==
    ASSUME MachineTyped, events # <<>>, NEW H PROVE Grown(Kinds(events), Kinds(Later), H)
BY LaterKinds, GrownTail

\* News and connections do not count.
LEMMA NewsKinds ==
    ASSUME DataTyped, NEW r \in Readers, NEW b \in BOOLEAN
    PROVE  \A i \in DOMAIN Kinds(PolledNews(r, b)) : Kinds(PolledNews(r, b))[i] \in NewsTypes
<1>1. PolledNews(r, b) \in Seq(PaceEvents)
  BY PolledNewsTyped
<1>2. \A i \in DOMAIN PolledNews(r, b) : PolledNews(r, b)[i].type \in NewsTypes
  BY DEF PolledNews, News, NewsTypes
<1>3. \A i \in DOMAIN PolledNews(r, b) : Kind(PolledNews(r, b)[i]) \in NewsTypes
  BY <1>2 DEF Kind, NewsTypes
<1> QED BY <1>1, <1>3, KindsTyped DEF Kinds

LEMMA ResetGrown ==
    ASSUME DataTyped, NEW queue \in Seq(PaceEvents)
    PROVE  /\ AfterReset(queue) \in Seq(PaceEvents)
           /\ Grown(Kinds(queue), Kinds(AfterReset(queue)), NewsTypes)
<1> DEFINE old == Unsubscribed(queue)
<1>1. old \in Seq(PaceEvents) /\ Kinds(old) = Kinds(queue)
  <2>1. \A e \in PaceEvents : e.type \in NewsTypes => [e EXCEPT !.subscribed = FALSE] \in PaceEvents
    BY DEF PaceEvents, NewsTypes, Ops
  <2>2. \A i \in DOMAIN queue : queue[i] \in PaceEvents
    OBVIOUS
  <2>3. old \in Seq(PaceEvents)
    BY <2>1, <2>2 DEF Unsubscribed
  <2> QED BY <2>3, KindsSame
<1> HIDE DEF old
<1>2. CASE readerName \in Readers
  <2> DEFINE news == PolledNews(readerName, FALSE)
  <2>1. AfterReset(queue) = old \o news
    BY <1>2 DEF AfterReset, old
  <2>2. news \in Seq(PaceEvents) /\ \A i \in DOMAIN Kinds(news) : Kinds(news)[i] \in NewsTypes
    BY <1>2, PolledNewsTyped, NewsKinds
  <2> HIDE DEF news
  <2>3. old \o news \in Seq(PaceEvents) /\ Kinds(old \o news) = Kinds(old) \o Kinds(news)
    BY <1>1, <2>2, KindsJoin
  <2>4. Kinds(old) \in Seq(AllKinds) /\ Kinds(news) \in Seq(AllKinds)
    BY <1>1, <2>2, KindsTyped
  <2>5. Grown(Kinds(old), Kinds(old) \o Kinds(news), NewsTypes)
    BY <2>2, <2>4, GrownMore
  <2> QED BY <1>1, <2>1, <2>3, <2>5
<1>3. CASE readerName \notin Readers
  BY <1>1, <1>3, GrownSame DEF AfterReset, old
<1> QED BY <1>2, <1>3

\* A state is entered.
LEMMA EnterKinds ==
    ASSUME NEW queue \in Seq(PaceEvents), NEW js \in Seq(PaceJobs), NEW next \in Inner \cup Left,
           Enter(queue, js, next)
    PROVE  /\ Commands(jobs') = Commands(js) /\ state' = next
           /\ \/ Kinds(events') = Kinds(queue) /\ next \in WaitsForUser /\ ~killed
              \/ Kinds(events') = Kinds(queue) \o <<next>>
           /\ Kinds(queue) \in Seq(AllKinds) /\ <<next>> \in Seq(AllKinds)
<1> DEFINE left == Undelivered(queue, state)
<1>1. left \in Seq(PaceEvents) /\ Kinds(left) = Kinds(queue)
  <2>1. \A e \in PaceEvents : e.type = "connect" => [e EXCEPT !.wanted = FALSE] \in PaceEvents
    BY DEF PaceEvents, NewsTypes, Ops
  <2>2. \A i \in DOMAIN queue : queue[i] \in PaceEvents
    OBVIOUS
  <2>3. left \in Seq(PaceEvents)
    BY <2>1, <2>2 DEF Undelivered
  <2> QED BY <2>3, KindsSame
<1>2. Commands(jobs') = Commands(js) /\ state' = next
  BY CommandsTyped DEF Enter
<1>3. Run(next) \in PaceEvents /\ Kind(Run(next)) = next
  BY RunTyped DEF Kind, Run
<1>4. CASE events' = left /\ next \in WaitsForUser /\ ~killed
  BY <1>1, <1>2, <1>4, KindsTyped DEF AllKinds
<1>5. CASE events' = Append(left, Run(next))
  BY <1>1, <1>2, <1>3, <1>5, KindsOne, KindsTyped DEF AllKinds
<1> QED BY <1>4, <1>5 DEF Enter

LEMMA EnterUnheard ==
    ASSUME NEW queue \in Seq(PaceEvents), NEW js \in Seq(PaceJobs), NEW next \in Inner \cup Left,
           Enter(queue, js, next),
           state = "ConnectCard" \/ ("ConnectCard" \notin armed /\ Unheard(queue, js))
    PROVE  NoConnect'
<1> DEFINE left == Undelivered(queue, state)
<1>1. "ConnectCard" \notin armed'
  BY DEF Enter
<1>2. \A i \in DOMAIN queue : queue[i] \in PaceEvents
  OBVIOUS
<1>3. \A e \in PaceEvents : e.type = "connect" =>
          /\ [e EXCEPT !.wanted = FALSE].type = "connect" /\ ~[e EXCEPT !.wanted = FALSE].wanted
  BY DEF PaceEvents, NewsTypes, Ops
<1>4. DOMAIN left = DOMAIN queue
  BY DEF Undelivered
<1>5. \A i \in DOMAIN left : left[i].type = "connect" => ~left[i].wanted
  <2> SUFFICES ASSUME NEW i \in DOMAIN queue, left[i].type = "connect" PROVE ~left[i].wanted
    BY <1>4
  <2>1. CASE queue[i].type = "connect" /\ state = "ConnectCard"
    BY <1>2, <1>3, <2>1 DEF Undelivered
  <2>2. CASE ~(queue[i].type = "connect" /\ state = "ConnectCard")
    BY <2>2 DEF Undelivered, Unheard
  <2> QED BY <2>1, <2>2
<1>6. left \in Seq(PaceEvents) /\ Run(next) \in PaceEvents /\ Run(next).type = "run"
  <2>1. \A e \in PaceEvents : e.type = "connect" => [e EXCEPT !.wanted = FALSE] \in PaceEvents
    BY DEF PaceEvents, NewsTypes, Ops
  <2> QED BY <1>2, <2>1, RunTyped DEF Undelivered
<1>7. \A i \in DOMAIN events' : events'[i].type = "connect" => ~events'[i].wanted
  <2>1. CASE events' = left
    BY <1>5, <2>1
  <2>2. CASE events' = Append(left, Run(next))
    <3>1. \A i \in DOMAIN events' : \/ i \in DOMAIN left /\ events'[i] = left[i]
                                    \/ events'[i] = Run(next)
      BY <1>6, <2>2
    <3> QED BY <1>5, <1>6, <3>1
  <2> QED BY <2>1, <2>2 DEF Enter
<1>8. \A i \in DOMAIN js : js[i] \in PaceJobs
  OBVIOUS
<1>9. \A i \in DOMAIN jobs' : jobs'[i].op = "connect" => ~jobs'[i].wanted
  <2>1. jobs' = Forgotten(js, state) /\ DOMAIN jobs' = DOMAIN js
    BY DEF Enter, Forgotten
  <2>2. \A j \in PaceJobs : [j EXCEPT !.wanted = FALSE].op = j.op /\ ~[j EXCEPT !.wanted = FALSE].wanted
    BY DEF PaceJobs
  <2> SUFFICES ASSUME NEW i \in DOMAIN js, jobs'[i].op = "connect" PROVE ~jobs'[i].wanted
    BY <2>1
  <2>3. CASE state \in Waiting[js[i].op]
    BY <1>8, <2>1, <2>2, <2>3 DEF Forgotten
  <2>4. CASE state \notin Waiting[js[i].op]
    BY <2>1, <2>4 DEF Forgotten, Waiting, Unheard
  <2> QED BY <2>3, <2>4
<1> QED BY <1>1, <1>7, <1>9 DEF NoConnect, Unheard

LEMMA OwnStates ==
    ASSUME NEW s \in Inner \cup Left, NEW kind \in Own(s)
    PROVE  /\ kind \in Inner \cup Left => kind = s
           /\ kind = "update" => s = "UpdateRetryCounter"
           /\ kind = "pace" => s = "EstablishPaceChannel"
           /\ kind = "destroy" => s = "DestroyPace"
<1>1. /\ Waiting["update"] = {"UpdateRetryCounter", "UpdateRetryCounterFinal"}
      /\ Waiting["pace"] = {"EstablishPaceChannel"}
      /\ Waiting["destroy"] = {"DestroyPace", "DestroyPaceFinal"}
  BY DEF Waiting
<1>2. kind = s \/ (kind \in CoreOps /\ s \in Waiting[kind])
  BY DEF Own
<1>3. CoreOps \cap (Inner \cup Left) = {} /\ CoreOps = {"update", "pace", "destroy"}
  BY DEF Inner, Left, CoreOps
<1>4. {"UpdateRetryCounterFinal", "DestroyPaceFinal"} \cap (Inner \cup Left) = {}
  BY DEF Inner, Left
<1> QED BY <1>1, <1>2, <1>3, <1>4

LEMMA OwnCommands ==
    /\ "update" \in Own("UpdateRetryCounter") /\ "pace" \in Own("EstablishPaceChannel")
    /\ "destroy" \in Own("DestroyPace") /\ \A s : s \in Own(s)
<1>1. /\ Waiting["update"] = {"UpdateRetryCounter", "UpdateRetryCounterFinal"}
      /\ Waiting["pace"] = {"EstablishPaceChannel"}
      /\ Waiting["destroy"] = {"DestroyPace", "DestroyPaceFinal"}
  BY DEF Waiting
<1> QED BY <1>1 DEF Own, CoreOps

LEMMA LaterUnheard ==
    ASSUME MachineTyped, events # <<>>, NEW js, Unheard(events, js) PROVE Unheard(Later, js)
<1>1. \A i \in DOMAIN Later : i + 1 \in DOMAIN events /\ Later[i] = events[i + 1]
  BY DEF MachineTyped, Later
<1> QED BY <1>1 DEF Unheard

\* The next event is one the state waits for, and the only one.
LEMMA Taken ==
    ASSUME PaceIInv, Normal, events # <<>>, Kind(Head(events)) \in CoreKinds
    PROVE  /\ Later \in Seq(PaceEvents) /\ jobs \in Seq(PaceJobs)
           /\ state \in Inner \cup Left /\ Kind(Head(events)) \in Own(state)
           /\ Empty(Kinds(Later), Commands(jobs))
           /\ NoConnect /\ "ConnectCard" \notin armed /\ Unheard(Later, jobs)
           /\ ~None(Kinds(events), {Kind(Head(events))})
<1>1. MachineTyped
  BY DEF PaceIInv
<1>2. /\ Later \in Seq(PaceEvents) /\ Kinds(Later) = Tail(Kinds(events))
      /\ Kinds(events) \in Seq(AllKinds) /\ Kinds(events) # <<>>
      /\ Head(Kinds(events)) = Kind(Head(events))
      /\ 1 \in DOMAIN Kinds(events) /\ Kinds(events)[1] = Kind(Head(events))
  BY <1>1, LaterKinds
<1>3. ~None(Kinds(events), CoreKinds) /\ ~None(Kinds(events), {Kind(Head(events))})
  BY <1>2 DEF None
<1>4. NoConnect /\ None(Commands(jobs), CoreOps) /\ Few(Kinds(events), CoreKinds)
      /\ None(Kinds(events), CoreKinds \ Own(state))
  BY <1>3 DEF Normal, Orderly
<1>5. Kind(Head(events)) \in Own(state)
  BY <1>2, <1>4 DEF None
<1>6. None(Kinds(Later), CoreKinds)
  BY <1>2, <1>4, TailFewer
<1>7. Unheard(Later, jobs)
  BY <1>1, <1>4, LaterUnheard DEF NoConnect
<1> QED BY <1>1, <1>2, <1>3, <1>4, <1>5, <1>6, <1>7 DEF MachineTyped, Empty, NoConnect

LEMMA NormalRun ==
    ASSUME PaceIInv, Normal, NEW s \in Inner \cup Left, Running(s)
    PROVE  /\ state = s /\ Later \in Seq(PaceEvents) /\ jobs \in Seq(PaceJobs)
           /\ Empty(Kinds(Later), Commands(jobs))
           /\ "ConnectCard" \notin armed /\ Unheard(Later, jobs)
           /\ ~None(Kinds(events), {s})
<1>1. events # <<>> /\ Kind(Head(events)) = s
  BY DEF Running, Run, Kind
<1>2. s \in CoreKinds
  BY DEF CoreKinds
<1> QED BY <1>1, <1>2, Taken, OwnStates

LEMMA ArrivedKind ==
    ASSUME MachineTyped, NEW type \in Ops \cup NewsTypes, Arrives(type)
    PROVE  events # <<>> /\ Kind(Head(events)) = type /\ Arrived \in PaceEvents
<1>1. type # "run"
  BY DEF Ops, NewsTypes
<1> QED BY <1>1, HeadTyped DEF Arrives, Kind, Arrived

LEMMA NormalResult ==
    ASSUME PaceIInv, Normal, NEW op \in CoreOps, Arrives(op)
    PROVE  /\ op = "update" => state = "UpdateRetryCounter"
           /\ op = "pace" => state = "EstablishPaceChannel"
           /\ op = "destroy" => state = "DestroyPace"
           /\ Later \in Seq(PaceEvents) /\ jobs \in Seq(PaceJobs)
           /\ Empty(Kinds(Later), Commands(jobs))
           /\ "ConnectCard" \notin armed /\ Unheard(Later, jobs)
<1>1. op \in Ops /\ op \in CoreKinds
  BY DEF CoreOps, Ops, CoreKinds
<1>2. events # <<>> /\ Kind(Head(events)) = op
  BY <1>1, ArrivedKind DEF PaceIInv
<1> QED BY <1>1, <1>2, Taken, OwnStates

\* The state goes on to another one: nothing else is under way.
LEMMA MovesOn ==
    ASSUME MachineTyped, NEW queue \in Seq(PaceEvents), NEW js \in Seq(PaceJobs),
           NEW next \in Inner \cup {"Established"}, next # "ClearPacePasswordsOnError",
           Enter(queue, js, next), Empty(Kinds(queue), Commands(js)),
           state = "ConnectCard" \/ ("ConnectCard" \notin armed /\ Unheard(queue, js)),
           "SelectReader" \in armed => state = "SelectReader",
           ~error', ~killed, ~killed', next \in HasConn => conn' # NoConn,
           next = "EnterPacePassword" => pwType' \in Types,
           next = "EstablishPaceChannel" => Chosen'
    PROVE  Control'
<1>1. next \in Inner \cup Left
  BY DEF Left
<1>2. NoConnect'
  BY <1>1, EnterUnheard
<1>3. /\ Commands(jobs') = Commands(js) /\ state' = next
      /\ \/ Kinds(events') = Kinds(queue) /\ next \in WaitsForUser /\ ~killed
         \/ Kinds(events') = Kinds(queue) \o <<next>>
      /\ Kinds(queue) \in Seq(AllKinds) /\ <<next>> \in Seq(AllKinds)
  BY <1>1, EnterKinds
<1>4. next \in Own(next)
  BY OwnCommands
<1>5. /\ Few(Kinds(events'), CoreKinds)
      /\ None(Kinds(events'), CoreKinds \ Own(next))
  <2>1. Few(<<next>>, CoreKinds) /\ None(<<next>>, CoreKinds \ Own(next))
    BY <1>4, OneFew
  <2>2. None(Kinds(queue), CoreKinds) /\ None(Kinds(queue), CoreKinds \ Own(next))
    BY DEF Empty, None
  <2>3. Few(Kinds(queue), CoreKinds)
    BY <2>2, NoneIsFew
  <2>4. /\ Few(Kinds(queue) \o <<next>>, CoreKinds)
        /\ None(Kinds(queue) \o <<next>>, CoreKinds \ Own(next))
    BY <1>3, <2>1, <2>2, MoreFew
  <2> QED BY <1>3, <2>2, <2>3, <2>4
<1>6. /\ None(Commands(jobs'), CoreOps) /\ None(Commands(jobs'), CoreOps \ Own(next))
      /\ Few(Commands(jobs'), CoreOps)
  BY <1>3, NoneIsFew DEF Empty, None
<1>7. Orderly(Kinds(events)', Commands(jobs)', state')
  BY <1>3, <1>5, <1>6 DEF Orderly
<1>8. next = "EnterPacePassword" => None(Kinds(events'), {"EnterPacePassword"})
  <2> SUFFICES ASSUME next = "EnterPacePassword" PROVE None(Kinds(events'), {"EnterPacePassword"})
    OBVIOUS
  <2>1. Kinds(events') = Kinds(queue)
    BY KindsSame DEF Enter, WaitsForUser
  <2>2. {"EnterPacePassword"} \subseteq CoreKinds
    BY DEF CoreKinds, Inner
  <2> QED BY <2>1, <2>2 DEF Empty, None
<1>9. next \notin {"ClearPacePasswordsOnError", "Aborted"}
  BY DEF Inner
<1>10. "SelectReader" \notin armed'
  BY DEF Enter
<1>11. NoUpdate'
  <2>1. /\ "update" \in CoreKinds /\ "update" \in CoreOps
        /\ next # "update"
    BY DEF CoreKinds, CoreOps, Inner
  <2>2. None(Kinds(queue), {"update"}) /\ None(<<next>>, {"update"})
    BY <2>1, OneFew DEF Empty, None
  <2>3. None(Kinds(queue) \o <<next>>, {"update"})
    BY <1>3, <2>2, MoreFew
  <2>4. None(Commands(jobs'), {"update"})
    BY <1>6, <2>1 DEF None
  <2> QED BY <1>3, <2>2, <2>3, <2>4 DEF NoUpdate
<1>12. Normal'
  BY <1>2, <1>3, <1>7, <1>8, <1>9, <1>10, <1>11 DEF Normal
<1> QED BY <1>12 DEF Control

\* After an error nothing but the way out is under way.
LEMMA MovesOut ==
    ASSUME MachineTyped, NEW queue \in Seq(PaceEvents), NEW js \in Seq(PaceJobs),
           NEW next \in Ending, Enter(queue, js, next), Empty(Kinds(queue), Commands(js)), error'
    PROVE  Control'
<1>1. next \in Inner \cup Left
  BY DEF Ending, Inner, Left
<1>2. /\ Commands(jobs') = Commands(js) /\ state' = next
      /\ \/ Kinds(events') = Kinds(queue) /\ next \in WaitsForUser /\ ~killed
         \/ Kinds(events') = Kinds(queue) \o <<next>>
      /\ Kinds(queue) \in Seq(AllKinds) /\ <<next>> \in Seq(AllKinds)
  BY <1>1, EnterKinds
<1>3. /\ {"pace"} \subseteq CoreKinds /\ {"DestroyPace"} \subseteq CoreKinds
      /\ {"pace"} \subseteq CoreOps /\ next \notin {"pace"} /\ next \notin {"DestroyPace"}
  BY DEF CoreKinds, CoreOps, Inner, Ending
<1>4. None(Kinds(queue), {"pace"}) /\ None(Kinds(queue), {"DestroyPace"})
  BY <1>3 DEF Empty, None
<1>5. None(<<next>>, {"pace"}) /\ None(<<next>>, {"DestroyPace"})
  BY <1>3, OneFew
<1>6. None(Kinds(events'), {"pace"}) /\ None(Kinds(events'), {"DestroyPace"})
  <2>1. None(Kinds(queue) \o <<next>>, {"pace"})
    BY <1>2, <1>4, <1>5, MoreFew
  <2>2. None(Kinds(queue) \o <<next>>, {"DestroyPace"})
    BY <1>2, <1>4, <1>5, MoreFew
  <2> QED BY <1>2, <1>4, <2>1, <2>2
<1>7. None(Commands(jobs'), {"pace"})
  BY <1>2, <1>3 DEF Empty, None
<1>8. Gone(Kinds(events)', Commands(jobs)', conn')
  BY <1>6, <1>7 DEF Gone
<1>9. Cancelled'
  BY <1>2, <1>8 DEF Cancelled
<1> QED BY <1>9 DEF Control

\* The state has taken its event and does not move.
LEMMA Rests ==
    ASSUME ~error', ~killed', state' = state, Empty(Kinds(events'), Commands(jobs')),
           NoConnect' \/ state = "ConnectCard", "SelectReader" \in armed' => state = "SelectReader",
           state \notin {"ClearPacePasswordsOnError", "Aborted"},
           state \in HasConn => conn' # NoConn,
           state = "EnterPacePassword" => pwType' \in Types,
           state = "EstablishPaceChannel" => Chosen'
    PROVE  Control'
<1>1. Orderly(Kinds(events)', Commands(jobs)', state')
  BY NoneIsFew DEF Empty, Orderly, None
<1>2. {"EnterPacePassword"} \subseteq CoreKinds
  BY DEF CoreKinds, Inner
<1>3. None(Kinds(events'), {"EnterPacePassword"}) /\ None(Kinds(events)', CoreKinds)
  BY <1>2 DEF Empty, None
<1>4. NoUpdate'
  BY DEF CoreKinds, CoreOps, Empty, None, NoUpdate
<1>5. Normal'
  BY <1>1, <1>3, <1>4 DEF Normal
<1> QED BY <1>5 DEF Control

\* News come and go, and connections that are not or no longer waited for.
LEMMA PassesBy ==
    ASSUME Normal, ~error', ~killed', state' = state, UNCHANGED <<pw, pwType>>,
           "SelectReader" \in armed' => "SelectReader" \in armed,
           Grown(Kinds(events), Kinds(events'), Aside),
           Grown(Commands(jobs), Commands(jobs'), Aside), NoConnect => NoConnect',
           conn # NoConn => conn' # NoConn, Chosen => Chosen'
    PROVE  Control'
<1>1. /\ CoreKinds \cap Aside = {} /\ (CoreKinds \ Own(state)) \cap Aside = {}
      /\ CoreOps \cap Aside = {} /\ (CoreOps \ Own(state)) \cap Aside = {}
      /\ {"EnterPacePassword"} \cap Aside = {} /\ {"update"} \cap Aside = {}
  BY DEF CoreKinds, CoreOps, Aside, NewsTypes, Inner, Left
<1>2. Orderly(Kinds(events)', Commands(jobs)', state')
  BY <1>1 DEF Normal, Orderly, Grown
<1>3. None(Kinds(events), CoreKinds) => None(Kinds(events'), CoreKinds)
  BY <1>1 DEF Grown
<1>4. None(Kinds(events), {"EnterPacePassword"}) => None(Kinds(events'), {"EnterPacePassword"})
  BY <1>1 DEF Grown
<1>5. NoUpdate => NoUpdate'
  BY <1>1 DEF NoUpdate, Grown
<1>6. Normal'
  BY <1>2, <1>3, <1>4, <1>5 DEF Normal
<1> QED BY <1>6 DEF Control

Harmless == Ending \cup Aside
LEMMA CancelledStays ==
    ASSUME Cancelled, error', state' \in Ending \cup {"DestroyPace"},
           Grown(Kinds(events), Kinds(events'), Harmless),
           Grown(Commands(jobs), Commands(jobs'), Harmless), NoConnect => NoConnect',
           conn # NoConn => conn' # NoConn
    PROVE  Control'
<1>1. /\ {"pace"} \cap Harmless = {} /\ {"DestroyPace"} \cap Harmless = {}
      /\ {"update", "UpdateRetryCounter"} \cap Harmless = {} /\ {"update"} \cap Harmless = {}
      /\ {"update", "destroy"} \cap Harmless = {}
  BY DEF Harmless, Ending, Aside, NewsTypes
<1>2. (CoreKinds \ (Ending \cup {"pace"})) \cap Harmless = {}
  BY DEF Harmless, Ending, Aside, NewsTypes, CoreKinds, CoreOps, Inner, Left
<1>3. CASE Gone(Kinds(events), Commands(jobs), conn)
  BY <1>1, <1>3 DEF Gone, Grown, Cancelled, Control
<1>4. CASE Flying(Kinds(events), Commands(jobs)) /\ NoConnect /\ conn # NoConn
  BY <1>1, <1>2, <1>4 DEF Flying, Grown, Cancelled, Control
<1> QED BY <1>3, <1>4 DEF Cancelled

\* While a result of PACE is under way, nothing else is that matters.
LEMMA IsGone ==
    ASSUME MachineTyped, Cancelled, events # <<>>,
           Kind(Head(events)) \in CoreKinds \ (Ending \cup {"pace"})
    PROVE  Gone(Kinds(events), Commands(jobs), conn)
<1>1. 1 \in DOMAIN Kinds(events) /\ Kinds(events)[1] = Kind(Head(events))
  BY LaterKinds
<1> QED BY <1>1 DEF Cancelled, Flying, None

LEMMA GoneStays ==
    ASSUME Gone(Kinds(events), Commands(jobs), conn), error',
           state' \in Ending \cup {"DestroyPace"},
           Grown(Kinds(events), Kinds(events'), Harmless),
           Grown(Commands(jobs), Commands(jobs'), Harmless), conn # NoConn => conn' # NoConn
    PROVE  Control'
<1>1. /\ {"pace"} \cap Harmless = {} /\ {"DestroyPace"} \cap Harmless = {}
      /\ {"update", "UpdateRetryCounter"} \cap Harmless = {} /\ {"update"} \cap Harmless = {}
  BY DEF Harmless, Ending, Aside, NewsTypes
<1>2. Gone(Kinds(events)', Commands(jobs)', conn')
  BY <1>1 DEF Gone, Grown
<1> QED BY <1>2 DEF Cancelled, Control

LEMMA CancelledEnters ==
    ASSUME PaceIInv, Cancelled, error', NEW queue \in Seq(PaceEvents), NEW next \in Ending,
           Enter(queue, jobs, next), Grown(Kinds(events), Kinds(queue), Harmless),
           NoConnect => Unheard(queue, jobs), conn # NoConn => conn' # NoConn
    PROVE  Control'
<1>1. next \in Ending /\ next \in Inner \cup Left /\ jobs \in Seq(PaceJobs)
  BY DEF Ending, Inner, Left, PaceIInv, MachineTyped
<1>2. /\ Commands(jobs') = Commands(jobs) /\ state' = next
      /\ \/ Kinds(events') = Kinds(queue) /\ next \in WaitsForUser /\ ~killed
         \/ Kinds(events') = Kinds(queue) \o <<next>>
      /\ Kinds(queue) \in Seq(AllKinds) /\ <<next>> \in Seq(AllKinds)
  BY <1>1, EnterKinds
<1>3. Grown(Kinds(queue), Kinds(events'), Harmless)
  <2>1. \A i \in DOMAIN <<next>> : <<next>>[i] \in Harmless
    BY <1>1 DEF Harmless
  <2>2. Grown(Kinds(queue), Kinds(queue) \o <<next>>, Harmless)
    BY <1>2, <2>1, GrownMore
  <2> QED BY <1>2, <2>2, GrownSame
<1>4. Grown(Kinds(events), Kinds(events'), Harmless)
  BY <1>3, GrownTwice
<1>5. NoConnect => NoConnect'
  BY <1>1, EnterUnheard DEF NoConnect
<1>6. Grown(Commands(jobs), Commands(jobs'), Harmless)
  BY <1>2, GrownSame
<1> QED BY <1>2, <1>4, <1>5, <1>6, CancelledStays

LEMMA CancelledFires ==
    ASSUME PaceIInv, Cancelled, error', NEW queue \in Seq(PaceEvents), NEW s, NEW next,
           state = s => next \in Ending, Fire(queue, s, next),
           Grown(Kinds(events), Kinds(queue), Harmless),
           NoConnect => Unheard(queue, jobs), conn # NoConn => conn' # NoConn
    PROVE  Control'
<1>1. CASE state = s
  BY <1>1, CancelledEnters DEF Fire, FireWith
<1>2. CASE state # s
  BY <1>2, GrownSame, CancelledStays DEF Fire, FireWith, NoConnect, Cancelled
<1> QED BY <1>1, <1>2

\* News do not make anyone wait for a connection.
LEMMA MoreUnheard ==
    ASSUME NEW queue \in Seq(PaceEvents), NEW new \in Seq(PaceEvents), NEW js, Unheard(queue, js),
           \A i \in DOMAIN new : new[i].type = "connect" => ~new[i].wanted
    PROVE  Unheard(queue \o new, js)
<1>1. \A i \in DOMAIN (queue \o new) :
          \/ i \in DOMAIN queue /\ (queue \o new)[i] = queue[i]
          \/ i - Len(queue) \in DOMAIN new /\ (queue \o new)[i] = new[i - Len(queue)]
  OBVIOUS
<1> QED BY <1>1 DEF Unheard

LEMMA PolledUnheard ==
    ASSUME NEW r, NEW b
    PROVE  \A i \in DOMAIN PolledNews(r, b) :
               PolledNews(r, b)[i].type = "connect" => ~PolledNews(r, b)[i].wanted
BY DEF PolledNews, News

LEMMA UnsubscribedUnheard ==
    ASSUME NEW queue \in Seq(PaceEvents), NEW js, Unheard(queue, js)
    PROVE  Unsubscribed(queue) \in Seq(PaceEvents) /\ Unheard(Unsubscribed(queue), js)
<1>1. \A e \in PaceEvents : e.type \in NewsTypes =>
          /\ [e EXCEPT !.subscribed = FALSE] \in PaceEvents
          /\ [e EXCEPT !.subscribed = FALSE].type = e.type /\ e.type # "connect"
  BY DEF PaceEvents, NewsTypes, Ops
<1>2. \A i \in DOMAIN queue : queue[i] \in PaceEvents
  OBVIOUS
<1>3. Unsubscribed(queue) \in Seq(PaceEvents)
  BY <1>1, <1>2 DEF Unsubscribed
<1>4. DOMAIN Unsubscribed(queue) = DOMAIN queue
  BY DEF Unsubscribed
<1>5. \A i \in DOMAIN queue :
          \/ Unsubscribed(queue)[i] = queue[i]
          \/ Unsubscribed(queue)[i].type # "connect"
  BY <1>1, <1>2 DEF Unsubscribed
<1> QED BY <1>3, <1>4, <1>5 DEF Unheard

LEMMA ResetUnheard ==
    ASSUME DataTyped, NEW queue \in Seq(PaceEvents), NEW js, Unheard(queue, js)
    PROVE  Unheard(AfterReset(queue), js)
<1> DEFINE old == Unsubscribed(queue)
<1>1. old \in Seq(PaceEvents) /\ Unheard(old, js)
  BY UnsubscribedUnheard
<1>2. CASE readerName \in Readers
  <2>1. PolledNews(readerName, FALSE) \in Seq(PaceEvents)
    BY <1>2, PolledNewsTyped
  <2>2. AfterReset(queue) = old \o PolledNews(readerName, FALSE)
    BY <1>2 DEF AfterReset
  <2> HIDE DEF old
  <2>3. Unheard(old \o PolledNews(readerName, FALSE), js)
    BY <1>1, <2>1, PolledUnheard, MoreUnheard
  <2> QED BY <2>2, <2>3
<1>3. CASE readerName \notin Readers
  BY <1>1, <1>3 DEF AfterReset
<1> QED BY <1>2, <1>3

LEMMA ConnectGrown ==
    ASSUME NEW js \in Seq(PaceJobs), NEW name, NEW known
    PROVE  Grown(Commands(js), Commands(js \o ConnectJobs(name, known)), Aside)
<1> DEFINE new == ConnectJobs(name, known)
<1>1. new \in Seq(PaceJobs) /\ \A i \in DOMAIN new : new[i].op = "connect"
  BY JobTyped DEF ConnectJobs, Ops, PaceTypes, Types, Secrets, Job
<1> HIDE DEF new
<1>2. /\ Commands(js \o new) = Commands(js) \o Commands(new)
      /\ Commands(js) \in Seq(Ops) /\ Commands(new) \in Seq(Ops)
  BY <1>1, CommandsJoin, CommandsTyped
<1>3. \A i \in DOMAIN Commands(new) : Commands(new)[i] \in Aside
  BY <1>1 DEF Commands, Aside
<1>4. Grown(Commands(js), Commands(js) \o Commands(new), Aside)
  BY <1>2, <1>3, GrownMore
<1> QED BY <1>2, <1>4 DEF new

\* run() invokes the command its state waits for.
LEMMA InvokesNormal ==
    ASSUME PaceIInv, Normal, ~error', ~killed', NEW s \in Inner, Running(s),
           NEW op \in CoreOps, op \in Own(s), s \notin {"EnterPacePassword", "SelectReader"},
           NEW p \in PaceTypes, NEW secret \in Secrets,
           conn # NoConn, UNCHANGED <<conn, pw, pwType>>,
           Invoke(Later, Job(op, conn.reader, p, secret))
    PROVE  Control'
<1>1. /\ state = s /\ Later \in Seq(PaceEvents) /\ jobs \in Seq(PaceJobs)
      /\ Empty(Kinds(Later), Commands(jobs))
      /\ "ConnectCard" \notin armed /\ Unheard(Later, jobs)
  BY NormalRun
<1> DEFINE job == Job(op, conn.reader, p, secret)
<1>2. job \in PaceJobs /\ job.op = op
  BY JobTyped DEF PaceIInv, DataTyped, Connections, CoreOps, Ops, Job
<1> HIDE DEF job
<1>3. events' = Later /\ jobs' = Append(jobs, job) /\ state' = state /\ armed' = armed
  BY DEF Invoke, job
<1>4. op \in Own(state)
  BY <1>1
<1>5. /\ Commands(jobs') = Commands(jobs) \o <<op>> /\ Commands(jobs) \in Seq(Ops) /\ <<op>> \in Seq(Ops)
  BY <1>1, <1>2, <1>3, CommandsOne, CommandsTyped
<1>6. Few(Commands(jobs'), CoreOps) /\ None(Commands(jobs'), CoreOps \ Own(state))
  <2>1. Few(<<op>>, CoreOps) /\ None(<<op>>, CoreOps \ Own(state))
    BY <1>4, OneFew
  <2>2. None(Commands(jobs), CoreOps) /\ None(Commands(jobs), CoreOps \ Own(state))
    BY <1>1 DEF Empty, None
  <2>3. Few(Commands(jobs) \o <<op>>, CoreOps)
    BY <1>5, <2>1, <2>2, MoreFew
  <2>4. None(Commands(jobs) \o <<op>>, CoreOps \ Own(state))
    BY <1>5, <2>1, <2>2, MoreFew
  <2> QED BY <1>5, <2>3, <2>4
<1>7. /\ None(Kinds(events'), CoreKinds) /\ None(Kinds(events'), CoreKinds \ Own(state))
      /\ Few(Kinds(events'), CoreKinds)
  BY <1>1, <1>3, NoneIsFew DEF Empty, None
<1>8. Orderly(Kinds(events)', Commands(jobs)', state')
  BY <1>3, <1>6, <1>7 DEF Orderly
<1>9. NoConnect'
  BY <1>1, <1>2, <1>3 DEF CoreOps, NoConnect, Unheard
<1>10. state # "EnterPacePassword" /\ "SelectReader" \notin armed'
  BY <1>1, <1>3 DEF Normal
<1>11. Normal'
  BY <1>3, <1>8, <1>9, <1>10 DEF Normal, Chosen, Password
<1> QED BY <1>11 DEF Control
-----------------------------------------------------------------------------
(* The states run *)

LEMMA RunKind == \A s : Running(s) => events # <<>> /\ Kind(Head(events)) = s
BY DEF Running, Run, Kind

\* run() of an inner state in a workflow that goes its way.
LEMMA RunNormal ==
    ASSUME PaceIInv, PaceIInv', Normal, ~error, RunStep PROVE Control'
<1>0. MachineTyped /\ DataTyped /\ ~killed
  BY DEF PaceIInv, Normal
<1>0a. "SelectReader" \in armed => state = "SelectReader"
  BY DEF Normal
<1> USE DEF rest, readerSide, kept, context, Fire, FireWith
<1>18. /\ CoreOps = {"update", "pace", "destroy"}
       /\ "PIN" \in PaceTypes /\ NoCard \in Secrets
       /\ "update" \in Own("UpdateRetryCounter") /\ "pace" \in Own("EstablishPaceChannel")
       /\ "destroy" \in Own("DestroyPace")
  BY OwnCommands DEF CoreOps, PaceTypes, Types, Secrets
<1>1. CASE MaintainAborts
  BY <1>0, <1>1, NormalRun, MovesOut DEF Inner, Ending, MaintainAborts
<1>2. ASSUME NEW s \in Inner, Running(s), NEW next \in Inner, next # "ClearPacePasswordsOnError",
             Fire(Later, s, next), error' = error, killed' = killed,
             next \in HasConn => conn' # NoConn,
             next = "EnterPacePassword" => pwType' \in Types,
             next = "EstablishPaceChannel" => Chosen'
      PROVE  Control'
  BY <1>0, <1>0a, <1>2, NormalRun, MovesOn
<1>3. CASE MaintainAfterWrongPassword
  <2> DEFINE next == IF conn # NoConn THEN "UpdateRetryCounter" ELSE "SelectReader"
  <2>1. /\ next \in Inner /\ next # "ClearPacePasswordsOnError" /\ next \notin HasConn
        /\ next # "EnterPacePassword" /\ next # "EstablishPaceChannel"
        /\ "MaintainCardConnection" \in Inner
    BY DEF Inner, HasConn
  <2>2. Fire(Later, "MaintainCardConnection", next) /\ Running("MaintainCardConnection")
        /\ error' = error /\ killed' = killed
    BY <1>3 DEF MaintainAfterWrongPassword
  <2> HIDE DEF next
  <2> QED BY <1>2, <2>1, <2>2
<1>4. CASE MaintainAfterCardVanished
  <2> DEFINE queue == AfterReset(Later)
  <2>0. "MaintainCardConnection" \in Inner
    BY DEF Inner
  <2>1. /\ state = "MaintainCardConnection" /\ Later \in Seq(PaceEvents) /\ jobs \in Seq(PaceJobs)
        /\ Empty(Kinds(Later), Commands(jobs))
        /\ "ConnectCard" \notin armed /\ Unheard(Later, jobs)
    BY <1>4, <2>0, NormalRun DEF MaintainAfterCardVanished
  <2>2. queue \in Seq(PaceEvents) /\ Grown(Kinds(Later), Kinds(queue), NewsTypes)
    BY <1>0, <2>1, ResetGrown
  <2>3. Enter(queue, jobs, "SelectReader") /\ error' = error /\ killed' = killed
    BY <1>4, <2>1 DEF MaintainAfterCardVanished
  <2>4. Empty(Kinds(queue), Commands(jobs))
    <3>1. CoreKinds \cap NewsTypes = {}
      BY DEF CoreKinds, CoreOps, NewsTypes, Inner, Left
    <3> QED BY <2>1, <2>2, <3>1 DEF Empty, Grown
  <2>5. Unheard(queue, jobs)
    BY <1>0, <2>1, ResetUnheard
  <2>6. /\ "SelectReader" \in Inner /\ "SelectReader" \notin HasConn
    BY DEF Inner, HasConn
  <2> HIDE DEF queue
  <2> QED BY <1>0, <2>1, <2>2, <2>3, <2>4, <2>5, <2>6, MovesOn, <1>0a
<1>5. CASE MaintainContinues
  <2> DEFINE next == IF lastPace = "OK_PUK" THEN "UpdateRetryCounter"
                     ELSE IF conn = NoConn THEN "SelectReader" ELSE "VerifyRetryCounter"
  <2>1. /\ next \in Inner /\ next # "ClearPacePasswordsOnError"
        /\ next \in HasConn => conn # NoConn
        /\ next # "EnterPacePassword" /\ next # "EstablishPaceChannel"
        /\ "MaintainCardConnection" \in Inner
    BY DEF Inner, HasConn
  <2>2. /\ Fire(Later, "MaintainCardConnection", next) /\ Running("MaintainCardConnection")
        /\ error' = error /\ killed' = killed /\ conn' = conn
    BY <1>5 DEF MaintainContinues
  <2> HIDE DEF next
  <2> QED BY <1>2, <2>1, <2>2
<1>6. CASE ClearPacePasswordsOnError
  BY <1>6, NormalRun DEF Inner, ClearPacePasswordsOnError, ClearPasswords, Normal
<1>7. CASE ClearPacePasswordsBeforeDestroy
  BY <1>2, <1>7, NormalRun DEF Inner, HasConn, ClearPacePasswordsBeforeDestroy, ClearPasswords,
     Normal
<1>8. CASE SelectReader
  <2>1. "SelectReader" \in Inner /\ "ConnectCard" \in Inner
        /\ "SelectReader" \notin HasConn /\ "ConnectCard" \notin HasConn
    BY DEF Inner, HasConn
  <2>2. /\ state = "SelectReader" /\ Later \in Seq(PaceEvents) /\ jobs \in Seq(PaceJobs)
        /\ Empty(Kinds(Later), Commands(jobs))
        /\ "ConnectCard" \notin armed /\ Unheard(Later, jobs)
    BY <1>8, <2>1, NormalRun DEF SelectReader
  <2>3. error' = error /\ killed' = killed
    BY <1>8 DEF SelectReader
  <2>4. CASE Enter(Later, jobs, "ConnectCard")
    BY <1>0, <2>1, <2>2, <2>3, <2>4, MovesOn, <1>0a
  <2>5. CASE armed' = armed \cup {"SelectReader"} /\ events' = Later /\ UNCHANGED <<state, jobs>>
    BY <1>0, <1>0a, <2>1, <2>2, <2>3, <2>5, Rests DEF NoConnect
  <2> QED BY <1>8, <2>2, <2>4, <2>5 DEF SelectReader
<1>9. CASE ConnectCard
  <2>1. "ConnectCard" \in Inner /\ "ConnectCard" \notin HasConn
    BY DEF Inner, HasConn
  <2>2. /\ state = "ConnectCard" /\ Later \in Seq(PaceEvents) /\ jobs \in Seq(PaceJobs)
        /\ Empty(Kinds(Later), Commands(jobs))
    BY <1>9, <2>1, NormalRun DEF ConnectCard
  <2>3. error' = error /\ killed' = killed /\ state' = state /\ events' = Later
        /\ jobs' = jobs \o ConnectJobs(readerName, cache) /\ armed' = armed \cup {"ConnectCard"}
    BY <1>9 DEF ConnectCard
  <2>4. Grown(Commands(jobs), Commands(jobs'), Aside)
    BY <2>2, <2>3, ConnectGrown
  <2>5. CoreOps \cap Aside = {}
    BY DEF CoreOps, Aside, NewsTypes
  <2>6. Empty(Kinds(events'), Commands(jobs'))
    BY <2>2, <2>3, <2>4, <2>5 DEF Empty, Grown
  <2> QED BY <1>0, <2>1, <2>2, <2>3, <2>6, Rests, <1>0a
<1>10. CASE UpdateRetryCounter
  <2>1. /\ "UpdateRetryCounter" \in Inner /\ "UpdateRetryCounter" \notin HasConn
        /\ "MaintainCardConnection" \in Inner /\ "MaintainCardConnection" \notin HasConn
    BY DEF Inner, HasConn
  <2>2. error' = error /\ killed' = killed /\ Running("UpdateRetryCounter")
    BY <1>10 DEF UpdateRetryCounter, RunUpdate
  <2>3. CASE conn = NoConn
    BY <1>2, <1>10, <2>1, <2>2, <2>3 DEF UpdateRetryCounter, RunUpdate
  <2>4. CASE conn # NoConn
    <3>1. Invoke(Later, Job("update", conn.reader, "PIN", NoCard)) /\ UNCHANGED <<conn, pwType, pw>>
      BY <1>10, <2>4 DEF UpdateRetryCounter, RunUpdate
    <3> QED BY <1>0, <1>18, <2>1, <2>2, <2>4, <3>1, InvokesNormal
  <2> QED BY <2>3, <2>4
<1>11. CASE VerifyRetryCounter
  BY <1>2, <1>11 DEF Inner, HasConn, VerifyRetryCounter
<1>12. CASE PreparePace
  <2>1. /\ "PreparePace" \in Inner /\ "MaintainCardConnection" \in Inner
        /\ "EnterPacePassword" \in Inner /\ "EstablishPaceChannel" \in Inner
        /\ "MaintainCardConnection" \notin HasConn
    BY DEF Inner, HasConn
  <2>2. /\ error' = error /\ killed' = killed /\ Running("PreparePace") /\ conn' = conn /\ pw' = pw
    BY <1>12 DEF PreparePace
  <2>3. CASE conn = NoConn
    BY <1>2, <1>12, <2>1, <2>2, <2>3 DEF PreparePace
  <2>4. CASE conn # NoConn
    <3>1. Fire(Later, "PreparePace", AfterPreparePace) /\ pwType' = RequiredPassword
      BY <1>12, <2>4 DEF PreparePace
    <3>2. RequiredPassword \in Types
      BY DEF RequiredPassword, Types
    <3>3. CASE AfterPreparePace = "MaintainCardConnection"
      BY <1>2, <2>1, <2>2, <3>1, <3>3
    <3>4. CASE AfterPreparePace = "EnterPacePassword"
      BY <1>2, <2>1, <2>2, <2>4, <3>1, <3>2, <3>4
    <3>5. CASE AfterPreparePace = "EstablishPaceChannel"
      <4>1. Password(RequiredPassword) # NoCard
        BY <3>5 DEF AfterPreparePace
      <4>2. Chosen'
        BY <2>2, <3>1, <4>1 DEF Chosen, Password
      <4> QED BY <1>2, <2>1, <2>2, <2>4, <3>1, <3>5, <4>2
    <3> QED BY <3>3, <3>4, <3>5 DEF AfterPreparePace
  <2> QED BY <2>3, <2>4
<1>13. CASE EnterPacePassword
  <2>1. /\ "EnterPacePassword" \in Inner /\ "EstablishPaceChannel" \in Inner
        /\ "EnterPacePassword" \in HasConn
    BY DEF Inner, HasConn
  <2>2. /\ error' = error /\ killed' = killed /\ Running("EnterPacePassword")
        /\ UNCHANGED <<conn, pw, pwType>> /\ Fire(Later, "EnterPacePassword", "EstablishPaceChannel")
    BY <1>13 DEF EnterPacePassword
  <2>3. state = "EnterPacePassword" /\ ~None(Kinds(events), {"EnterPacePassword"})
    BY <2>1, <2>2, NormalRun
  <2>4. conn # NoConn /\ Chosen
    BY <2>1, <2>3 DEF Normal
  <2>5. Chosen'
    BY <2>2, <2>4 DEF Chosen, Password
  <2> QED BY <1>2, <2>1, <2>2, <2>4, <2>5
<1>14. CASE EstablishAborts
  BY <1>0, <1>14, NormalRun, MovesOut DEF Inner, Ending, EstablishAborts
<1>15. CASE EstablishPaceChannel
  <2>1. /\ "EstablishPaceChannel" \in Inner /\ "EstablishPaceChannel" \in HasConn
        /\ "MaintainCardConnection" \in Inner /\ "MaintainCardConnection" \notin HasConn
    BY DEF Inner, HasConn
  <2>2. error' = error /\ killed' = killed /\ Running("EstablishPaceChannel")
        /\ UNCHANGED <<conn, pwType>>
    BY <1>15 DEF EstablishPaceChannel
  <2>3. CASE conn = NoConn \/ LacksPassword
    BY <1>2, <1>15, <2>1, <2>2, <2>3 DEF EstablishPaceChannel
  <2>4. CASE ~(conn = NoConn \/ LacksPassword)
    <3>1. Invoke(Later, Job("pace", conn.reader, pwType, Password(pwType))) /\ UNCHANGED pw
      BY <1>15, <2>4 DEF EstablishPaceChannel
    <3>2. Password(pwType) \in Secrets /\ pwType \in PaceTypes
      BY <1>0 DEF Password, DataTyped, Secrets
    <3> QED BY <1>0, <1>18, <2>1, <2>2, <2>4, <3>1, <3>2, InvokesNormal
  <2> QED BY <2>3, <2>4
<1>16. CASE UnfortunateCardPosition
  BY <1>2, <1>16 DEF Inner, HasConn, UnfortunateCardPosition
<1>17. CASE DestroyPace
  BY <1>0, <1>17, <1>18, InvokesNormal DEF Inner, DestroyPace, RunDestroy
<1> QED
  BY <1>1, <1>3, <1>4, <1>5, <1>6, <1>7, <1>8, <1>9, <1>10, <1>11, <1>12, <1>13,
     <1>14, <1>15, <1>16, <1>17 DEF RunStep

\* A command is added.
LEMMA InvokeGrown ==
    ASSUME NEW js \in Seq(PaceJobs), NEW job \in PaceJobs
    PROVE  Grown(Commands(js), Commands(Append(js, job)), {job.op})
<1>1. /\ Commands(Append(js, job)) = Commands(js) \o <<job.op>>
      /\ Commands(js) \in Seq(Ops) /\ <<job.op>> \in Seq(Ops)
  BY CommandsOne, CommandsTyped
<1>2. \A i \in DOMAIN <<job.op>> : <<job.op>>[i] \in {job.op}
  OBVIOUS
<1>3. Grown(Commands(js), Commands(js) \o <<job.op>>, {job.op})
  BY <1>1, <1>2, GrownMore
<1> QED BY <1>1, <1>3

\* run() of an inner state after an error: the way out is kept to.
LEMMA RunCancelled ==
    ASSUME PaceIInv, PaceIInv', Cancelled, error, RunStep PROVE Control'
<1>0. /\ MachineTyped /\ DataTyped /\ jobs \in Seq(PaceJobs) /\ events \in Seq(PaceEvents)
      /\ state \in Ending \cup {"DestroyPace"}
  BY DEF PaceIInv, MachineTyped, Cancelled
<1> USE DEF rest, readerSide, kept, context
<1>1. ASSUME events # <<>>
      PROVE  /\ Later \in Seq(PaceEvents) /\ Grown(Kinds(events), Kinds(Later), Harmless)
             /\ NoConnect => Unheard(Later, jobs) /\ "ConnectCard" \notin armed
  BY <1>0, <1>1, LaterKinds, LaterGrown, LaterUnheard DEF NoConnect
<1>2. ASSUME NEW s, Running(s), NEW next, state = s => next \in Ending, Fire(Later, s, next),
             error', conn' = conn
      PROVE  Control'
  BY <1>1, <1>2, CancelledFires DEF Running
<1>3. ASSUME events # <<>>, error', conn' = conn, state' = state, events' = Later,
             jobs' = jobs, "ConnectCard" \in armed' => "ConnectCard" \in armed
      PROVE  Control'
  BY <1>0, <1>1, <1>3, GrownSame, CancelledStays DEF NoConnect
<1>4. /\ Ending = {"MaintainCardConnection", "ClearPacePasswordsOnError", "Aborted", "Established"}
      /\ \A s \in Inner \ (Ending \cup {"DestroyPace"}) : state # s
  BY <1>0 DEF Ending
<1>5. ASSUME NEW s \in Inner \ Ending, Running(s) PROVE Gone(Kinds(events), Commands(jobs), conn)
  BY <1>0, <1>5, RunKind, IsGone DEF CoreKinds, Inner
<1>6. ASSUME NEW s, Running(s) PROVE events # <<>> /\ ~None(Kinds(events), {s})
  BY <1>0, <1>6, RunKind, LaterKinds DEF None
<1>7. CASE MaintainAborts
  BY <1>2, <1>4, <1>7 DEF MaintainAborts
<1>8. CASE MaintainAfterWrongPassword \/ MaintainAfterCardVanished \/ MaintainContinues
  BY <1>8 DEF MaintainAfterWrongPassword, MaintainAfterCardVanished, MaintainContinues,
              IsBeyondRepair
<1>9. CASE ClearPacePasswordsOnError
  <2>1. events # <<>> /\ error' /\ conn' = conn /\ Leave(Later, "Aborted")
    BY <1>9 DEF ClearPacePasswordsOnError, ClearPasswords, Running
  <2>2. CASE state \in Inner
    BY <1>1, <1>4, <2>1, <2>2, CancelledEnters DEF Leave
  <2>3. CASE state \notin Inner
    BY <1>3, <2>1, <2>3 DEF Leave
  <2> QED BY <2>2, <2>3
<1>10. CASE ClearPacePasswordsBeforeDestroy
  BY <1>0, <1>2, <1>4, <1>10 DEF ClearPacePasswordsBeforeDestroy, ClearPasswords
<1>11. CASE SelectReader
  BY <1>0, <1>3, <1>4, <1>11 DEF SelectReader, Running
<1>12. CASE ConnectCard
  <2>1. "ConnectCard" \in Inner \ Ending
    BY DEF Inner, Ending
  <2>2. /\ Running("ConnectCard") /\ error' /\ conn' = conn /\ state' = state /\ events' = Later
        /\ jobs' = jobs \o ConnectJobs(readerName, cache)
    BY <1>12 DEF ConnectCard
  <2>3. Gone(Kinds(events), Commands(jobs), conn) /\ events # <<>>
    BY <1>5, <1>6, <2>1, <2>2
  <2>4. Grown(Commands(jobs), Commands(jobs'), Harmless)
    BY <1>0, <2>2, ConnectGrown, GrownSame, GrownTwice DEF Harmless
  <2> QED BY <1>0, <1>1, <2>2, <2>3, <2>4, GoneStays
<1>13. CASE UpdateRetryCounter
  <2>1. "UpdateRetryCounter" \in Inner \ Ending /\ state # "UpdateRetryCounter"
    BY <1>0, <1>4 DEF Inner
  <2>2. Running("UpdateRetryCounter") /\ error' /\ conn' = conn
    BY <1>13 DEF UpdateRetryCounter, RunUpdate
  <2>3. CASE conn = NoConn
    BY <1>2, <1>13, <2>1, <2>2, <2>3 DEF UpdateRetryCounter, RunUpdate
  <2>4. CASE conn # NoConn
    <3> DEFINE job == Job("update", conn.reader, "PIN", NoCard)
    <3>1. events' = Later /\ jobs' = Append(jobs, job) /\ state' = state
      BY <1>13, <2>4 DEF UpdateRetryCounter, RunUpdate, Invoke
    <3>2. job \in PaceJobs /\ job.op = "update"
      <4>1. conn.reader \in Readers /\ "update" \in Ops /\ "PIN" \in PaceTypes /\ NoCard \in Secrets
        BY <1>0, <2>4 DEF DataTyped, Connections, Ops, PaceTypes, Types, Secrets
      <4> QED BY <4>1, JobTyped DEF Job
    <3> HIDE DEF job
    <3>3. Grown(Commands(jobs), Commands(jobs'), {"update"})
      BY <1>0, <3>1, <3>2, InvokeGrown
    <3>4. Gone(Kinds(events), Commands(jobs), conn) /\ events # <<>>
      BY <1>5, <1>6, <2>1, <2>2
    <3>5. ~None(Kinds(events), {"update", "UpdateRetryCounter"})
      BY <1>6, <2>2 DEF None
    <3>6. /\ None(Kinds(events), {"pace"}) /\ None(Commands(jobs), {"pace"})
          /\ None(Kinds(events), {"DestroyPace"})
      BY <3>4, <3>5 DEF Gone
    <3>7. {"pace"} \cap Harmless = {} /\ {"DestroyPace"} \cap Harmless = {} /\ {"pace"} \cap {"update"} = {}
      BY DEF Harmless, Ending, Aside, NewsTypes
    <3>8. /\ None(Kinds(Later), {"pace"}) /\ None(Commands(jobs'), {"pace"})
          /\ None(Kinds(Later), {"DestroyPace"})
      BY <1>1, <3>3, <3>4, <3>6, <3>7 DEF Grown
    <3>9. Gone(Kinds(events)', Commands(jobs)', conn')
      BY <3>1, <3>8 DEF Gone
    <3>10. Cancelled'
      BY <1>0, <3>1, <3>9 DEF Cancelled
    <3> QED BY <2>2, <3>10 DEF Control
  <2> QED BY <2>3, <2>4
<1>14. CASE VerifyRetryCounter \/ PreparePace \/ EnterPacePassword \/ EstablishAborts
               \/ UnfortunateCardPosition
  <2>1. /\ state # "VerifyRetryCounter" /\ state # "PreparePace" /\ state # "EnterPacePassword"
        /\ state # "EstablishPaceChannel" /\ state # "UnfortunateCardPosition"
    BY <1>0, <1>4
  <2>2. ASSUME VerifyRetryCounter PROVE Control'
    BY <1>2, <2>1, <2>2 DEF VerifyRetryCounter
  <2>3. ASSUME PreparePace PROVE Control'
    BY <1>2, <2>1, <2>3 DEF PreparePace
  <2>4. ASSUME EnterPacePassword PROVE Control'
    BY <1>2, <2>1, <2>4 DEF EnterPacePassword
  <2>5. ASSUME EstablishAborts PROVE Control'
    BY <1>2, <2>1, <2>5 DEF EstablishAborts
  <2>6. ASSUME UnfortunateCardPosition PROVE Control'
    BY <1>2, <2>1, <2>6 DEF UnfortunateCardPosition
  <2> QED BY <1>14, <2>2, <2>3, <2>4, <2>5, <2>6
<1>15. CASE EstablishPaceChannel
  BY <1>15 DEF EstablishPaceChannel
<1>16. CASE DestroyPace
  <2> DEFINE job == Job("destroy", conn.reader, "PIN", NoCard)
  <2>1. /\ events' = Later /\ jobs' = Append(jobs, job) /\ state' = state /\ error' /\ conn' = conn
        /\ Running("DestroyPace") /\ conn # NoConn
    BY <1>16 DEF DestroyPace, RunDestroy, Invoke
  <2>2. job \in PaceJobs /\ job.op = "destroy"
    <3>1. conn.reader \in Readers /\ "destroy" \in Ops /\ "PIN" \in PaceTypes /\ NoCard \in Secrets
      BY <1>0, <2>1 DEF DataTyped, Connections, Ops, PaceTypes, Types, Secrets
    <3> QED BY <3>1, JobTyped DEF Job
  <2> HIDE DEF job
  <2>3. Grown(Commands(jobs), Commands(jobs'), {"destroy"})
    BY <1>0, <2>1, <2>2, InvokeGrown
  <2>4. "DestroyPace" \in Inner \ Ending
    BY DEF Inner, Ending
  <2>5. Gone(Kinds(events), Commands(jobs), conn) /\ ~None(Kinds(events), {"DestroyPace"}) /\ events # <<>>
    BY <1>5, <1>6, <2>1, <2>4
  <2>6. /\ {"pace"} \cap Harmless = {} /\ {"update", "UpdateRetryCounter"} \cap Harmless = {}
        /\ {"pace"} \cap {"destroy"} = {} /\ {"update"} \cap {"destroy"} = {}
    BY DEF Harmless, Ending, Aside, NewsTypes
  <2>7. Gone(Kinds(events)', Commands(jobs)', conn')
    BY <1>1, <2>1, <2>3, <2>5, <2>6 DEF Gone, Grown
  <2>8. Cancelled'
    BY <1>0, <2>1, <2>7 DEF Cancelled
  <2> QED BY <2>1, <2>8 DEF Control
<1> QED
  BY <1>7, <1>8, <1>9, <1>10, <1>11, <1>12, <1>13, <1>14, <1>15, <1>16 DEF RunStep
-----------------------------------------------------------------------------
(* Results and news *)

LEMMA FlagsKeepReader ==
    ASSUME DataTyped
    PROVE  /\ conn = NoConn => PaceFlags = NoConn
           /\ conn # NoConn => PaceFlags # NoConn /\ PaceFlags.reader = conn.reader
<1> DEFINE ok == Arrived.code = "OK"
           first == [conn EXCEPT !.can = ok]
           second == [conn EXCEPT !.pin = ok, !.can = ok /\ conn.can]
<1>1. CASE conn = NoConn
  BY <1>1 DEF PaceFlags
<1>2. CASE conn # NoConn
  <2>1. conn \in [reader : Readers, counter : Counters, can : BOOLEAN, pin : BOOLEAN]
    BY <1>2 DEF DataTyped, Connections
  <2>2. first.reader = conn.reader /\ second.reader = conn.reader
    BY <2>1
  <2>3. PaceFlags \in {conn, first, second}
    BY <1>2 DEF PaceFlags
  <2>4. conn.reader # NoReader /\ NoConn.reader = NoReader
    BY <2>1, PaceAssumption DEF NoConn
  <2> HIDE DEF first, second
  <2> QED BY <1>2, <2>2, <2>3, <2>4
<1> QED BY <1>1, <1>2

\* While a connection is waited for, nothing else is.
LEMMA AwaitedNormal ==
    ASSUME PaceIInv, Normal, IsAwaited, events # <<>>
    PROVE  /\ state = "ConnectCard" /\ Later \in Seq(PaceEvents) /\ jobs \in Seq(PaceJobs)
           /\ Empty(Kinds(Later), Commands(jobs))
<1>1. MachineTyped
  BY DEF PaceIInv
<1>2. ~NoConnect
  BY DEF IsAwaited, NoConnect, Unheard
<1>3. state = "ConnectCard" /\ None(Kinds(events), CoreKinds)
  BY <1>2 DEF Normal
<1>4. Later \in Seq(PaceEvents) /\ None(Kinds(Later), CoreKinds)
  <2>1. Grown(Kinds(events), Kinds(Later), {}) /\ CoreKinds \cap {} = {}
    BY <1>1, LaterGrown
  <2> QED BY <1>1, <1>3, <2>1, LaterKinds DEF Grown
<1>5. CoreOps \cap Own("ConnectCard") = {}
  BY OwnStates DEF CoreOps, Inner
<1>6. CoreOps \ Own("ConnectCard") = CoreOps
  BY <1>5
<1>7. None(Commands(jobs), CoreOps \ Own(state))
  BY DEF Normal, Orderly
<1>8. None(Commands(jobs), CoreOps)
  BY <1>3, <1>6, <1>7
<1> QED BY <1>1, <1>3, <1>4, <1>8 DEF Empty, MachineTyped

\* Results and news in a workflow that goes its way.
LEMMA ResultNormal ==
    ASSUME PaceIInv, PaceIInv', Normal, ~error, ResultStep PROVE Control'
<1>0. MachineTyped /\ DataTyped /\ ~killed /\ ("SelectReader" \in armed => state = "SelectReader")
  BY DEF PaceIInv, Normal
<1>1. \A s \in Left \cup WaitsForUser \cup Inner : CoreKinds \cap NewsTypes = {} /\ s # ""
  BY DEF CoreKinds, CoreOps, NewsTypes, Inner, Left, WaitsForUser
<1> USE DEF rest, readerSide, kept, context, machine, link
<1>2. /\ "update" \in CoreOps /\ "pace" \in CoreOps /\ "destroy" \in CoreOps
      /\ {"ConnectCard", "SelectReader", "MaintainCardConnection", "UpdateRetryCounter",
          "VerifyRetryCounter", "ClearPacePasswordsBeforeDestroy",
          "UnfortunateCardPosition", "EstablishPaceChannel"} \subseteq Inner
      /\ {"VerifyRetryCounter", "ClearPacePasswordsBeforeDestroy",
          "EstablishPaceChannel", "DestroyPace"} \subseteq HasConn
      /\ {"ConnectCard", "MaintainCardConnection", "UpdateRetryCounter",
          "UnfortunateCardPosition", "Established"} \cap HasConn = {}
      /\ "MaintainCardConnection" \in Ending
  BY DEF CoreOps, Inner, HasConn, Ending
\* The result is taken and the state signals its end.
<1>3. ASSUME NEW op \in CoreOps, Arrives(op), NEW next \in Inner \cup {"Established"},
             next # "ClearPacePasswordsOnError", next \notin {"EnterPacePassword", "EstablishPaceChannel"},
             Enter(Later, jobs, next), error' = error, killed' = killed,
             next \in HasConn => conn' # NoConn
      PROVE  Control'
  BY <1>0, <1>3, NormalResult, MovesOn
\* The reader is polled for the connection has failed.
<1>4. ASSUME NEW op \in CoreOps, Arrives(op), NEW next \in Inner \ HasConn,
             next # "ClearPacePasswordsOnError",
             Enter(AfterReset(Later), jobs, next), error' = error, killed' = killed
      PROVE  Control'
  <2> DEFINE queue == AfterReset(Later)
  <2>1. /\ Later \in Seq(PaceEvents) /\ jobs \in Seq(PaceJobs)
        /\ Empty(Kinds(Later), Commands(jobs))
        /\ "ConnectCard" \notin armed /\ Unheard(Later, jobs)
    BY <1>4, NormalResult
  <2>2. queue \in Seq(PaceEvents) /\ Grown(Kinds(Later), Kinds(queue), NewsTypes)
    BY <1>0, <2>1, ResetGrown
  <2>3. Empty(Kinds(queue), Commands(jobs))
    <3>1. CoreKinds \cap NewsTypes = {}
      BY DEF CoreKinds, CoreOps, NewsTypes, Inner, Left
    <3> QED BY <2>1, <2>2, <3>1 DEF Empty, Grown
  <2>4. Unheard(queue, jobs)
    BY <1>0, <2>1, ResetUnheard
  <2>5. Enter(queue, jobs, next)
    BY <1>4
  <2>6. next \notin {"EnterPacePassword", "EstablishPaceChannel"}
    BY DEF HasConn
  <2> HIDE DEF queue
  <2> QED BY <1>0, <1>4, <2>1, <2>2, <2>3, <2>4, <2>5, <2>6, MovesOn
\* Nobody waits for the result any more.
<1>5. ASSUME NEW op \in CoreOps, Arrives(op), events' = Later, UNCHANGED <<state, armed, jobs>>,
             error' = error, killed' = killed, UNCHANGED <<pw, pwType>>,
             conn # NoConn => conn' # NoConn /\ conn'.reader = conn.reader
      PROVE  Control'
  <2>1. /\ Later \in Seq(PaceEvents) /\ jobs \in Seq(PaceJobs)
        /\ Empty(Kinds(Later), Commands(jobs))
        /\ "ConnectCard" \notin armed /\ Unheard(Later, jobs)
        /\ op = "update" => state = "UpdateRetryCounter"
        /\ op = "pace" => state = "EstablishPaceChannel"
        /\ op = "destroy" => state = "DestroyPace"
    BY <1>5, NormalResult
  <2>2. NoConnect' /\ Empty(Kinds(events'), Commands(jobs'))
    BY <1>5, <2>1 DEF NoConnect
  <2>3. state \in {"UpdateRetryCounter", "EstablishPaceChannel", "DestroyPace"}
    BY <2>1 DEF CoreOps
  <2>4. state \in HasConn => conn' # NoConn
    BY <1>5 DEF Normal
  <2>5. state = "EstablishPaceChannel" => Chosen'
    BY <1>2, <1>5 DEF Normal, Chosen, Password
  <2>6. /\ ~error' /\ ~killed' /\ state' = state /\ "SelectReader" \notin armed'
        /\ state \notin {"ClearPacePasswordsOnError", "Aborted", "EnterPacePassword"}
    BY <1>0, <1>5, <2>3
  <2> QED BY <2>2, <2>4, <2>5, <2>6, Rests
<1>6. CASE ConnectSucceeds
  <2> DEFINE deactivated == readerName \in Readers /\ cache[readerName] \in Deactivated /\ ~CanAllowed
             queue == Unsubscribed(Later)
  <2>1. /\ events # <<>> /\ IsAwaited /\ killed' = killed /\ Arrives("connect")
        /\ conn' = [reader |-> Arrived.reader, counter |-> info[Arrived.reader],
                    can |-> FALSE, pin |-> FALSE]
        /\ error' = (error \/ (deactivated /\ ~UsedAsSDK))
    BY <1>6 DEF ConnectSucceeds, Arrives
  <2>2. /\ state = "ConnectCard" /\ Later \in Seq(PaceEvents) /\ jobs \in Seq(PaceJobs)
        /\ Empty(Kinds(Later), Commands(jobs))
    BY <2>1, AwaitedNormal
  <2>3. queue \in Seq(PaceEvents) /\ Kinds(queue) = Kinds(Later)
    <3>1. \A e \in PaceEvents : e.type \in NewsTypes => [e EXCEPT !.subscribed = FALSE] \in PaceEvents
      BY DEF PaceEvents, NewsTypes, Ops
    <3>2. \A i \in DOMAIN Later : Later[i] \in PaceEvents
      BY <2>2
    <3>3. queue \in Seq(PaceEvents)
      BY <2>2, <3>1, <3>2 DEF Unsubscribed
    <3> QED BY <2>2, <3>3, KindsSame
  <2>4. Empty(Kinds(queue), Commands(jobs))
    BY <2>2, <2>3
  <2>5. conn' # NoConn
    <3>1. "connect" \in Ops \cup NewsTypes
      BY DEF Ops
    <3>2. Arrived \in PaceEvents /\ Arrived.type = "connect"
      BY <1>0, <2>1, <3>1, ArrivedKind DEF Arrives, Arrived
    <3>3. Arrived.reader \in Readers
      BY <3>2 DEF PaceEvents, NewsTypes, Ops
    <3>4. conn'.reader # NoReader /\ NoConn.reader = NoReader
      BY <2>1, <3>3, PaceAssumption DEF NoConn
    <3> QED BY <3>4
  <2>6. \/ deactivated /\ UsedAsSDK /\ UNCHANGED <<state, armed, jobs>> /\ events' = queue
        \/ deactivated /\ ~UsedAsSDK /\ Enter(queue, jobs, "MaintainCardConnection")
        \/ ~deactivated /\ Enter(queue, jobs, "UpdateRetryCounter")
    BY <1>6, <2>2 DEF ConnectSucceeds, Fire, FireWith
  <2> HIDE DEF deactivated, queue
  <2>7. CASE deactivated /\ UsedAsSDK /\ UNCHANGED <<state, armed, jobs>> /\ events' = queue
    BY <1>0, <1>2, <2>1, <2>2, <2>4, <2>7, Rests
  <2>8. CASE deactivated /\ ~UsedAsSDK /\ Enter(queue, jobs, "MaintainCardConnection")
    BY <1>0, <1>2, <2>1, <2>2, <2>3, <2>4, <2>8, MovesOut
  <2>9. CASE ~deactivated /\ Enter(queue, jobs, "UpdateRetryCounter")
    BY <1>0, <1>2, <2>1, <2>2, <2>3, <2>4, <2>9, MovesOn
  <2> QED BY <2>6, <2>7, <2>8, <2>9
<1>7. CASE ConnectFails
  <2>1. events # <<>> /\ IsAwaited /\ killed' = killed /\ error' = error
    BY <1>7 DEF ConnectFails, Arrives
  <2>2. /\ state = "ConnectCard" /\ Later \in Seq(PaceEvents) /\ jobs \in Seq(PaceJobs)
        /\ Empty(Kinds(Later), Commands(jobs))
    BY <2>1, AwaitedNormal
  <2>3. Enter(Later, jobs, "MaintainCardConnection")
    BY <1>7, <2>2 DEF ConnectFails, Fire, FireWith
  <2> QED BY <1>0, <1>2, <2>1, <2>2, <2>3, MovesOn
<1>8. CASE ConnectForgotten
  <2>1. /\ events # <<>> /\ events' = Later /\ UNCHANGED <<machine, context, link, killed>>
    BY <1>8 DEF ConnectForgotten, Arrives
  <2>2. Grown(Kinds(events), Kinds(events'), Aside) /\ Grown(Commands(jobs), Commands(jobs'), Aside)
    BY <1>0, <2>1, LaterGrown, GrownSame
  <2>3. NoConnect => NoConnect'
    BY <1>0, <2>1, LaterUnheard DEF NoConnect
  <2>4. (Chosen => Chosen') /\ ~error' /\ ~killed'
    BY <1>0, <2>1 DEF Chosen, Password
  <2> QED BY <2>1, <2>2, <2>3, <2>4, PassesBy
<1>9. CASE UpdateDone
  <2>1. Arrives("update") /\ error' = error /\ killed' = killed /\ UNCHANGED <<pw, pwType>>
    BY <1>9 DEF UpdateDone, Updated
  <2>2. state = "UpdateRetryCounter"
    BY <1>2, <2>1, NormalResult
  <2>3. conn # NoConn
    <3>1. events # <<>> /\ Kind(Head(events)) = "update"
      BY <1>0, <1>2, <2>1, ArrivedKind DEF CoreOps, Ops
    <3>2. 1 \in DOMAIN Kinds(events) /\ Kinds(events)[1] = "update"
      BY <1>0, <3>1, LaterKinds
    <3>3. ~NoUpdate
      BY <3>2 DEF NoUpdate, None
    <3> QED BY <3>3 DEF Normal
  <2>4. \/ Enter(Later, jobs, "VerifyRetryCounter") /\ conn' = conn
        \/ UNCHANGED <<state, armed, jobs>> /\ events' = Later /\ conn' = conn
        \/ Enter(AfterReset(Later), jobs, "MaintainCardConnection")
    BY <1>9, <2>2 DEF UpdateDone, Updated, Fire, FireWith
  <2> QED BY <1>2, <1>3, <1>4, <1>5, <2>1, <2>3, <2>4
<1>10. CASE DestroyDone
  <2>1. /\ Arrives("destroy") /\ error' = error /\ killed' = killed /\ UNCHANGED <<pw, pwType>>
        /\ conn' = conn
    BY <1>10 DEF DestroyDone, Destroyed
  <2>2. state = "DestroyPace"
    BY <1>2, <2>1, NormalResult
  <2>3. \/ Enter(Later, jobs, "MaintainCardConnection")
        \/ UNCHANGED <<state, armed, jobs>> /\ events' = Later
    BY <1>10, <2>2 DEF DestroyDone, Destroyed, Fire, FireWith
  <2> QED BY <1>2, <1>3, <1>5, <2>1, <2>3
<1>11. ASSUME Arrives("pace")
       PROVE  /\ state = "EstablishPaceChannel" /\ state \in Inner /\ conn # NoConn
              /\ PaceFlags # NoConn /\ PaceFlags.reader = conn.reader
  BY <1>0, <1>2, <1>11, NormalResult, FlagsKeepReader DEF Normal
<1>12. CASE PaceForgotten
  BY <1>2, <1>5, <1>11, <1>12 DEF PaceForgotten
<1>13. CASE PaceSucceeds
  BY <1>2, <1>3, <1>11, <1>13 DEF PaceSucceeds, Leave, Fire, FireWith
<1>14. CASE PaceRefused
  <2>1. Arrives("pace") /\ error'
    BY <1>14 DEF PaceRefused
  <2>2. Enter(Later, jobs, "MaintainCardConnection")
    BY <1>11, <1>14, <2>1 DEF PaceRefused, Fire, FireWith
  <2>3. /\ Later \in Seq(PaceEvents) /\ jobs \in Seq(PaceJobs)
        /\ Empty(Kinds(Later), Commands(jobs))
    BY <1>2, <2>1, NormalResult
  <2> QED BY <1>0, <1>2, <2>1, <2>2, <2>3, MovesOut
<1>15. CASE PaceInvalidPin
  BY <1>2, <1>3, <1>11, <1>15 DEF PaceInvalidPin, Fire, FireWith
<1>16. CASE PaceFails
  BY <1>2, <1>3, <1>11, <1>16 DEF PaceFails, Fire, FireWith
<1>17. CASE PaceVanished
  BY <1>2, <1>4, <1>11, <1>17 DEF PaceVanished, Fire, FireWith
<1>18. CASE NewsArrives
  <2> DEFINE connects == "ConnectCard" \in armed /\ Arrived.type = "inserted"
  <2>1. /\ events # <<>> /\ UNCHANGED <<killed, error, pw, pwType>>
        /\ conn # NoConn => conn' # NoConn /\ conn'.reader = conn.reader
    BY <1>0, <1>18, PaceAssumption DEF NewsArrives, DataTyped, Connections, NewsTaken, NoConn
  <2>2. PICK name : LET js == jobs \o (IF connects THEN ConnectJobs(name, cache') ELSE <<>>)
                    IN  \/ /\ "SelectReader" \in armed /\ state = "SelectReader"
                           /\ Enter(Later, js, "ConnectCard")
                        \/ /\ jobs' = js /\ events' = Later /\ UNCHANGED <<state, armed>>
    BY <1>18 DEF NewsArrives
  <2> DEFINE js == jobs \o (IF connects THEN ConnectJobs(name, cache') ELSE <<>>)
  <2>3. Later \in Seq(PaceEvents) /\ jobs \in Seq(PaceJobs)
    BY <1>0, <2>1, LaterKinds DEF MachineTyped
  <2>4. Grown(Commands(jobs), Commands(js), Aside) /\ ("ConnectCard" \notin armed => js = jobs)
    <3>1. jobs \o <<>> = jobs
      BY <2>3
    <3>2. CASE connects
      BY <2>3, <3>2, ConnectGrown
    <3>3. CASE ~connects
      BY <3>1, <3>3, GrownSame
    <3> QED BY <3>2, <3>3
  <2> HIDE DEF js, connects
  <2>5. CASE "SelectReader" \in armed /\ state = "SelectReader" /\ Enter(Later, js, "ConnectCard")
    <3>1. NoConnect /\ None(Kinds(events), CoreKinds)
      BY <2>5 DEF Normal
    <3>2. js = jobs /\ "ConnectCard" \notin armed /\ Unheard(Later, jobs)
      BY <1>0, <2>1, <2>4, <3>1, LaterUnheard DEF NoConnect
    <3>3. None(Kinds(Later), CoreKinds)
      BY <1>0, <2>1, <3>1, LaterGrown DEF Grown
    <3>4. None(Commands(jobs), CoreOps)
      BY <2>5, OwnStates DEF CoreOps, Inner, Normal, Orderly
    <3>5. Empty(Kinds(Later), Commands(jobs)) /\ ~error' /\ ~killed'
      BY <1>0, <2>1, <3>3, <3>4 DEF Empty
    <3> QED BY <1>0, <1>2, <2>3, <2>5, <3>2, <3>5, MovesOn
  <2>6. CASE jobs' = js /\ events' = Later /\ UNCHANGED <<state, armed>>
    <3>1. /\ Grown(Kinds(events), Kinds(events'), Aside)
          /\ Grown(Commands(jobs), Commands(jobs'), Aside)
      BY <1>0, <2>1, <2>4, <2>6, LaterGrown
    <3>2. NoConnect => NoConnect'
      BY <1>0, <2>1, <2>4, <2>6, LaterUnheard DEF NoConnect
    <3>3. Chosen => Chosen'
      BY <1>18, <2>1 DEF Chosen, Password, NewsArrives, NewsTaken, Subscribed
    <3>4. ~error' /\ ~killed' /\ state' = state /\ armed' = armed
      BY <1>0, <2>1, <2>6
    <3> QED BY <2>1, <3>1, <3>2, <3>3, <3>4, PassesBy
  <2>7. js = jobs \o (IF connects THEN ConnectJobs(name, cache') ELSE <<>>)
    BY DEF js
  <2> QED BY <2>2, <2>5, <2>6, <2>7
<1> QED
  BY <1>6, <1>7, <1>8, <1>9, <1>10, <1>12, <1>13, <1>14, <1>15, <1>16, <1>17, <1>18
  DEF ResultStep

\* Results and news after an error.
LEMMA ResultCancelled ==
    ASSUME PaceIInv, PaceIInv', Cancelled, error, ResultStep PROVE Control'
<1>0. /\ MachineTyped /\ DataTyped /\ jobs \in Seq(PaceJobs) /\ events \in Seq(PaceEvents)
      /\ state \in Ending \cup {"DestroyPace"}
  BY DEF PaceIInv, MachineTyped, Cancelled
<1> USE DEF rest, readerSide, kept, context, machine, link
<1>1. ASSUME events # <<>>
      PROVE  /\ Later \in Seq(PaceEvents) /\ Grown(Kinds(events), Kinds(Later), Harmless)
             /\ NoConnect => Unheard(Later, jobs) /\ "ConnectCard" \notin armed
  BY <1>0, <1>1, LaterKinds, LaterGrown, LaterUnheard DEF NoConnect
<1>2. ASSUME events # <<>>, NEW s, NEW next, state = s => next \in Ending, Fire(Later, s, next),
             error', conn # NoConn => conn' # NoConn
      PROVE  Control'
  BY <1>1, <1>2, CancelledFires
<1>3. ASSUME events # <<>>, error', conn # NoConn => conn' # NoConn,
             state' = state, armed' = armed, jobs' = jobs, events' = Later
      PROVE  Control'
  BY <1>0, <1>1, <1>3, GrownSame, CancelledStays DEF NoConnect
<1>4. /\ "MaintainCardConnection" \in Ending /\ "Established" \in Ending
      /\ state \notin {"ConnectCard", "UpdateRetryCounter", "EstablishPaceChannel", "SelectReader"}
  BY <1>0 DEF Ending
<1>5. /\ CoreOps = {"update", "pace", "destroy"} /\ "connect" \in Ops
      /\ CoreOps \subseteq Ops /\ CoreOps \subseteq CoreKinds
      /\ CoreOps \cap (Ending \cup NewsTypes) = {}
  BY DEF CoreOps, CoreKinds, Ops, Ending, NewsTypes
<1>6. ASSUME NEW op \in CoreOps, Arrives(op)
      PROVE  /\ events # <<>> /\ Kind(Head(events)) = op
             /\ 1 \in DOMAIN Kinds(events) /\ Kinds(events)[1] = op
  BY <1>0, <1>5, <1>6, ArrivedKind, LaterKinds
<1>7. CASE ConnectSucceeds
  <2> DEFINE queue == Unsubscribed(Later)
  <2>1. events # <<>> /\ IsAwaited /\ Arrives("connect") /\ error'
    BY <1>7 DEF ConnectSucceeds, Arrives
  <2>2. UNCHANGED <<state, jobs>> /\ events' = queue
    BY <1>4, <1>7 DEF ConnectSucceeds, Fire, FireWith
  <2>3. Kinds(events') = Kinds(Later)
    BY <1>1, <2>1, <2>2, KindsSame
  <2>4. ~NoConnect
    BY <2>1 DEF IsAwaited, NoConnect, Unheard
  <2>5. Gone(Kinds(events), Commands(jobs), conn)
    BY <2>4 DEF Cancelled
  <2>6. conn' # NoConn
    <3>1. Arrived \in PaceEvents /\ Arrived.type = "connect"
      BY <1>0, <1>5, <2>1, ArrivedKind DEF Arrives, Arrived
    <3>2. Arrived.reader \in Readers
      BY <3>1 DEF PaceEvents, NewsTypes, Ops
    <3>3. conn'.reader = Arrived.reader
      BY <1>7 DEF ConnectSucceeds
    <3>4. conn'.reader # NoReader /\ NoConn.reader = NoReader
      BY <3>2, <3>3, PaceAssumption DEF NoConn
    <3> QED BY <3>4
  <2>7. Grown(Kinds(events), Kinds(events'), Harmless) /\ Grown(Commands(jobs), Commands(jobs'), Harmless)
    BY <1>1, <2>1, <2>2, <2>3, GrownSame
  <2> HIDE DEF queue
  <2> QED BY <1>0, <2>1, <2>2, <2>5, <2>6, <2>7, GoneStays
<1>8. CASE ConnectFails
  BY <1>2, <1>4, <1>8 DEF ConnectFails, Arrives
<1>9. CASE ConnectForgotten
  BY <1>3, <1>9 DEF ConnectForgotten, Arrives
<1>10. CASE UpdateDone
  <2>1. Arrives("update") /\ error' /\ events # <<>>
    BY <1>10 DEF UpdateDone, Updated, Arrives
  <2>2. CASE Arrived.code = "OK" \/ ~Arrived.wanted
    BY <1>2, <1>3, <1>4, <1>10, <2>1, <2>2 DEF UpdateDone, Updated
  <2>3. CASE ~(Arrived.code = "OK" \/ ~Arrived.wanted)
    <3>1. events' = AfterReset(Later) /\ UNCHANGED <<state, jobs>>
      BY <1>4, <1>10, <2>3 DEF UpdateDone, Updated, Fire, FireWith
    <3>2. Kind(Head(events)) \in CoreKinds \ (Ending \cup {"pace"})
      BY <1>5, <1>6, <2>1
    <3>3. Gone(Kinds(events), Commands(jobs), conn)
      BY <1>0, <2>1, <3>2, IsGone
    <3>4. ~None(Kinds(events), {"update", "UpdateRetryCounter"})
      BY <1>5, <1>6, <2>1 DEF None
    <3>5. /\ None(Kinds(events), {"pace"}) /\ None(Commands(jobs), {"pace"})
          /\ None(Kinds(events), {"DestroyPace"})
      BY <3>3, <3>4 DEF Gone
    <3>6. {"pace"} \cap Harmless = {} /\ {"DestroyPace"} \cap Harmless = {} /\ NewsTypes \subseteq Harmless
      BY DEF Harmless, Ending, Aside, NewsTypes
    <3>7. Grown(Kinds(events), Kinds(events'), Harmless)
      BY <1>0, <1>1, <2>1, <3>1, <3>6, ResetGrown, GrownTwice DEF Grown
    <3>8. Gone(Kinds(events)', Commands(jobs)', conn')
      BY <3>1, <3>5, <3>6, <3>7 DEF Gone, Grown
    <3>9. Cancelled'
      BY <1>0, <3>1, <3>8 DEF Cancelled
    <3> QED BY <2>1, <3>9 DEF Control
  <2> QED BY <2>2, <2>3
<1>11. CASE DestroyDone
  BY <1>2, <1>3, <1>4, <1>11 DEF DestroyDone, Destroyed, Arrives
<1>12. conn # NoConn => PaceFlags # NoConn
  BY <1>0, FlagsKeepReader
<1>13. CASE PaceForgotten
  BY <1>3, <1>12, <1>13 DEF PaceForgotten, Arrives
<1>14. CASE PaceSucceeds
  <2>1. events # <<>> /\ error' /\ conn' = PaceFlags
    BY <1>14 DEF PaceSucceeds, Arrives
  <2>2. CASE OpensChannel(Arrived.password) /\ state \in Inner
    <3>1. Enter(Later, jobs, "Established")
      BY <1>14, <2>2 DEF PaceSucceeds, Leave
    <3> QED BY <1>1, <1>4, <1>12, <2>1, <3>1, CancelledEnters
  <2>3. CASE OpensChannel(Arrived.password) /\ state \notin Inner
    BY <1>3, <1>12, <1>14, <2>1, <2>3 DEF PaceSucceeds, Leave
  <2>4. CASE ~OpensChannel(Arrived.password)
    BY <1>2, <1>4, <1>12, <1>14, <2>1, <2>4 DEF PaceSucceeds
  <2> QED BY <2>2, <2>3, <2>4
<1>15. CASE PaceRefused
  BY <1>2, <1>4, <1>12, <1>15 DEF PaceRefused, Arrives
<1>16. CASE PaceInvalidPin
  BY <1>2, <1>4, <1>12, <1>16 DEF PaceInvalidPin, Arrives
<1>17. CASE PaceFails
  BY <1>2, <1>4, <1>12, <1>17 DEF PaceFails, Arrives
<1>18. CASE PaceVanished
  <2>1. Arrives("pace") /\ error' /\ events # <<>>
    BY <1>18 DEF PaceVanished, Arrives
  <2>2. events' = AfterReset(Later) /\ UNCHANGED <<state, jobs>>
    BY <1>4, <1>18 DEF PaceVanished, Fire, FireWith
  <2>3. Flying(Kinds(events), Commands(jobs)) /\ ~None(Kinds(events), {"pace"})
    BY <1>5, <1>6, <2>1 DEF Cancelled, Gone, None
  <2>4. /\ None(Commands(jobs), {"pace"}) /\ Few(Kinds(events), {"pace"})
        /\ None(Kinds(events), {"DestroyPace"})
    BY <2>3 DEF CoreKinds, Inner, Ending, Flying, None
  <2>5. None(Kinds(Later), {"pace"}) /\ None(Kinds(Later), {"DestroyPace"})
    <3>1. /\ Kinds(Later) = Tail(Kinds(events)) /\ Kinds(events) \in Seq(AllKinds)
          /\ Kinds(events) # <<>> /\ Head(Kinds(events)) = "pace"
      BY <1>0, <1>5, <1>6, <2>1, LaterKinds
    <3> QED BY <2>4, <3>1, TailFewer
  <2>6. Grown(Kinds(Later), Kinds(events'), NewsTypes)
    BY <1>0, <1>1, <2>1, <2>2, ResetGrown
  <2>7. {"pace"} \cap NewsTypes = {} /\ {"DestroyPace"} \cap NewsTypes = {}
    BY DEF NewsTypes
  <2>8. Gone(Kinds(events)', Commands(jobs)', conn')
    BY <2>2, <2>4, <2>5, <2>6, <2>7 DEF Gone, Grown
  <2>9. Cancelled'
    BY <1>0, <2>2, <2>8 DEF Cancelled
  <2> QED BY <2>1, <2>9 DEF Control
<1>19. CASE NewsArrives
  <2> DEFINE connects == "ConnectCard" \in armed /\ Arrived.type = "inserted"
  <2>1. events # <<>> /\ error' /\ (conn # NoConn => conn' # NoConn)
    BY <1>0, <1>19, PaceAssumption DEF NewsArrives, DataTyped, Connections, NewsTaken, NoConn
  <2>2. PICK name : /\ jobs' = jobs \o (IF connects THEN ConnectJobs(name, cache') ELSE <<>>)
                    /\ events' = Later /\ UNCHANGED <<state, armed>>
    BY <1>4, <1>19 DEF NewsArrives
  <2>5. connects => ~NoConnect
    BY DEF NoConnect
  <2> HIDE DEF connects
  <2>6. events' = Later /\ state' = state /\ armed' = armed
    BY <2>2
  <2>3. CASE connects
    <3>1. jobs' = jobs \o ConnectJobs(name, cache') /\ ~NoConnect
      BY <2>2, <2>3, <2>5
    <3>2. Grown(Commands(jobs), Commands(jobs'), Aside)
      BY <1>0, <3>1, ConnectGrown
    <3>3. Grown(Commands(jobs), Commands(jobs'), Harmless)
      BY <3>2, GrownSame, GrownTwice DEF Harmless
    <3> QED BY <1>0, <1>1, <2>1, <2>6, <3>1, <3>3, CancelledStays
  <2>4. CASE ~connects
    BY <1>0, <1>3, <2>1, <2>2, <2>4, <2>6
  <2> QED BY <2>3, <2>4
<1> QED
  BY <1>7, <1>8, <1>9, <1>10, <1>11, <1>13, <1>14, <1>15, <1>16, <1>17, <1>18, <1>19
  DEF ResultStep
-----------------------------------------------------------------------------
(* The reader thread, the readers and the user *)

\* The reader thread takes the first command and posts its result, at most
\* after news of the card.
LEMMA ThreadReports ==
    ASSUME PaceIInv, ReaderThread
    PROVE  /\ jobs # <<>>
           /\ \E news \in Seq(PaceEvents), code \in Codes :
                  Report(news, code) /\ \A i \in DOMAIN news : news[i].type = "retryCounter"
<1>0. /\ MachineTyped /\ DataTyped
      /\ <<>> \in Seq(PaceEvents) /\ \A i \in DOMAIN <<>> : <<>>[i].type = "retryCounter"
      /\ {"OK", "COMMAND_FAILED", "CARD_NOT_FOUND"} \subseteq Codes
  BY DEF PaceIInv, Codes, Unrecoverable
<1>1. jobs # <<>>
  BY DEF ReaderThread, ExecuteConnect, ExecuteUpdate, ExecuteDestroy, ExecutePace,
         ExecutePaceInVain, ReachesCard, Executing
<1>2. CASE ExecuteConnect
  <2>1. PICK code \in Codes : Report(<<>>, code)
    BY <1>0, <1>2 DEF ExecuteConnect
  <2> QED BY <1>0, <1>1, <2>1
<1>3. CASE ExecuteUpdate
  <2> DEFINE r == Command.reader
             tries == counter[session[r]]
             news == <<News("retryCounter", r, session[r], tries, Subscribed(r))>>
  <2>1. r \in Readers
    BY <1>0, <1>1, CommandTyped
  <2>2. Alive(r) => News("retryCounter", r, session[r], tries, Subscribed(r)) \in PaceEvents
    BY <1>0, <2>1 DEF Alive, DataTyped, Counters, Secrets, News, PaceEvents, NewsTypes, Subscribed
  <2>3. Alive(r) => news \in Seq(PaceEvents) /\ \A i \in DOMAIN news : news[i].type = "retryCounter"
    BY <2>2 DEF News
  <2> QED BY <1>0, <1>1, <1>3, <2>3 DEF ExecuteUpdate
<1>4. CASE ExecuteDestroy \/ ExecutePaceInVain
  <2>1. \A r : NotAsked(r) \subseteq Codes
    BY DEF NotAsked, Codes, WrongPassword, Unrecoverable
  <2>2. PICK code \in Codes : Report(<<>>, code)
    BY <1>0, <1>4, <2>1 DEF ExecuteDestroy, ExecutePaceInVain
  <2> QED BY <1>0, <1>1, <2>2
<1>5. CASE ExecutePace
  <2> DEFINE r == Command.reader
  <2>1. r \in Readers /\ Alive(r)
    BY <1>0, <1>1, <1>5, CommandTyped DEF ExecutePace, ReachesCard
  <2>2. PICK secret : LET verdict == Judged(r, Command.password, secret)
                      IN  \/ Report(<<>>, verdict.code)
                          \/ \E code \in {"CARD_NOT_FOUND", "COMMAND_FAILED"} : Report(<<>>, code)
    BY <1>5 DEF ExecutePace
  <2>3. Judged(r, Command.password, secret).code \in Codes
    BY <1>0, <2>1, JudgedTyped
  <2>4. PICK code \in Codes : Report(<<>>, code)
    BY <1>0, <2>2, <2>3
  <2> QED BY <1>0, <1>1, <2>4
<1> QED BY <1>2, <1>3, <1>4, <1>5 DEF ReaderThread

\* What that does to the queues.
LEMMA ReportMoves ==
    ASSUME PaceIInv, jobs # <<>>, NEW news \in Seq(PaceEvents), NEW code \in Codes,
           Report(news, code), \A i \in DOMAIN news : news[i].type = "retryCounter"
    PROVE  /\ Command.op \in Ops /\ Head(Commands(jobs)) = Command.op
           /\ 1 \in DOMAIN Commands(jobs) /\ Commands(jobs)[1] = Command.op
           /\ Commands(jobs) \in Seq(Ops) /\ Commands(jobs) # <<>>
           /\ Commands(jobs') = Tail(Commands(jobs))
           /\ Grown(Kinds(events), Kinds(events'), NewsTypes \cup {Command.op})
           /\ Grown(Commands(jobs), Commands(jobs'), {})
           /\ \A K : None(Kinds(events), K) /\ K \cap NewsTypes = {} => Few(Kinds(events'), K)
           /\ NoConnect => NoConnect'
<1> DEFINE done == Done(Command.op, Command.reader, Command.password, code, Command.wanted)
<1>0. MachineTyped /\ jobs \in Seq(PaceJobs) /\ events \in Seq(PaceEvents)
  BY DEF PaceIInv, MachineTyped
<1>1. /\ done \in PaceEvents /\ done.type = Command.op /\ done.wanted = Command.wanted
      /\ Command.op \in Ops /\ Kind(done) = Command.op
  BY <1>0, CommandTyped DEF Done, PaceEvents, PaceJobs, Ops, Kind
<1>2. /\ Commands(jobs') = Tail(Commands(jobs)) /\ Commands(jobs) # <<>>
      /\ Head(Commands(jobs)) = Command.op /\ Commands(jobs) \in Seq(Ops)
  BY <1>0, CommandsTail, CommandsTyped DEF Report, Command
<1>3. 1 \in DOMAIN Commands(jobs) /\ Commands(jobs)[1] = Command.op
  BY <1>2
<1>4. events' = (events \o news) \o <<done>> /\ jobs' = Tail(jobs) /\ armed' = armed
  BY DEF Report, mainSide
<1> HIDE DEF done
<1>5. /\ events \o news \in Seq(PaceEvents) /\ Kinds(events \o news) = Kinds(events) \o Kinds(news)
      /\ Kinds(events) \in Seq(AllKinds) /\ Kinds(news) \in Seq(AllKinds)
      /\ Kinds(events \o news) \in Seq(AllKinds)
  BY <1>0, KindsJoin, KindsTyped
<1>6. <<done>> \in Seq(PaceEvents) /\ Kinds(<<done>>) = <<Command.op>> /\ <<Command.op>> \in Seq(AllKinds)
  <2>1. Command.op \in AllKinds /\ <<done>> \in Seq(PaceEvents)
    BY <1>1, KindsOne
  <2>2. <<Command.op>> \in Seq(AllKinds)
    BY <2>1
  <2>3. Kinds(<<done>>) = <<Kind(done)>>
    BY <1>1, KindsOne
  <2> QED BY <1>1, <2>1, <2>2, <2>3
<1>7. Kinds(events') = Kinds(events \o news) \o <<Command.op>>
  BY <1>4, <1>5, <1>6, KindsJoin
<1>8. \A i \in DOMAIN Kinds(news) : Kinds(news)[i] \in NewsTypes
  <2>1. \A i \in DOMAIN news : Kind(news[i]) \in NewsTypes
    BY DEF Kind, NewsTypes
  <2> QED BY <2>1 DEF Kinds
<1>9. Grown(Kinds(events), Kinds(events \o news), NewsTypes)
  BY <1>5, <1>8, GrownMore
<1>10. Grown(Kinds(events \o news), Kinds(events'), NewsTypes \cup {Command.op})
  <2>1. \A i \in DOMAIN <<Command.op>> : <<Command.op>>[i] \in NewsTypes \cup {Command.op}
    OBVIOUS
  <2> QED BY <1>5, <1>6, <1>7, <2>1, GrownMore
<1>11. Grown(Kinds(events), Kinds(events'), NewsTypes \cup {Command.op})
  BY <1>9, <1>10, GrownTwice
<1>12. Grown(Commands(jobs), Commands(jobs'), {})
  BY <1>2, GrownTail
<1>13. ASSUME NEW K, None(Kinds(events), K), K \cap NewsTypes = {} PROVE Few(Kinds(events'), K)
  <2>1. None(Kinds(events \o news), K)
    BY <1>9, <1>13 DEF Grown
  <2>2. Few(<<Command.op>>, K)
    BY OneFew
  <2> QED BY <1>5, <1>6, <1>7, <2>1, <2>2, MoreFew
<1>14. ASSUME NoConnect PROVE NoConnect'
  <2>1. Unheard(events \o news, jobs)
    BY <1>0, <1>14, MoreUnheard DEF NoConnect
  <2>2. /\ \A i \in DOMAIN jobs' : i + 1 \in DOMAIN jobs /\ jobs'[i] = jobs[i + 1]
        /\ 1 \in DOMAIN jobs /\ Command = jobs[1]
    BY <1>0, <1>4 DEF Command
  <2>3. Unheard(events \o news, jobs')
    BY <2>1, <2>2 DEF Unheard
  <2>4. \A i \in DOMAIN <<done>> : <<done>>[i].type = "connect" => ~<<done>>[i].wanted
    BY <1>1, <2>1, <2>2 DEF Unheard
  <2>5. Unheard((events \o news) \o <<done>>, jobs')
    BY <1>5, <1>6, <2>3, <2>4, MoreUnheard
  <2> QED BY <1>4, <1>14, <2>5 DEF NoConnect
<1> QED BY <1>1, <1>2, <1>3, <1>11, <1>12, <1>13, <1>14

\* What concerns neither the state nor what it waits for.
LEMMA ControlPasses ==
    ASSUME Control, UNCHANGED <<state, armed, error, killed, pw, pwType, conn>>,
           Grown(Kinds(events), Kinds(events'), Aside),
           Grown(Commands(jobs), Commands(jobs'), Aside), NoConnect => NoConnect'
    PROVE  Control'
<1>1. CASE error
  BY <1>1, GrownSame, GrownTwice, CancelledStays DEF Harmless, Control, Cancelled
<1>2. CASE ~error
  BY <1>2, PassesBy DEF Control, Normal, Chosen, Password
<1> QED BY <1>1, <1>2

LEMMA ThreadControls == ASSUME PaceIInv, PaceIInv', Control, ReaderThread PROVE Control'
<1>1. jobs # <<>>
  BY ThreadReports
<1>2. PICK news \in Seq(PaceEvents), code \in Codes :
          Report(news, code) /\ \A i \in DOMAIN news : news[i].type = "retryCounter"
  BY ThreadReports
<1> DEFINE op == Command.op
<1>3. /\ op \in Ops /\ Head(Commands(jobs)) = op
      /\ 1 \in DOMAIN Commands(jobs) /\ Commands(jobs)[1] = op
      /\ Commands(jobs) \in Seq(Ops) /\ Commands(jobs) # <<>>
      /\ Commands(jobs') = Tail(Commands(jobs))
      /\ Grown(Kinds(events), Kinds(events'), NewsTypes \cup {op})
      /\ Grown(Commands(jobs), Commands(jobs'), {})
      /\ \A K : None(Kinds(events), K) /\ K \cap NewsTypes = {} => Few(Kinds(events'), K)
      /\ NoConnect => NoConnect'
  BY <1>1, <1>2, ReportMoves
<1>4. UNCHANGED <<state, armed, error, killed, pw, pwType, conn>>
  BY <1>2 DEF Report, mainSide, context, link
<1> HIDE DEF op
<1>5. CASE op = "connect"
  BY <1>3, <1>4, <1>5, ControlPasses DEF Aside, Grown
<1>6. CASE op \in CoreOps /\ ~error
  <2>1. Normal
    BY <1>6 DEF Control
  <2>2. /\ ~None(Commands(jobs), CoreOps) /\ ~None(Commands(jobs), {op})
        /\ op \in Own(state) /\ CoreOps \cap NewsTypes = {} /\ CoreKinds \cap NewsTypes = {}
        /\ CoreOps \subseteq CoreKinds
    <3>1. ~None(Commands(jobs), CoreOps) /\ ~None(Commands(jobs), {op})
      BY <1>3, <1>6 DEF None
    <3>2. None(Commands(jobs), CoreOps \ Own(state))
      BY <2>1 DEF Normal, Orderly
    <3>3. op \in Own(state)
      BY <1>3, <1>6, <3>2 DEF None
    <3>4. /\ CoreOps \cap NewsTypes = {} /\ CoreKinds \cap NewsTypes = {}
          /\ CoreOps \subseteq CoreKinds
      BY DEF CoreOps, CoreKinds, NewsTypes, Inner, Left
    <3> QED BY <3>1, <3>3, <3>4
  <2>3. None(Kinds(events), CoreKinds) /\ Few(Commands(jobs), CoreOps)
    BY <2>1, <2>2 DEF Normal, Orderly
  <2>4. None(Commands(jobs'), CoreOps)
    BY <1>3, <1>6, <2>3, TailFewer
  <2>5. Few(Kinds(events'), CoreKinds)
    BY <1>3, <2>2, <2>3
  <2>6. None(Kinds(events'), CoreKinds \ Own(state))
    <3>1. None(Kinds(events), CoreKinds \ Own(state))
      BY <2>3 DEF None
    <3>2. (CoreKinds \ Own(state)) \cap (NewsTypes \cup {op}) = {}
      BY <2>2
    <3> QED BY <1>3, <3>1, <3>2 DEF Grown
  <2>7. None(Commands(jobs'), CoreOps \ Own(state)) /\ Few(Commands(jobs'), CoreOps)
    BY <2>4, NoneIsFew DEF None
  <2>8. Orderly(Kinds(events)', Commands(jobs)', state')
    BY <1>4, <2>4, <2>5, <2>6, <2>7 DEF Orderly
  <2>9. /\ state \notin {"ConnectCard", "SelectReader", "EnterPacePassword"}
        /\ op = "update" \/ NoUpdate'
    <3>1. state \in Inner \cup Left
      BY DEF PaceIInv, MachineTyped
    <3>2. state \in {"UpdateRetryCounter", "EstablishPaceChannel", "DestroyPace"}
      BY <1>6, <2>2, <3>1, OwnStates DEF CoreOps
    <3>3. ASSUME op # "update" PROVE NoUpdate'
      <4>1. {"update"} \cap (NewsTypes \cup {op}) = {} /\ "update" \in CoreOps
        BY <3>3 DEF NewsTypes, CoreOps
      <4>2. None(Kinds(events), {"update"})
        BY <2>2, <2>3, <4>1 DEF None
      <4>3. None(Kinds(events'), {"update"})
        BY <1>3, <4>1, <4>2 DEF Grown
      <4> QED BY <2>4, <4>1, <4>3 DEF NoUpdate, None
    <3> QED BY <3>2, <3>3
  <2>10. NoConnect' /\ "SelectReader" \notin armed'
    BY <1>3, <1>4, <2>1, <2>9 DEF Normal
  <2>11. conn' # NoConn \/ NoUpdate'
    BY <1>4, <2>1, <2>2, <2>9 DEF NoUpdate, Normal
  <2>12. Normal'
    BY <1>4, <2>1, <2>8, <2>9, <2>10, <2>11 DEF Normal, Chosen, Password
  <2> QED BY <1>4, <1>6, <2>12 DEF Control
<1>7. CASE op \in CoreOps /\ error
  <2>1. Cancelled /\ error' /\ state' \in Ending \cup {"DestroyPace"}
    BY <1>4, <1>7 DEF Control, Cancelled
  <2>2. CoreOps = {"update", "pace", "destroy"} /\ "pace" \in CoreKinds
    BY DEF CoreOps, CoreKinds
  <2>3. ~None(Commands(jobs), {op})
    BY <1>3 DEF None
  <2>4. CASE op = "pace"
    <3>1. Flying(Kinds(events), Commands(jobs)) /\ NoConnect /\ conn # NoConn
      BY <2>1, <2>3, <2>4 DEF Cancelled, Gone
    <3>2. None(Kinds(events), {"pace"}) /\ Few(Commands(jobs), {"pace"})
      BY <2>3, <2>4, <3>1 DEF Flying
    <3>3. None(Commands(jobs'), {"pace"})
      BY <1>3, <2>4, <3>2, TailFewer
    <3>4. Few(Kinds(events'), {"pace"}) /\ Few(Commands(jobs'), {"pace"})
      BY <1>3, <3>2, <3>3, NoneIsFew DEF NewsTypes
    <3>5. (CoreKinds \ (Ending \cup {"pace"})) \cap (NewsTypes \cup {op}) = {}
      BY <2>4 DEF CoreKinds, CoreOps, NewsTypes, Inner, Left
    <3>6. None(Kinds(events'), CoreKinds \ (Ending \cup {"pace"})) /\ None(Commands(jobs'), {"update", "destroy"})
      BY <1>3, <3>1, <3>5 DEF Flying, Grown
    <3>7. Flying(Kinds(events)', Commands(jobs)')
      BY <3>3, <3>4, <3>6 DEF Flying
    <3> QED BY <1>3, <1>4, <2>1, <3>1, <3>7 DEF Cancelled, Control
  <2>5. CASE op # "pace"
    <3>1. Gone(Kinds(events), Commands(jobs), conn)
      BY <1>3, <1>7, <2>1, <2>2, <2>5 DEF None, Cancelled, Flying
    <3>2. /\ {"pace"} \cap (NewsTypes \cup {op}) = {} /\ {"DestroyPace"} \cap (NewsTypes \cup {op}) = {}
          /\ {"pace"} \cap {} = {} /\ {"update"} \cap {} = {}
          /\ op = "update" \/ {"update", "UpdateRetryCounter"} \cap (NewsTypes \cup {op}) = {}
      BY <1>7, <2>2, <2>5 DEF NewsTypes
    <3>3. Gone(Kinds(events)', Commands(jobs)', conn')
      BY <1>3, <1>4, <2>3, <3>1, <3>2 DEF Gone, Grown
    <3>4. Cancelled'
      BY <2>1, <3>3 DEF Cancelled
    <3> QED BY <2>1, <3>4 DEF Control
  <2> QED BY <2>4, <2>5
<1> QED BY <1>3, <1>5, <1>6, <1>7 DEF Ops, CoreOps

LEMMA PollControls == ASSUME PaceIInv, Control, NEW r \in Readers, Poll(r) PROVE Control'
<1>0. MachineTyped /\ DataTyped /\ events \in Seq(PaceEvents) /\ Subscribed(r) \in BOOLEAN
  BY DEF PaceIInv, MachineTyped, Subscribed
<1> DEFINE news == PolledNews(r, Subscribed(r))
<1>1. /\ events' = events \o news /\ jobs' = jobs
      /\ UNCHANGED <<state, armed, error, killed, pw, pwType, conn>>
  BY DEF Poll, machineSide, machine, context, link
<1>2. /\ news \in Seq(PaceEvents) /\ \A i \in DOMAIN Kinds(news) : Kinds(news)[i] \in NewsTypes
      /\ \A i \in DOMAIN news : news[i].type = "connect" => ~news[i].wanted
  BY <1>0, PolledNewsTyped, NewsKinds, PolledUnheard
<1> HIDE DEF news
<1>3. Kinds(events') = Kinds(events) \o Kinds(news)
  BY <1>0, <1>1, <1>2, KindsJoin
<1>4. Kinds(events) \in Seq(AllKinds) /\ Kinds(news) \in Seq(AllKinds)
  BY <1>0, <1>2, KindsTyped
<1>5. Grown(Kinds(events), Kinds(events'), NewsTypes)
  BY <1>2, <1>3, <1>4, GrownMore
<1>6. Grown(Kinds(events), Kinds(events'), Aside) /\ Grown(Commands(jobs), Commands(jobs'), Aside)
  BY <1>1, <1>5, GrownSame, GrownTwice DEF Aside
<1>7. NoConnect => NoConnect'
  BY <1>0, <1>1, <1>2, MoreUnheard DEF NoConnect
<1> QED BY <1>1, <1>6, <1>7, ControlPasses

LEMMA NextStateControls == ASSUME PaceIInv, Control, NextStateRuns PROVE Control'
<1>1. /\ events # <<>> /\ events' = Later /\ jobs' = jobs
      /\ UNCHANGED <<state, armed, error, killed, pw, pwType, conn>>
  BY DEF NextStateRuns, machine, kept, rest, readerSide, context
<1>2. Grown(Kinds(events), Kinds(events'), Aside) /\ Grown(Commands(jobs), Commands(jobs'), Aside)
  BY <1>1, LaterGrown, GrownSame DEF PaceIInv
<1>3. NoConnect => NoConnect'
  BY <1>1, LaterUnheard DEF NoConnect, PaceIInv
<1> QED BY <1>1, <1>2, <1>3, ControlPasses

\* run() of the active state is queued once more.
LEMMA AgainKinds ==
    ASSUME MachineTyped
    PROVE  /\ Append(events, Run(state)) \in Seq(PaceEvents)
           /\ Kinds(Append(events, Run(state))) = Kinds(events) \o <<state>>
           /\ Kinds(events) \in Seq(AllKinds) /\ <<state>> \in Seq(AllKinds)
           /\ \A js : Unheard(events, js) => Unheard(Append(events, Run(state)), js)
<1>1. events \in Seq(PaceEvents) /\ Run(state) \in PaceEvents /\ Run(state).type = "run"
  BY RunTyped DEF MachineTyped
<1>2. Kind(Run(state)) = state
  BY DEF Kind, Run
<1>3. /\ Kinds(Append(events, Run(state))) = Kinds(events) \o <<state>>
      /\ state \in AllKinds
  BY <1>1, <1>2, KindsOne
<1>4. Kinds(events) \in Seq(AllKinds) /\ <<state>> \in Seq(AllKinds)
  BY <1>1, <1>3, KindsTyped
<1>5. \A i \in DOMAIN Append(events, Run(state)) :
          \/ i \in DOMAIN events /\ Append(events, Run(state))[i] = events[i]
          \/ Append(events, Run(state))[i] = Run(state)
  BY <1>1
<1>6. \A js : Unheard(events, js) => Unheard(Append(events, Run(state)), js)
  BY <1>1, <1>5 DEF Unheard
<1> QED BY <1>1, <1>3, <1>4, <1>6

\* The user has answered.
LEMMA ApprovalControls ==
    ASSUME PaceIInv, Control, state \in {"EnterPacePassword", "UnfortunateCardPosition"},
           ~IsApproved(state), events' = Append(events, Run(state)),
           UNCHANGED <<state, armed, jobs, error, killed, conn, pwType>>,
           state = "EnterPacePassword" => Chosen'
    PROVE  Control'
<1>0. MachineTyped /\ state \in Inner /\ state \in Inner \cup Left
  BY DEF PaceIInv, Inner
<1>1. Normal /\ ~error
  BY DEF Control, Cancelled, Ending
<1>2. None(Kinds(events), {state})
  <2>1. \A i \in DOMAIN events : events[i] \in PaceEvents /\ events[i] # Run(state)
    BY <1>0 DEF MachineTyped, IsApproved
  <2>2. \A e \in PaceEvents : Kind(e) = state => e = Run(state)
    BY DEF PaceEvents, Kind, Run, NewsTypes, Ops
  <2> QED BY <2>1, <2>2 DEF None, Kinds
<1>3. \A kind \in Own(state) : kind = state
  BY <1>0, OwnStates DEF CoreOps, Own
<1>4. None(Kinds(events), CoreKinds)
  BY <1>1, <1>2, <1>3 DEF Normal, Orderly, None
<1>5. None(Commands(jobs), CoreOps)
  BY <1>1, <1>3 DEF CoreOps, Normal, Orderly, None
<1>6. /\ Kinds(events') = Kinds(events) \o <<state>>
      /\ Kinds(events) \in Seq(AllKinds) /\ <<state>> \in Seq(AllKinds)
  BY <1>0, AgainKinds
<1>7. Few(Kinds(events'), CoreKinds) /\ None(Kinds(events'), CoreKinds \ Own(state))
  <2>1. Few(<<state>>, CoreKinds) /\ None(<<state>>, CoreKinds \ Own(state))
    BY OneFew, OwnCommands
  <2>2. None(Kinds(events), CoreKinds \ Own(state))
    BY <1>4 DEF None
  <2>3. Few(Kinds(events) \o <<state>>, CoreKinds)
    BY <1>4, <1>6, <2>1, MoreFew
  <2>4. None(Kinds(events) \o <<state>>, CoreKinds \ Own(state))
    BY <1>6, <2>1, <2>2, MoreFew
  <2> QED BY <1>6, <2>3, <2>4
<1>8. Orderly(Kinds(events)', Commands(jobs)', state')
  BY <1>5, <1>7, NoneIsFew DEF Orderly, None
<1>9. NoConnect'
  <2>1. NoConnect
    BY <1>1 DEF Normal
  <2> QED BY <1>0, <2>1, AgainKinds DEF NoConnect
<1>10. "SelectReader" \notin armed' /\ (state \in HasConn => conn' # NoConn)
  BY <1>1 DEF Normal
<1>11. NoUpdate'
  <2>1. None(<<state>>, {"update"}) /\ "update" \in CoreKinds /\ "update" \in CoreOps
    BY OneFew DEF CoreKinds, CoreOps
  <2>2. None(Kinds(events), {"update"}) /\ None(Commands(jobs'), {"update"})
    BY <1>4, <1>5, <2>1 DEF None
  <2>3. None(Kinds(events) \o <<state>>, {"update"})
    BY <1>6, <2>1, <2>2, MoreFew
  <2> QED BY <1>6, <2>2, <2>3 DEF NoUpdate
<1>12. Normal'
  BY <1>1, <1>8, <1>9, <1>10, <1>11 DEF Normal
<1> QED BY <1>1, <1>12 DEF Control

\* The user cancels, and may be asked no more.
LEMMA CancelControls ==
    ASSUME PaceIInv, PaceIInv', Control, NEW kill \in BOOLEAN, UserCancels(kill) PROVE Control'
<1>0. /\ MachineTyped /\ state \in Inner /\ error' /\ conn' = conn
      /\ events \in Seq(PaceEvents) /\ jobs \in Seq(PaceJobs)
  BY DEF PaceIInv, MachineTyped, UserCancels, Cancel, link
<1> DEFINE again == kill /\ ~(state \notin WaitsForUser \/ IsApproved(state))
           queue == IF again THEN Append(events, Run(state)) ELSE events
<1>1. Enter(queue, jobs, AbortTarget) /\ (state \notin WaitsForUser => queue = events)
  BY DEF UserCancels, Cancel
<1>2. /\ queue \in Seq(PaceEvents) /\ Grown(Kinds(events), Kinds(queue), {state})
      /\ Unheard(events, jobs) => Unheard(queue, jobs)
  <2>1. CASE again
    <3>1. \A i \in DOMAIN <<state>> : <<state>>[i] \in {state}
      OBVIOUS
    <3>2. Grown(Kinds(events), Kinds(events) \o <<state>>, {state})
      BY <1>0, <3>1, AgainKinds, GrownMore
    <3>3. queue = Append(events, Run(state))
      BY <2>1
    <3> QED BY <1>0, <3>2, <3>3, AgainKinds
  <2>2. CASE ~again
    <3>1. queue = events
      BY <2>2
    <3> QED BY <1>0, <3>1, GrownSame
  <2> QED BY <2>1, <2>2
<1> HIDE DEF queue, again
<1> DEFINE target == AbortTarget
<1>3. /\ state = "MaintainCardConnection" => target = "ClearPacePasswordsOnError"
      /\ state = "ClearPacePasswordsOnError" => target = "Aborted"
      /\ state = "ClearPacePasswordsBeforeDestroy" => target = "DestroyPace"
      /\ state = "DestroyPace" => target = "Aborted"
      /\ state \notin {"MaintainCardConnection", "ClearPacePasswordsOnError",
                       "ClearPacePasswordsBeforeDestroy", "DestroyPace"}
             => target = "MaintainCardConnection"
  BY DEF AbortTarget
<1> HIDE DEF target
<1>4. target \in Ending \cup {"DestroyPace"} /\ target \in Inner \cup Left
  BY <1>3 DEF Ending, Inner, Left
<1>5. Enter(queue, jobs, target)
  BY <1>1 DEF target
<1>6. /\ Commands(jobs') = Commands(jobs) /\ state' = target
      /\ Grown(Kinds(events), Kinds(events'), {state, target})
  <2>1. /\ Commands(jobs') = Commands(jobs) /\ state' = target
        /\ \/ Kinds(events') = Kinds(queue)
           \/ Kinds(events') = Kinds(queue) \o <<target>>
        /\ Kinds(queue) \in Seq(AllKinds) /\ <<target>> \in Seq(AllKinds)
    BY <1>0, <1>2, <1>4, <1>5, EnterKinds
  <2>2. \A i \in DOMAIN <<target>> : <<target>>[i] \in {state, target}
    OBVIOUS
  <2>3. Grown(Kinds(queue), Kinds(queue) \o <<target>>, {state, target})
    BY <2>1, <2>2, GrownMore
  <2>4. Grown(Kinds(queue), Kinds(events'), {state, target})
    BY <2>1, <2>3, GrownSame
  <2>5. {state} \subseteq {state, target}
    OBVIOUS
  <2> QED BY <1>2, <2>1, <2>4, <2>5, GrownTwice
<1>7. CASE error
  <2>1. Cancelled /\ state \in {"MaintainCardConnection", "ClearPacePasswordsOnError", "DestroyPace"}
    BY <1>0, <1>7 DEF Control, Cancelled, Ending, Inner
  <2>2. target \in Ending /\ state \notin WaitsForUser
    BY <1>3, <2>1 DEF Ending, WaitsForUser
  <2>3. Enter(events, jobs, target)
    BY <1>1, <1>5, <2>2
  <2> QED BY <1>0, <2>1, <2>2, <2>3, GrownSame, CancelledEnters DEF NoConnect
<1>8. CASE ~error
  <2>1. /\ Normal /\ None(Kinds(events), CoreKinds \ Own(state))
        /\ None(Commands(jobs), CoreOps \ Own(state)) /\ state \in Inner \cup Left
    BY <1>0, <1>8 DEF Control, Normal, Orderly
  <2>2. /\ "DestroyPace" \in Inner \cup Left /\ "UpdateRetryCounter" \in Inner \cup Left
        /\ CoreKinds = Inner \cup Left \cup CoreOps /\ CoreOps = {"update", "pace", "destroy"}
        /\ CoreOps \cap (Inner \cup Left) = {}
    BY DEF CoreKinds, CoreOps, Inner, Left
  <2>3. CASE state # "EstablishPaceChannel"
    <3>1. "pace" \notin Own(state) /\ "pace" \in CoreOps
      BY <2>1, <2>2, <2>3, OwnStates
    <3>2. None(Kinds(events), {"pace"}) /\ None(Commands(jobs'), {"pace"})
      BY <1>6, <2>1, <2>2, <3>1 DEF None
    <3>3. {"pace"} \cap {state, target} = {}
      BY <1>4, <2>1, <2>2
    <3>4. None(Kinds(events'), {"pace"})
      BY <1>6, <3>2, <3>3 DEF Grown
    <3>5. CASE state \in {"ClearPacePasswordsBeforeDestroy", "DestroyPace"}
      <4>1. conn # NoConn
        BY <2>1, <3>5 DEF Normal, HasConn
      <4>2. "update" \notin Own(state) /\ "UpdateRetryCounter" \notin Own(state)
        BY <2>1, <2>2, <3>5, OwnStates
      <4>3. None(Kinds(events), {"update", "UpdateRetryCounter"}) /\ None(Commands(jobs'), {"update"})
        BY <1>6, <2>1, <2>2, <4>2 DEF None
      <4>4. {"update", "UpdateRetryCounter"} \cap {state, target} = {}
        BY <1>3, <3>5
      <4>5. None(Kinds(events'), {"update", "UpdateRetryCounter"})
        BY <1>6, <4>3, <4>4 DEF Grown
      <4>6. Gone(Kinds(events)', Commands(jobs)', conn')
        BY <1>0, <3>2, <3>4, <4>1, <4>3, <4>5 DEF Gone
      <4>7. Cancelled'
        BY <1>4, <1>6, <4>6 DEF Cancelled
      <4> QED BY <1>0, <4>7 DEF Control
    <3>6. CASE state \notin {"ClearPacePasswordsBeforeDestroy", "DestroyPace"}
      <4>1. "DestroyPace" \notin Own(state)
        BY <2>1, <2>2, <3>6, OwnStates
      <4>2. None(Kinds(events), {"DestroyPace"})
        BY <2>1, <2>2, <4>1 DEF None
      <4>3. {"DestroyPace"} \cap {state, target} = {}
        BY <1>3, <3>6
      <4>4. None(Kinds(events'), {"DestroyPace"})
        BY <1>6, <4>2, <4>3 DEF Grown
      <4>5. Gone(Kinds(events)', Commands(jobs)', conn')
        BY <3>2, <3>4, <4>4 DEF Gone
      <4>6. Cancelled'
        BY <1>4, <1>6, <4>5 DEF Cancelled
      <4> QED BY <1>0, <4>6 DEF Control
    <3> QED BY <3>5, <3>6
  <2>4. CASE state = "EstablishPaceChannel"
    <3>1. target = "MaintainCardConnection" /\ conn # NoConn /\ NoConnect
      BY <1>3, <2>1, <2>4 DEF Normal, HasConn
    <3>2. NoConnect'
      BY <1>0, <1>2, <1>4, <1>5, <3>1, EnterUnheard DEF NoConnect
    <3>3. \A kind \in Own(state) : kind \in {"EstablishPaceChannel", "pace"}
      BY <2>1, <2>2, <2>4, OwnStates DEF Own
    <3>4. queue = events
      BY <1>1, <2>4 DEF WaitsForUser
    <3>5. Grown(Kinds(events), Kinds(events'), {target})
      <4>1. /\ \/ Kinds(events') = Kinds(queue)
               \/ Kinds(events') = Kinds(queue) \o <<target>>
            /\ Kinds(queue) \in Seq(AllKinds) /\ <<target>> \in Seq(AllKinds)
        BY <1>0, <1>2, <1>4, <1>5, EnterKinds
      <4>2. \A i \in DOMAIN <<target>> : <<target>>[i] \in {target}
        OBVIOUS
      <4>3. Grown(Kinds(queue), Kinds(queue) \o <<target>>, {target})
        BY <4>1, <4>2, GrownMore
      <4> QED BY <3>4, <4>1, <4>3, GrownSame
    <3>6. CASE None(Kinds(events), {"EstablishPaceChannel"})
      <4>1. None(Kinds(events), CoreKinds \ (Ending \cup {"pace"}))
        BY <2>1, <3>3, <3>6 DEF None
      <4>2. None(Kinds(events'), CoreKinds \ (Ending \cup {"pace"}))
        <5>1. (CoreKinds \ (Ending \cup {"pace"})) \cap {target} = {}
          BY <3>1 DEF Ending
        <5> QED BY <3>5, <4>1, <5>1 DEF Grown
      <4>3. None(Commands(jobs'), {"update", "destroy"})
        BY <1>6, <2>1, <2>2, <3>3 DEF None
      <4>4. /\ Few(Kinds(events), {"pace"}) /\ Few(Commands(jobs'), {"pace"})
            /\ None(Kinds(events), {"pace"}) \/ None(Commands(jobs'), {"pace"})
        BY <1>6, <2>1, <2>2 DEF Normal, Orderly, Few, None
      <4>5. {"pace"} \cap {target} = {}
        BY <3>1
      <4>6. Few(Kinds(events'), {"pace"}) /\ (None(Kinds(events), {"pace"}) => None(Kinds(events'), {"pace"}))
        BY <3>5, <4>4, <4>5 DEF Grown
      <4>7. Flying(Kinds(events)', Commands(jobs)')
        BY <4>2, <4>3, <4>4, <4>6 DEF Flying
      <4>8. Cancelled'
        BY <1>0, <1>4, <1>6, <3>1, <3>2, <4>7 DEF Cancelled
      <4> QED BY <1>0, <4>8 DEF Control
    <3>7. CASE ~None(Kinds(events), {"EstablishPaceChannel"})
      <4>1. "EstablishPaceChannel" \in CoreKinds /\ "pace" \in CoreKinds
        BY DEF CoreKinds, CoreOps, Inner
      <4>2. None(Commands(jobs), {"pace"}) /\ None(Kinds(events), {"pace"})
        BY <2>1, <2>2, <3>7, <4>1 DEF Normal, Orderly, Few, None
      <4>3. None(Kinds(events), {"DestroyPace"})
        BY <2>1, <2>2, <3>3 DEF None
      <4>4. {"pace"} \cap {target} = {} /\ {"DestroyPace"} \cap {target} = {}
        BY <3>1
      <4>5. Gone(Kinds(events)', Commands(jobs)', conn')
        BY <1>6, <3>5, <4>2, <4>3, <4>4 DEF Gone, Grown
      <4>6. Cancelled'
        BY <1>4, <1>6, <4>5 DEF Cancelled
      <4> QED BY <1>0, <4>6 DEF Control
    <3> QED BY <3>6, <3>7
  <2> QED BY <2>3, <2>4
<1> QED BY <1>7, <1>8
-----------------------------------------------------------------------------
(* The theorems *)

LEMMA InitControl == Init => Control
<1> SUFFICES ASSUME Init PROVE Control
  OBVIOUS
<1> DEFINE s == "MaintainCardConnection"
<1>1. /\ events = <<Run(s)>> /\ jobs = <<>> /\ state = s /\ armed = {} /\ ~error /\ ~killed
      /\ s \notin HasConn /\ s \in CoreKinds
  BY DEF Init, HasConn, CoreKinds, Inner
<1>2. Kinds(events) = <<s>> /\ Commands(jobs) = <<>>
  BY <1>1 DEF Kinds, Kind, Run, Commands
<1>3. Orderly(Kinds(events), Commands(jobs), state)
  BY <1>1, <1>2, OneFew, OwnCommands DEF None, Few, Orderly
<1>4. NoConnect
  BY <1>1 DEF NoConnect, Unheard, Run
<1>5. NoUpdate
  BY <1>2 DEF NoUpdate, None
<1> QED BY <1>1, <1>3, <1>4, <1>5 DEF Control, Normal

LEMMA EnvironmentControls ==
    ASSUME TypesFixed, PaceIInv, PaceIInv', Control, Environment PROVE Control'
<1>0. MachineTyped /\ DataTyped
  BY DEF PaceIInv
<1>1. ASSUME UNCHANGED <<state, armed, events, jobs, error, killed, pw, pwType, conn>>
      PROVE  Control'
  BY <1>1, GrownSame, ControlPasses DEF NoConnect
<1> USE DEF machineSide, machine, context, link, rest, kept, untouched, Approve
<1>2. ASSUME NEW r \in Readers, TakeCard(r) PROVE Control'
  BY <1>1, <1>2 DEF TakeCard
<1>3. ASSUME NEW r \in Readers, NEW c \in Cards, PutCard(r, c) PROVE Control'
  BY <1>1, <1>3 DEF PutCard
<1>4. CASE UserEntersPassword
  <2>1. /\ state = "EnterPacePassword" /\ ~IsApproved(state)
        /\ events' = Append(events, Run(state))
        /\ UNCHANGED <<state, armed, jobs, error, killed, conn, pwType>>
    BY <1>4 DEF UserEntersPassword
  <2>2. Chosen'
    <3>1. pwType \in Types
      BY <2>1 DEF Control, Cancelled, Ending, Normal
    <3>2. CASE conn.reader \in BasicReaders
      <4>1. PICK c \in Cards : pw' = [pw EXCEPT ![pwType] = c]
        BY <1>4, <3>2 DEF UserEntersPassword
      <4>2. pw'[pwType] = c /\ c # NoCard
        BY <1>0, <3>1, <4>1, PaceAssumption DEF DataTyped
      <4> QED BY <2>1, <3>1, <4>2 DEF Chosen, Password
    <3>3. CASE conn.reader \notin BasicReaders
      BY <2>1, <3>3 DEF Chosen
    <3> QED BY <3>2, <3>3
  <2> QED BY <2>1, <2>2, ApprovalControls
<1>5. CASE UserMovesCard
  BY <1>5, ApprovalControls DEF UserMovesCard
<1>6. CASE UserChangesReaders
  BY <1>6 DEF UserChangesReaders
<1>7. ASSUME NEW kill \in BOOLEAN, UserCancels(kill) PROVE Control'
  BY <1>7, CancelControls
<1> QED BY <1>2, <1>3, <1>4, <1>5, <1>6, <1>7 DEF Environment

LEMMA StepControl == ASSUME TypesFixed PROVE PaceIInv /\ PaceIInv' /\ Control /\ [Next]_vars => Control'
<1> SUFFICES ASSUME PaceIInv, PaceIInv', Control, [Next]_vars PROVE Control'
  OBVIOUS
<1>1. CASE RunStep
  BY <1>1, RunNormal, RunCancelled DEF Control
<1>2. CASE ResultStep
  BY <1>2, ResultNormal, ResultCancelled DEF Control
<1>3. CASE ReaderThread
  BY <1>3, ThreadControls
<1>4. CASE Environment
  BY <1>4, EnvironmentControls
<1>5. CASE \E r \in Readers : Poll(r)
  BY <1>5, PollControls
<1>6. CASE NextStateRuns
  BY <1>6, NextStateControls
<1>7. CASE UNCHANGED vars
  BY <1>7, GrownSame, ControlPasses DEF vars, machine, context, link, NoConnect
<1> QED BY <1>1, <1>2, <1>3, <1>4, <1>5, <1>6, <1>7 DEF Next, PaceStep, MainThread

\* Without an error there is never more than one thing under way that makes the
\* composite state go on: run() of the active state, the command it has invoked
\* or its result.  After an error what was under way may still arrive, but the
\* states that could take it for their own are left.
THEOREM PaceControlled == ASSUME TypesFixed PROVE Spec => []Control
<1>1. PaceIInv /\ PaceIInv' /\ Control /\ [Next]_vars => Control'
  BY StepControl
<1> QED BY <1>1, InitControl, PaceInvariant, PTL DEF Spec

\* run() of StateDestroyPace and the result of a wrong PIN find the connection
\* they use without a check.
THEOREM ConnectionIsThere == ASSUME TypesFixed PROVE Spec => []DestroyFindsCard
<1>1. PaceIInv /\ Control => DestroyFindsCard
  <2> SUFFICES ASSUME PaceIInv, Control PROVE DestroyFindsCard
    OBVIOUS
  <2>0. MachineTyped
    BY DEF PaceIInv
  <2>1. ASSUME Running("DestroyPace") PROVE conn # NoConn
    <3>1. events # <<>> /\ Kind(Head(events)) = "DestroyPace"
      BY <2>1, RunKind
    <3>2. CASE error
      <4>1. "DestroyPace" \in CoreKinds \ (Ending \cup {"pace"})
        BY DEF CoreKinds, Inner, Ending
      <4>2. Gone(Kinds(events), Commands(jobs), conn)
        BY <2>0, <3>1, <3>2, <4>1, IsGone DEF Control
      <4>3. 1 \in DOMAIN Kinds(events) /\ Kinds(events)[1] = "DestroyPace"
        BY <2>0, <3>1, LaterKinds
      <4> QED BY <4>2, <4>3 DEF Gone, None
    <3>3. CASE ~error
      BY <2>1, <3>3, NormalRun DEF Inner, HasConn, Control, Normal
    <3> QED BY <3>2, <3>3
  <2>2. ASSUME Arrives("pace") PROVE conn # NoConn
    <3>1. events # <<>> /\ Kind(Head(events)) = "pace"
      BY <2>0, <2>2, ArrivedKind DEF Ops
    <3>2. 1 \in DOMAIN Kinds(events) /\ Kinds(events)[1] = "pace"
      BY <2>0, <3>1, LaterKinds
    <3>3. CASE error
      BY <3>2, <3>3 DEF Control, Cancelled, Gone, None
    <3>4. CASE ~error
      BY <2>2, <3>4, NormalResult DEF Control, CoreOps, Normal, HasConn
    <3> QED BY <3>3, <3>4
  <2> QED BY <2>1, <2>2 DEF DestroyFindsCard
<1> QED BY <1>1, PaceInvariant, PaceControlled, PTL

\* run() of StateEstablishPaceChannel has a password for a reader without a
\* keypad: the invalid state it guards against is never reached.
THEOREM PasswordIsAlwaysThere == ASSUME TypesFixed PROVE Spec => []PasswordIsThere
<1>1. PaceIInv /\ Control => PasswordIsThere
  <2> SUFFICES ASSUME PaceIInv, Control, Running("EstablishPaceChannel"), ~error PROVE ~LacksPassword
    BY DEF PasswordIsThere
  <2>1. "EstablishPaceChannel" \in Inner \cup Left
    BY DEF Inner
  <2>2. state = "EstablishPaceChannel" /\ Normal
    BY <2>1, NormalRun DEF Control
  <2> QED BY <2>2 DEF Normal, Chosen, LacksPassword
<1> QED BY <1>1, PaceInvariant, PaceControlled, PTL

\* The composite state is left for success with the signal of a channel only.
LEMMA OnlyPaceEstablishes ==
    ASSUME RunStep \/ ResultStep \/ Environment, state' = "Established", state # "Established"
    PROVE  PaceSucceeds
<1> USE DEF Fire, FireWith, Leave, Enter, Invoke
<1>1. ~RunStep
  <2>1. /\ ~MaintainAborts /\ ~MaintainAfterWrongPassword /\ ~MaintainAfterCardVanished
        /\ ~MaintainContinues
    BY DEF MaintainAborts, MaintainAfterWrongPassword, MaintainAfterCardVanished, MaintainContinues
  <2>2. /\ ~ClearPacePasswordsOnError /\ ~ClearPacePasswordsBeforeDestroy /\ ~SelectReader
        /\ ~ConnectCard /\ ~UpdateRetryCounter /\ ~VerifyRetryCounter
    BY DEF ClearPacePasswordsOnError, ClearPacePasswordsBeforeDestroy, SelectReader, ConnectCard,
           UpdateRetryCounter, RunUpdate, VerifyRetryCounter, kept, context
  <2>3. ~PreparePace /\ ~EnterPacePassword /\ ~EstablishAborts /\ ~EstablishPaceChannel
    BY DEF PreparePace, AfterPreparePace, EnterPacePassword, EstablishAborts, EstablishPaceChannel
  <2>4. ~UnfortunateCardPosition /\ ~DestroyPace
    BY DEF UnfortunateCardPosition, DestroyPace, RunDestroy
  <2> QED BY <2>1, <2>2, <2>3, <2>4 DEF RunStep
<1>2. ~(ConnectSucceeds \/ ConnectFails \/ ConnectForgotten \/ UpdateDone \/ DestroyDone)
  BY DEF ConnectSucceeds, ConnectFails, ConnectForgotten, UpdateDone, Updated, DestroyDone,
         Destroyed, machine
<1>3. ~(PaceForgotten \/ PaceRefused \/ PaceInvalidPin \/ PaceFails)
  BY DEF PaceForgotten, PaceRefused, PaceInvalidPin, PaceFails, machine
<1>4. ~PaceVanished
  BY DEF PaceVanished
<1>5. ~NewsArrives
  BY DEF NewsArrives
<1>6. ~Environment
  <2>1. \A kill \in BOOLEAN : ~UserCancels(kill)
    BY DEF UserCancels, Cancel, AbortTarget
  <2> QED BY <2>1 DEF Environment, TakeCard, PutCard, UserEntersPassword, UserMovesCard,
                      UserChangesReaders, machineSide, machine, untouched
<1> QED BY <1>1, <1>2, <1>3, <1>4, <1>5, <1>6 DEF ResultStep

LEMMA OpenedByCard ==
    ASSUME DataTyped, conn # NoConn, PaceSucceeds, state' = "Established", state # "Established"
    PROVE  conn' # NoConn /\ (conn'.pin \/ (CanAllowed /\ conn'.can))
<1>1. Arrived.code = "OK" /\ conn' = PaceFlags /\ OpensChannel(Arrived.password)
  BY DEF PaceSucceeds, Fire, FireWith, Enter
<1>2. PaceFlags # NoConn
  BY FlagsKeepReader
<1>3. conn \in [reader : Readers, counter : Counters, can : BOOLEAN, pin : BOOLEAN]
  BY DEF DataTyped, Connections
<1>4. CASE Arrived.password = "PIN"
  BY <1>1, <1>2, <1>3, <1>4 DEF PaceFlags
<1>5. CASE Arrived.password = "CAN" /\ CanAllowed
  BY <1>1, <1>2, <1>3, <1>5 DEF PaceFlags
<1> QED BY <1>1, <1>4, <1>5 DEF OpensChannel

\* Whichever of the inner states is active when the signal of an established
\* channel arrives, the composite state is left for success only with a card
\* that has accepted its PIN, or its CAN where that is enough.
THEOREM EstablishedByCardOnly == ASSUME TypesFixed PROVE Spec => EstablishedByCard
<1> DEFINE Opened == state' = "Established" /\ state # "Established"
                        => conn' # NoConn /\ (conn'.pin \/ (CanAllowed /\ conn'.can))
<1>1. PaceIInv /\ Control /\ [Next]_vars => Opened
  <2> SUFFICES ASSUME PaceIInv, Control, [Next]_vars, state' = "Established", state # "Established"
               PROVE  conn' # NoConn /\ (conn'.pin \/ (CanAllowed /\ conn'.can))
    OBVIOUS
  <2>1. ~ReaderThread
    BY ThreadReports DEF Report, mainSide
  <2>2. ~(\E r \in Readers : Poll(r)) /\ ~NextStateRuns /\ ~UNCHANGED vars
    BY DEF Poll, NextStateRuns, machineSide, machine, vars
  <2>3. PaceSucceeds
    BY <2>1, <2>2, OnlyPaceEstablishes DEF Next, PaceStep, MainThread
  <2>4. conn # NoConn
    <3>1. MachineTyped /\ Arrives("pace") /\ Kind(Head(events)) = "pace"
      BY <2>3, ArrivedKind DEF PaceIInv, Ops, PaceSucceeds
    <3>2. 1 \in DOMAIN Kinds(events) /\ Kinds(events)[1] = "pace"
      BY <3>1, LaterKinds DEF Arrives
    <3>3. CASE error
      BY <3>2, <3>3 DEF Control, Cancelled, Gone, None
    <3>4. CASE ~error
      BY <3>1, <3>4, NormalResult DEF Control, CoreOps, Normal, HasConn
    <3> QED BY <3>3, <3>4
  <2> QED BY <2>3, <2>4, OpenedByCard DEF PaceIInv
<1> QED BY <1>1, PaceInvariant, PaceControlled, PTL DEF Spec, EstablishedByCard
-----------------------------------------------------------------------------
(* What the context knows of the card's tries *)

\* The queue goes on: the next event is taken.
LEMMA QuietTail ==
    ASSUME NEW queue \in Seq(PaceEvents), queue # <<>>, NEW r
    PROVE  /\ Quiet(queue, r) => Quiet(Tail(queue), r) /\ ~Told(Head(queue), r)
           /\ QuietAfter(queue, 1, r) => Quiet(Tail(queue), r)
           /\ \A last, known : Tracks(queue, r, last, known) =>
                  Tracks(Tail(queue), r, IF Told(Head(queue), r) THEN Head(queue).counter ELSE last, known)
           /\ \A last, known : QuietAfter(queue, 1, r) /\ ~Told(Head(queue), r)
                  /\ Tracks(queue, r, last, known) => last = known
<1> DEFINE left == Tail(queue)
<1>1. /\ left \in Seq(PaceEvents) /\ Len(left) = Len(queue) - 1 /\ Len(queue) \in Nat \ {0}
      /\ \A i \in 1..Len(left) : left[i] = queue[i + 1]
      /\ Head(queue) = queue[1]
  OBVIOUS
<1> HIDE DEF left
<1>2. /\ 1 \in DOMAIN queue
      /\ \A i \in DOMAIN left : i + 1 \in DOMAIN queue /\ left[i] = queue[i + 1] /\ i + 1 > 1
  BY <1>1
<1>3. ASSUME NEW k \in DOMAIN queue, k # 1
      PROVE  /\ k - 1 \in DOMAIN left /\ left[k - 1] = queue[k]
             /\ \A i \in DOMAIN left : i > k - 1 => i + 1 > k
  BY <1>1, <1>3
<1>4. Quiet(queue, r) => Quiet(left, r) /\ ~Told(Head(queue), r)
  BY <1>1, <1>2 DEF Quiet
<1>5. QuietAfter(queue, 1, r) => Quiet(left, r)
  BY <1>2 DEF Quiet, QuietAfter
<1>6. ASSUME NEW last, NEW known, Tracks(queue, r, last, known)
      PROVE  Tracks(left, r, IF Told(Head(queue), r) THEN Head(queue).counter ELSE last, known)
  <2>1. CASE Quiet(queue, r) /\ last = known
    BY <1>4, <2>1 DEF Tracks
  <2>2. CASE \E k \in DOMAIN queue : /\ Told(queue[k], r) /\ queue[k].counter = known
                                     /\ QuietAfter(queue, k, r)
    <3>1. PICK k \in DOMAIN queue : /\ Told(queue[k], r) /\ queue[k].counter = known
                                    /\ QuietAfter(queue, k, r)
      BY <2>2
    <3>2. CASE k = 1
      BY <1>1, <1>5, <3>1, <3>2 DEF Tracks
    <3>3. CASE k # 1
      BY <1>2, <1>3, <3>1, <3>3 DEF QuietAfter, Tracks
    <3> QED BY <3>2, <3>3
  <2> QED BY <1>6, <2>1, <2>2 DEF Tracks
<1>7. ASSUME NEW last, NEW known, QuietAfter(queue, 1, r), ~Told(Head(queue), r),
             Tracks(queue, r, last, known)
      PROVE  last = known
  BY <1>1, <1>7 DEF QuietAfter, Tracks
<1> QED BY <1>4, <1>5, <1>6, <1>7 DEF left

LEMMA AnswersTail ==
    ASSUME NEW queue \in Seq(PaceEvents), queue # <<>>, NEW c, NEW known, NEW tries, NEW accepted,
           Answers(queue, c, known, tries, accepted)
    PROVE  Answers(Tail(queue), c, known, tries, accepted)
<1> DEFINE left == Tail(queue)
<1>1. /\ left \in Seq(PaceEvents) /\ Len(left) = Len(queue) - 1 /\ Len(queue) \in Nat \ {0}
      /\ \A i \in 1..Len(left) : left[i] = queue[i + 1]
      /\ Quiet(queue, c.reader) => Quiet(left, c.reader)
  BY QuietTail
<1> HIDE DEF left
<1>2. \A i \in DOMAIN left : i + 1 \in DOMAIN queue /\ left[i] = queue[i + 1]
  BY <1>1
<1>3. \A i, k \in DOMAIN left : i > k => i + 1 > k + 1
  BY <1>1
<1>4. \A k \in DOMAIN left : QuietAfter(queue, k + 1, c.reader) => QuietAfter(left, k, c.reader)
  BY <1>2, <1>3 DEF QuietAfter
<1>5. Answers(left, c, known, tries, accepted)
  BY <1>1, <1>2, <1>4 DEF Answers, Settled
<1> QED BY <1>5 DEF left

\* What the context is told and waits for stays the same.
Alike(old, new, r) ==
    /\ \A i \in DOMAIN old : /\ i \in DOMAIN new
                             /\ new[i] = old[i] \/ (old[i].type = "connect" /\ new[i].type = "connect")
    /\ \A i \in DOMAIN new : i \in DOMAIN old \/ (new[i].type \notin CoreOps /\ ~Told(new[i], r))

LEMMA AlikeKeeps ==
    ASSUME NEW old, NEW new, NEW r, Alike(old, new, r)
    PROVE  /\ Quiet(old, r) => Quiet(new, r)
           /\ \A last, known : Tracks(old, r, last, known) => Tracks(new, r, last, known)
           /\ \A c, known, tries, accepted :
                  c.reader = r /\ Answers(old, c, known, tries, accepted)
                      => Answers(new, c, known, tries, accepted)
           /\ (\E k \in DOMAIN old : old[k].type = "pace") => \E k \in DOMAIN new : new[k].type = "pace"
           /\ (\A k \in DOMAIN old : old[k].type \notin CoreOps)
                  => \A k \in DOMAIN new : new[k].type \notin CoreOps
<1>1. "connect" \notin NewsTypes /\ "connect" \notin CoreOps /\ {"update", "pace"} \subseteq CoreOps
  BY DEF NewsTypes, CoreOps
<1>2. \A i \in DOMAIN old : i \in DOMAIN new /\ (Told(new[i], r) <=> Told(old[i], r))
                            /\ (Told(old[i], r) => new[i] = old[i])
  BY <1>1 DEF Alike, Told
<1>3. \A i \in DOMAIN new : Told(new[i], r) => i \in DOMAIN old
  BY DEF Alike
<1>4. \A i \in DOMAIN new : new[i].type \in CoreOps => i \in DOMAIN old /\ new[i] = old[i]
  BY <1>1 DEF Alike
<1>5. \A i \in DOMAIN old : old[i].type \in CoreOps => i \in DOMAIN new /\ new[i] = old[i]
  BY <1>1 DEF Alike
<1>6. Quiet(old, r) => Quiet(new, r)
  BY <1>2, <1>3 DEF Quiet
<1>7. \A k : QuietAfter(old, k, r) => QuietAfter(new, k, r)
  BY <1>2, <1>3 DEF QuietAfter
<1>8. \A last, known : Tracks(old, r, last, known) => Tracks(new, r, last, known)
  BY <1>2, <1>6, <1>7 DEF Tracks
<1>9. ASSUME NEW c, NEW known, NEW tries, NEW accepted, c.reader = r,
             Answers(old, c, known, tries, accepted)
      PROVE  Answers(new, c, known, tries, accepted)
  BY <1>1, <1>4, <1>6, <1>7, <1>9 DEF Answers, Settled
<1> QED BY <1>1, <1>4, <1>5, <1>6, <1>8, <1>9

LEMMA AlikeSame == \A queue, r : Alike(queue, queue, r)
BY DEF Alike

LEMMA AlikeTwice ==
    ASSUME NEW a, NEW b, NEW c, NEW r, Alike(a, b, r), Alike(b, c, r) PROVE Alike(a, c, r)
<1>1. "connect" \notin NewsTypes /\ "connect" \notin CoreOps
  BY DEF NewsTypes, CoreOps
<1>2. \A i \in DOMAIN c : i \in DOMAIN a \/ (c[i].type \notin CoreOps /\ ~Told(c[i], r))
  BY <1>1 DEF Alike, Told
<1>3. \A i \in DOMAIN a : /\ i \in DOMAIN c
                          /\ c[i] = a[i] \/ (a[i].type = "connect" /\ c[i].type = "connect")
  BY DEF Alike
<1> QED BY <1>2, <1>3 DEF Alike

LEMMA AlikeMore ==
    ASSUME NEW queue \in Seq(PaceEvents), NEW new \in Seq(PaceEvents), NEW r,
           \A i \in DOMAIN new : new[i].type \notin CoreOps /\ ~Told(new[i], r)
    PROVE  Alike(queue, queue \o new, r)
<1>1. /\ \A i \in DOMAIN queue : i \in DOMAIN (queue \o new) /\ (queue \o new)[i] = queue[i]
      /\ \A i \in DOMAIN (queue \o new) :
            i \in DOMAIN queue \/ (i - Len(queue) \in DOMAIN new /\ (queue \o new)[i] = new[i - Len(queue)])
  OBVIOUS
<1> QED BY <1>1 DEF Alike

LEMMA AlikeRun ==
    ASSUME NEW queue \in Seq(PaceEvents), NEW s \in Inner \cup Left, NEW r
    PROVE  Alike(queue, Append(queue, Run(s)), r)
<1>1. <<Run(s)>> \in Seq(PaceEvents) /\ Append(queue, Run(s)) = queue \o <<Run(s)>>
  BY RunTyped
<1>2. "run" \notin CoreOps /\ "run" \notin NewsTypes
  BY DEF CoreOps, NewsTypes
<1>3. \A i \in DOMAIN <<Run(s)>> : <<Run(s)>>[i].type = "run"
  BY RunTyped
<1> QED BY <1>1, <1>2, <1>3, AlikeMore DEF Told

LEMMA AlikeEnter ==
    ASSUME NEW queue \in Seq(PaceEvents), NEW js, NEW next \in Inner \cup Left,
           Enter(queue, js, next), NEW r
    PROVE  Alike(queue, events', r)
<1> DEFINE left == Undelivered(queue, state)
<1>1. \A e \in PaceEvents : e.type = "connect" => [e EXCEPT !.wanted = FALSE] \in PaceEvents
                                                  /\ [e EXCEPT !.wanted = FALSE].type = "connect"
  BY DEF PaceEvents, NewsTypes, Ops
<1>2. \A i \in DOMAIN queue : queue[i] \in PaceEvents
  OBVIOUS
<1>3. left \in Seq(PaceEvents) /\ DOMAIN left = DOMAIN queue
  BY <1>1, <1>2 DEF Undelivered
<1>4. \A i \in DOMAIN queue : left[i] = queue[i] \/ (queue[i].type = "connect" /\ left[i].type = "connect")
  BY <1>1, <1>2 DEF Undelivered
<1>5. Alike(queue, left, r)
  BY <1>3, <1>4 DEF Alike
<1>6. events' = left \/ events' = Append(left, Run(next))
  BY DEF Enter
<1> HIDE DEF left
<1>7. Alike(left, Append(left, Run(next)), r)
  BY <1>3, AlikeRun
<1> QED BY <1>5, <1>6, <1>7, AlikeTwice
-----------------------------------------------------------------------------
(* What the Readers know of their cards *)

\* The main thread closes connections, and polls a reader when it drops its own.
Closes(rs) == /\ session' = Disconnected(rs) /\ opened' = Closed(rs)
              /\ UNCHANGED <<seen, info>>
LEMMA MainReaderSide ==
    ASSUME MainThread \/ NextStateRuns
    PROVE  /\ UNCHANGED <<slot, counter>>
           /\ UNCHANGED readerSide \/ ResetCardConnection \/ \E rs : Closes(rs)
<1> USE DEF rest, readerSide, kept
<1>1. CASE RunStep
  <2>1. CASE MaintainAfterCardVanished
    BY <2>1 DEF MaintainAfterCardVanished
  <2>2. CASE MaintainAborts \/ MaintainAfterWrongPassword \/ MaintainContinues
             \/ ClearPacePasswordsOnError \/ ClearPacePasswordsBeforeDestroy
             \/ SelectReader \/ ConnectCard \/ UpdateRetryCounter \/ VerifyRetryCounter
    BY <2>2 DEF MaintainAborts, MaintainAfterWrongPassword, MaintainContinues,
                ClearPacePasswordsOnError, ClearPacePasswordsBeforeDestroy, ClearPasswords,
                SelectReader, ConnectCard, UpdateRetryCounter, RunUpdate, VerifyRetryCounter
  <2>3. CASE PreparePace \/ EnterPacePassword \/ EstablishAborts
             \/ EstablishPaceChannel \/ UnfortunateCardPosition \/ DestroyPace
    BY <2>3 DEF PreparePace, EnterPacePassword, EstablishAborts, EstablishPaceChannel,
                UnfortunateCardPosition, DestroyPace, RunDestroy
  <2> QED BY <1>1, <2>1, <2>2, <2>3 DEF RunStep
<1>2. CASE ResultStep
  <2>1. CASE ConnectSucceeds
    BY <2>1 DEF ConnectSucceeds, Closes
  <2>2. CASE ConnectForgotten
    BY <2>2 DEF ConnectForgotten, Closes
  <2>3. CASE UpdateDone
    BY <2>3 DEF UpdateDone, Updated
  <2>4. CASE ConnectFails \/ DestroyDone
    BY <2>4 DEF ConnectFails, DestroyDone, Destroyed
  <2>5. CASE PaceForgotten \/ PaceSucceeds \/ PaceRefused \/ PaceInvalidPin \/ PaceFails
    BY <2>5 DEF PaceForgotten, PaceSucceeds, PaceRefused, PaceInvalidPin, PaceFails
  <2>6. CASE PaceVanished
    BY <2>6 DEF PaceVanished
  <2>7. CASE NewsArrives
    BY <2>7 DEF NewsArrives
  <2> QED BY <1>2, <2>1, <2>2, <2>3, <2>4, <2>5, <2>6, <2>7 DEF ResultStep
<1>3. CASE NextStateRuns
  BY <1>3 DEF NextStateRuns
<1> QED BY <1>1, <1>2, <1>3 DEF MainThread

LEMMA PolledKnown ==
    ASSUME DataTyped, NEW r \in Readers, slot[r] # NoCard PROVE PolledInfo(r) # Unknown
BY PaceAssumption DEF DataTyped, PolledInfo, Secrets, Tries, Unknown

LEMMA SeenKnownKeeps == ASSUME PaceIInv, SeenKnown, [Next]_vars PROVE SeenKnown'
<1>0. DataTyped /\ NoCard \notin Cards
  BY PaceAssumption DEF PaceIInv
<1>1. ASSUME UNCHANGED <<seen, info>>, \A r \in Readers : session'[r] \in Cards => session[r] \in Cards
      PROVE  SeenKnown'
  BY <1>1 DEF SeenKnown, Alive
<1>2. CASE MainThread \/ NextStateRuns
  <2>1. CASE UNCHANGED readerSide
    BY <1>1, <2>1 DEF readerSide
  <2>2. CASE ResetCardConnection
    <3> SUFFICES ASSUME NEW r \in Readers
                 PROVE  (seen'[r] => info'[r] # Unknown) /\ (session'[r] \in Cards => seen'[r])
      BY <2>2 DEF SeenKnown, Alive, ResetCardConnection
    <3>1. CASE r \in PolledReaders
      BY <1>0, <2>2, <3>1, PolledKnown DEF ResetCardConnection, Disconnected
    <3>2. CASE r \notin PolledReaders
      BY <1>0, <2>2, <3>2 DEF ResetCardConnection, Disconnected, SeenKnown, Alive
    <3> QED BY <3>1, <3>2
  <2>3. ASSUME NEW rs, Closes(rs) PROVE SeenKnown'
    BY <1>0, <1>1, <2>3 DEF Closes, Disconnected
  <2> QED BY <1>2, <2>1, <2>2, <2>3, MainReaderSide
<1>3. CASE ReaderThread
  <2>0. jobs # <<>> => Command.reader \in Readers
    BY CommandTyped DEF PaceIInv
  <2>1. CASE ExecuteConnect
    <3> DEFINE r == Command.reader
    <3>1. UNCHANGED <<seen, info>> /\ r \in Readers
          /\ \/ UNCHANGED session
             \/ seen[r] /\ session' = [session EXCEPT ![r] = slot[r]]
      BY <2>0, <2>1 DEF ExecuteConnect, Executing, Connectable
    <3> QED BY <1>0, <3>1 DEF SeenKnown, Alive, DataTyped
  <2>2. CASE ExecuteUpdate
    <3> DEFINE r == Command.reader
    <3>1. UNCHANGED <<seen, session>> /\ r \in Readers
          /\ \/ UNCHANGED info
             \/ Alive(r) /\ info' = [info EXCEPT ![r] = counter[session[r]]]
      BY <2>0, <2>2 DEF ExecuteUpdate, Executing
    <3>2. Alive(r) => counter[session[r]] # Unknown
      BY <1>0 DEF Alive, DataTyped, Tries, Unknown
    <3> QED BY <1>0, <3>1, <3>2 DEF SeenKnown, Alive, DataTyped
  <2>3. CASE ExecuteDestroy \/ ExecutePace \/ ExecutePaceInVain
    BY <1>1, <2>3 DEF ExecuteDestroy, ExecutePace, ExecutePaceInVain, readerSide
  <2> QED BY <1>3, <2>1, <2>2, <2>3 DEF ReaderThread
<1>4. CASE Environment
  <2>1. ASSUME NEW r \in Readers, TakeCard(r) PROVE SeenKnown'
    BY <1>0, <2>1, PaceAssumption DEF TakeCard, DataTyped, SeenKnown, Alive
  <2>2. ASSUME ~ \E r \in Readers : TakeCard(r) PROVE UNCHANGED <<seen, info, session>>
    BY <1>4, <2>2 DEF Environment, PutCard, reader, UserEntersPassword, UserMovesCard, untouched, kept,
              readerSide, UserChangesReaders, UserCancels, Cancel
  <2> QED BY <1>1, <2>1, <2>2
<1>5. CASE \E r \in Readers : Poll(r)
  <2>1. PICK r \in Readers : Poll(r)
    BY <1>5
  <2>2. /\ seen' = [seen EXCEPT ![r] = slot[r] # NoCard] /\ info' = [info EXCEPT ![r] = PolledInfo(r)]
        /\ session' = [session EXCEPT ![r] = NoCard]
    BY <2>1 DEF Poll
  <2>3. slot[r] # NoCard => PolledInfo(r) # Unknown
    BY <1>0, PolledKnown
  <2> SUFFICES ASSUME NEW q \in Readers
               PROVE  (seen'[q] => info'[q] # Unknown) /\ (session'[q] \in Cards => seen'[q])
    BY <2>2 DEF SeenKnown, Alive
  <2>4. CASE q = r
    BY <1>0, <2>2, <2>3, <2>4 DEF DataTyped, SeenKnown
  <2>5. CASE q # r
    BY <1>0, <2>2, <2>5 DEF SeenKnown, Alive, DataTyped
  <2> QED BY <2>4, <2>5
<1>6. CASE UNCHANGED vars
  BY <1>1, <1>6 DEF vars, reader
<1> QED BY <1>2, <1>3, <1>4, <1>5, <1>6 DEF Next, PaceStep
-----------------------------------------------------------------------------
(* What the CardConnection is told *)

LEMMA FireAlike ==
    ASSUME NEW queue \in Seq(PaceEvents), NEW s, NEW next \in Inner \cup Left, NEW r,
           Fire(queue, s, next) \/ Leave(queue, next) \/ Enter(queue, jobs, next) \/ events' = queue
    PROVE  Alike(queue, events', r)
<1>1. Enter(queue, jobs, next) \/ events' = queue
  BY DEF Fire, FireWith, Leave
<1> QED BY <1>1, AlikeEnter, AlikeSame

\* The next event, which is no news, is taken; the connection goes on.
Continues ==
    /\ events # <<>> /\ Head(events).type \notin NewsTypes
    /\ \A r \in Readers : Alike(Later, events', r)
    /\ conn' = conn \/ conn' = PaceFlags
    /\ info' = info

LEMMA RunContinues ==
    ASSUME PaceIInv, RunStep PROVE Continues \/ conn' = NoConn
<1>0. /\ \A s : Running(s) => events # <<>> /\ Head(events).type \notin NewsTypes
      /\ MachineTyped
  BY DEF Running, Run, NewsTypes, PaceIInv
<1>1. events # <<>> => Later \in Seq(PaceEvents)
  BY <1>0, LaterKinds
<1>2. /\ Inner = {"MaintainCardConnection", "ClearPacePasswordsOnError", "SelectReader",
                  "ConnectCard", "UpdateRetryCounter", "VerifyRetryCounter",
                  "PreparePace", "UnfortunateCardPosition", "EnterPacePassword",
                  "EstablishPaceChannel", "ClearPacePasswordsBeforeDestroy", "DestroyPace"}
      /\ "Aborted" \in Left
  BY DEF Inner, Left
<1> USE DEF rest, readerSide, kept, context
<1>3. ASSUME NEW s, Running(s), conn' = conn, info' = info,
             \/ \E t, next \in Inner \cup Left :
                    Fire(Later, t, next) \/ Leave(Later, next) \/ Enter(Later, jobs, next)
             \/ events' = Later
      PROVE  Continues
  BY <1>0, <1>1, <1>3, FireAlike, AlikeSame DEF Continues
<1>4. CASE MaintainAborts
  BY <1>2, <1>3, <1>4 DEF MaintainAborts
<1>5. CASE MaintainAfterWrongPassword
  BY <1>2, <1>3, <1>5 DEF MaintainAfterWrongPassword
<1>6. CASE MaintainAfterCardVanished
  BY <1>6 DEF MaintainAfterCardVanished, ResetCardConnection
<1>7. CASE MaintainContinues
  BY <1>2, <1>3, <1>7 DEF MaintainContinues
<1>8. CASE ClearPacePasswordsOnError
  BY <1>2, <1>3, <1>8 DEF ClearPacePasswordsOnError, ClearPasswords
<1>9. CASE ClearPacePasswordsBeforeDestroy
  BY <1>2, <1>3, <1>9 DEF ClearPacePasswordsBeforeDestroy, ClearPasswords
<1>10. CASE SelectReader
  BY <1>2, <1>3, <1>10 DEF SelectReader
<1>11. CASE ConnectCard
  BY <1>2, <1>3, <1>11 DEF ConnectCard
<1>12. CASE UpdateRetryCounter
  BY <1>2, <1>3, <1>12 DEF UpdateRetryCounter, RunUpdate, Invoke
<1>13. CASE VerifyRetryCounter
  BY <1>2, <1>3, <1>13 DEF VerifyRetryCounter
<1>14. CASE PreparePace
  BY <1>2, <1>3, <1>14 DEF AfterPreparePace, PreparePace
<1>15. CASE EnterPacePassword
  BY <1>2, <1>3, <1>15 DEF EnterPacePassword
<1>16. CASE EstablishAborts
  BY <1>2, <1>3, <1>16 DEF EstablishAborts
<1>17. CASE EstablishPaceChannel
  BY <1>2, <1>3, <1>17 DEF EstablishPaceChannel, Invoke
<1>18. CASE UnfortunateCardPosition
  BY <1>2, <1>3, <1>18 DEF UnfortunateCardPosition
<1>19. CASE DestroyPace
  BY <1>2, <1>3, <1>19 DEF DestroyPace, RunDestroy, Invoke
<1> QED
  BY <1>4, <1>5, <1>6, <1>7, <1>8, <1>9, <1>10, <1>11, <1>12, <1>13, <1>14, <1>15, <1>16,
     <1>17, <1>18, <1>19 DEF RunStep

LEMMA ResultContinues ==
    ASSUME PaceIInv, ResultStep
    PROVE  Continues \/ conn' = NoConn \/ ConnectSucceeds \/ NewsArrives
<1>0. /\ \A op \in Ops : Arrives(op) => events # <<>> /\ Head(events).type \notin NewsTypes
      /\ MachineTyped /\ {"connect", "update", "pace", "destroy"} \subseteq Ops
  BY DEF Arrives, NewsTypes, Ops, PaceIInv
<1>1. events # <<>> => Later \in Seq(PaceEvents)
  BY <1>0, LaterKinds
<1>2. /\ {"MaintainCardConnection", "VerifyRetryCounter", "ClearPacePasswordsBeforeDestroy",
          "ConnectCard", "UpdateRetryCounter", "DestroyPace", "EstablishPaceChannel"} \subseteq Inner
      /\ "Established" \in Left
  BY DEF Inner, Left
<1> USE DEF rest, readerSide, kept, context, link
<1>3. ASSUME NEW op \in Ops, Arrives(op), conn' = conn \/ conn' = PaceFlags, info' = info,
             \/ \E t, next \in Inner \cup Left :
                    Fire(Later, t, next) \/ Leave(Later, next)
             \/ events' = Later
      PROVE  Continues
  BY <1>0, <1>1, <1>3, FireAlike, AlikeSame DEF Continues
<1>4. CASE ConnectFails
  BY <1>0, <1>2, <1>3, <1>4 DEF ConnectFails
<1>5. CASE ConnectForgotten
  BY <1>0, <1>2, <1>3, <1>5 DEF ConnectForgotten
<1>6. CASE UpdateDone
  BY <1>0, <1>2, <1>3, <1>6 DEF UpdateDone, Updated, ResetCardConnection
<1>7. CASE DestroyDone
  BY <1>0, <1>2, <1>3, <1>7 DEF DestroyDone, Destroyed
<1>8. CASE PaceForgotten
  BY <1>0, <1>2, <1>3, <1>8 DEF PaceForgotten
<1>9. CASE PaceSucceeds
  BY <1>0, <1>2, <1>3, <1>9 DEF PaceSucceeds
<1>10. CASE PaceRefused
  BY <1>0, <1>2, <1>3, <1>10 DEF PaceRefused
<1>11. CASE PaceInvalidPin
  BY <1>0, <1>2, <1>3, <1>11 DEF PaceInvalidPin
<1>12. CASE PaceFails
  BY <1>0, <1>2, <1>3, <1>12 DEF PaceFails
<1>13. CASE PaceVanished
  BY <1>13 DEF PaceVanished, ResetCardConnection
<1> QED
  BY <1>4, <1>5, <1>6, <1>7, <1>8, <1>9, <1>10, <1>11, <1>12, <1>13 DEF ResultStep

LEMMA FlagsKeep ==
    ASSUME DataTyped, conn # NoConn
    PROVE  /\ PaceFlags # NoConn /\ PaceFlags.reader = conn.reader
           /\ PaceFlags.counter = conn.counter /\ conn.reader \in Readers
           /\ Arrived.password = "CAN" => PaceFlags.can = (Arrived.code = "OK")
           /\ Arrived.password = "PIN" => PaceFlags.can = (Arrived.code = "OK" /\ conn.can)
           /\ Arrived.password \notin {"CAN", "PIN"} => PaceFlags = conn
<1> DEFINE ok == Arrived.code = "OK"
           first == [conn EXCEPT !.can = ok]
           second == [conn EXCEPT !.pin = ok, !.can = ok /\ conn.can]
<1>1. conn \in [reader : Readers, counter : Counters, can : BOOLEAN, pin : BOOLEAN]
  BY DEF DataTyped, Connections
<1>2. /\ first.counter = conn.counter /\ second.counter = conn.counter
      /\ first.can = ok /\ second.can = (ok /\ conn.can) /\ conn.reader \in Readers
  BY <1>1
<1>3. /\ Arrived.password = "CAN" => PaceFlags = first
      /\ Arrived.password = "PIN" => PaceFlags = second
      /\ Arrived.password \notin {"CAN", "PIN"} => PaceFlags = conn
  BY DEF PaceFlags
<1>4. PaceFlags \in {first, second, conn}
  BY <1>3
<1> HIDE DEF first, second
<1> QED BY <1>2, <1>3, <1>4, FlagsKeepReader

\* The connection takes over what it is told.
LEMMA ConnTold ==
    ASSUME DataTyped, NEW e \in PaceEvents, NewsTaken(e), conn # NoConn, e.type \in NewsTypes
    PROVE  /\ conn' # NoConn /\ conn'.reader = conn.reader /\ conn'.can = conn.can
           /\ conn'.counter = IF Told(e, conn.reader) THEN e.counter ELSE conn.counter
           /\ ~Told(e, conn.reader) => conn' = conn
<1>1. conn \in [reader : Readers, counter : Counters, can : BOOLEAN, pin : BOOLEAN]
  BY DEF DataTyped, Connections
<1>2. e.subscribed /\ Subscribed(e.reader) <=> Told(e, conn.reader)
  BY DEF Told, Subscribed
<1>3. conn.reader # NoReader /\ NoConn.reader = NoReader
  BY <1>1, PaceAssumption DEF NoConn
<1>4. CASE Told(e, conn.reader)
  BY <1>1, <1>2, <1>3, <1>4 DEF NewsTaken
<1>5. CASE ~Told(e, conn.reader)
  BY <1>2, <1>5 DEF NewsTaken
<1> QED BY <1>4, <1>5

LEMMA TracksAlike ==
    ASSUME DataTyped, NEW queue, conn # NoConn, Tracks(queue, conn.reader, conn.counter, info[conn.reader]),
           conn' = conn \/ conn' = PaceFlags, Alike(queue, events', conn.reader),
           info'[conn.reader] = info[conn.reader]
    PROVE  Heard'
<1>1. conn'.reader = conn.reader /\ conn'.counter = conn.counter
  BY FlagsKeep
<1>2. Tracks(events', conn.reader, conn.counter, info[conn.reader])
  BY AlikeKeeps
<1> QED BY <1>1, <1>2 DEF Heard

LEMMA ContinuesHeard == ASSUME PaceIInv, Heard, Continues PROVE Heard'
<1>0. MachineTyped /\ DataTyped /\ events \in Seq(PaceEvents)
  BY DEF PaceIInv, MachineTyped
<1>1. CASE conn = NoConn
  BY <1>0, <1>1, FlagsKeepReader DEF Continues, Heard
<1>2. CASE conn # NoConn
  <2>1. conn.reader \in Readers
    BY <1>0, <1>2, FlagsKeep
  <2>2. ~Told(Head(events), conn.reader)
    BY DEF Continues, Told
  <2>3. Tracks(Later, conn.reader, conn.counter, info[conn.reader])
    BY <1>0, <1>2, <2>2, QuietTail DEF Heard, Continues, Later
  <2> QED BY <1>0, <1>2, <2>1, <2>3, TracksAlike DEF Continues
<1> QED BY <1>1, <1>2

\* The first news come to a new connection after all that are known.
LEMMA UnsubscribedQuiet ==
    ASSUME NEW queue \in Seq(PaceEvents), NEW r
    PROVE  Quiet(Unsubscribed(queue), r) /\ Unsubscribed(queue) \in Seq(PaceEvents)
<1>1. \A i \in DOMAIN queue : queue[i] \in PaceEvents
  OBVIOUS
<1>2. \A e \in PaceEvents : e.type \in NewsTypes =>
          /\ [e EXCEPT !.subscribed = FALSE].subscribed = FALSE
          /\ [e EXCEPT !.subscribed = FALSE] \in PaceEvents
  BY DEF PaceEvents, NewsTypes, Ops
<1>3. \A i \in DOMAIN queue : ~Told(Unsubscribed(queue)[i], r)
  BY <1>1, <1>2 DEF Unsubscribed, Told
<1>4. DOMAIN Unsubscribed(queue) = DOMAIN queue
  BY DEF Unsubscribed
<1>5. Unsubscribed(queue) \in Seq(PaceEvents)
  BY <1>1, <1>2 DEF Unsubscribed
<1> QED BY <1>3, <1>4, <1>5 DEF Quiet

LEMMA ConnectHeard == ASSUME PaceIInv, ConnectSucceeds PROVE Heard'
<1> DEFINE queue == Unsubscribed(Later)
<1>0. MachineTyped /\ DataTyped
  BY DEF PaceIInv
<1>1. /\ events # <<>> /\ info' = info
      /\ conn' = [reader |-> Arrived.reader, counter |-> info[Arrived.reader], can |-> FALSE, pin |-> FALSE]
  BY DEF ConnectSucceeds, Arrives
<1>2. queue \in Seq(PaceEvents) /\ Quiet(queue, Arrived.reader)
  BY <1>0, <1>1, LaterKinds, UnsubscribedQuiet
<1>3. \/ events' = queue
      \/ \E next \in Inner : Fire(queue, "ConnectCard", next)
  BY DEF Inner, ConnectSucceeds
<1> HIDE DEF queue
<1>4. Alike(queue, events', Arrived.reader)
  BY <1>2, <1>3, FireAlike, AlikeSame
<1>5. Quiet(events', Arrived.reader)
  BY <1>2, <1>4, AlikeKeeps
<1> QED BY <1>1, <1>5 DEF Heard, Tracks

LEMMA NewsHeard == ASSUME PaceIInv, Heard, NewsArrives PROVE Heard'
<1>0. MachineTyped /\ DataTyped /\ events \in Seq(PaceEvents)
  BY DEF PaceIInv, MachineTyped
<1>1. /\ events # <<>> /\ NewsTaken(Arrived) /\ Arrived.type \in NewsTypes
      /\ info' = info /\ Arrived \in PaceEvents
  BY <1>0, HeadTyped DEF ArrivedFits, NewsArrives, readerSide, Arrived
<1>2. Later \in Seq(PaceEvents)
  BY <1>0, <1>1, LaterKinds
<1>3. events' = Later \/ \E js : Enter(Later, js, "ConnectCard")
  BY DEF NewsArrives
<1>4. \A r : Alike(Later, events', r)
  BY <1>2, <1>3, AlikeEnter, AlikeSame DEF Inner
<1>5. CASE conn = NoConn
  BY <1>1, <1>5 DEF NewsTaken, Subscribed, Heard
<1>6. CASE conn # NoConn
  <2> DEFINE last == IF Told(Arrived, conn.reader) THEN Arrived.counter ELSE conn.counter
  <2>1. conn'.reader = conn.reader /\ conn'.counter = last
    BY <1>0, <1>1, <1>6, ConnTold
  <2>2. Tracks(Later, conn.reader, last, info[conn.reader])
    BY <1>0, <1>1, <1>6, QuietTail DEF Heard, Later, Arrived
  <2> HIDE DEF last
  <2>3. Tracks(events', conn.reader, last, info[conn.reader])
    BY <1>4, <2>2, AlikeKeeps
  <2> QED BY <1>1, <2>1, <2>3 DEF Heard
<1> QED BY <1>5, <1>6

\* Something is appended that is news of another reader, or no news.
LEMMA TracksMore ==
    ASSUME NEW queue \in Seq(PaceEvents), NEW e \in PaceEvents, NEW r, NEW last, NEW known, NEW now,
           Tracks(queue, r, last, known),
           IF Told(e, r) THEN e.counter = now ELSE known = now
    PROVE  Tracks(queue \o <<e>>, r, last, now)
<1> DEFINE long == queue \o <<e>>
<1>1. /\ Len(long) = Len(queue) + 1 /\ Len(queue) \in Nat /\ long \in Seq(PaceEvents)
      /\ \A i \in 1..Len(queue) : long[i] = queue[i]
      /\ long[Len(queue) + 1] = e
  OBVIOUS
<1> HIDE DEF long
<1>2. /\ Len(queue) + 1 \in DOMAIN long
      /\ \A i \in DOMAIN long : i \in DOMAIN queue \/ i = Len(queue) + 1
      /\ \A i \in DOMAIN queue : i \in DOMAIN long /\ long[i] = queue[i]
      /\ \A i \in DOMAIN long : ~(i > Len(queue) + 1)
  BY <1>1
<1>3. CASE Told(e, r)
  BY <1>1, <1>2, <1>3 DEF QuietAfter, Tracks, long
<1>4. CASE ~Told(e, r)
  BY <1>1, <1>2, <1>4 DEF Quiet, QuietAfter, Tracks, long
<1> QED BY <1>3, <1>4

LEMMA ThreadHeard == ASSUME PaceIInv, Heard, SeenKnown, ReaderThread PROVE Heard'
<1>0. MachineTyped /\ DataTyped /\ jobs # <<>> /\ events \in Seq(PaceEvents)
  BY ThreadReports DEF PaceIInv, MachineTyped
<1>1. Command.reader \in Readers /\ Command \in PaceJobs
  BY <1>0, CommandTyped
<1> DEFINE done(code) == Done(Command.op, Command.reader, Command.password, code, Command.wanted)
<1>2. \A code \in Codes : done(code) \in PaceEvents /\ done(code).type \notin NewsTypes
  BY <1>1 DEF PaceJobs, Done, PaceEvents, NewsTypes, Ops
<1> HIDE DEF done
<1>3. ASSUME NEW code \in Codes, Report(<<>>, code), info' = info PROVE Heard'
  <2>1. events' = (events \o <<>>) \o <<done(code)>> /\ conn' = conn /\ events \o <<>> = events
    BY <1>0, <1>3 DEF Report, mainSide, link, done
  <2>2. \A r : ~Told(done(code), r)
    BY <1>2, <1>3 DEF Told
  <2>3. \A r, last, known : Tracks(events, r, last, known) => Tracks(events \o <<done(code)>>, r, last, known)
    BY <1>0, <1>2, <1>3, <2>2, TracksMore
  <2> QED BY <1>3, <2>1, <2>3 DEF Heard
<1>4. CASE ExecuteUpdate
  <2> DEFINE r == Command.reader
             tries == counter[session[r]]
             changed == info[r] # Unknown /\ info[r] # tries
             news == News("retryCounter", r, session[r], tries, Subscribed(r))
  <2>1. CASE info' = info
    <3>1. \E code \in Codes : Report(<<>>, code) \/ (changed /\ Alive(r) /\ info' = [info EXCEPT ![r] = tries])
      BY <1>4 DEF ExecuteUpdate, Codes, Unrecoverable
    <3>2. ~(changed /\ info' = [info EXCEPT ![r] = tries])
      BY <1>0, <1>1, <2>1 DEF DataTyped
    <3> QED BY <1>3, <2>1, <3>1, <3>2
  <2>2. CASE info' # info
    <3>1. /\ Alive(r) /\ info' = [info EXCEPT ![r] = tries]
          /\ Report(IF changed THEN <<news>> ELSE <<>>, "OK")
      BY <1>4, <2>2 DEF ExecuteUpdate
    <3>2. info[r] # Unknown
      BY <1>1, <3>1 DEF SeenKnown
    <3>3. info'[r] = tries /\ \A q \in Readers : q # r => info'[q] = info[q]
      BY <1>0, <1>1, <3>1 DEF DataTyped
    <3>4. changed
      BY <1>0, <1>1, <2>2, <3>1, <3>2 DEF DataTyped
    <3>5. /\ events' = (events \o <<news>>) \o <<done("OK")>> /\ conn' = conn
      BY <3>1, <3>4 DEF Report, mainSide, link, done
    <3>6. news \in PaceEvents /\ news.counter = tries /\ news.subscribed = Subscribed(r) /\ news.reader = r
          /\ news.type \in NewsTypes
      BY <1>0, <1>1, <3>1 DEF Alive, DataTyped, Counters, Secrets, News, PaceEvents, NewsTypes, Subscribed
    <3> HIDE DEF news, changed
    <3>7. CASE conn = NoConn
      BY <3>5, <3>7 DEF Heard
    <3>8. CASE conn # NoConn
      <4> DEFINE q == conn.reader
      <4>1. q \in Readers
        BY <1>0, <3>8, FlagsKeep
      <4>2. IF Told(news, q) THEN news.counter = info'[q] ELSE info[q] = info'[q]
        BY <3>3, <3>6, <3>8, <4>1 DEF Told, Subscribed
      <4>3. Tracks(events, q, conn.counter, info[q])
        BY <3>8 DEF Heard
      <4>4. Tracks(events \o <<news>>, q, conn.counter, info'[q])
        BY <1>0, <3>6, <4>2, <4>3, TracksMore
      <4>5. events \o <<news>> \in Seq(PaceEvents)
        BY <1>0, <3>6
      <4>6. done("OK") \in PaceEvents /\ ~Told(done("OK"), q)
        BY <1>2 DEF Codes, Told
      <4>7. Tracks((events \o <<news>>) \o <<done("OK")>>, q, conn.counter, info'[q])
        BY <4>4, <4>5, <4>6, TracksMore
      <4> QED BY <3>5, <4>7 DEF Heard
    <3> QED BY <3>7, <3>8
  <2> QED BY <2>1, <2>2
<1>5. CASE ExecuteConnect \/ ExecuteDestroy \/ ExecutePace \/ ExecutePaceInVain
  <2>1. info' = info
    BY <1>5 DEF ExecuteConnect, ExecuteDestroy, ExecutePace, ExecutePaceInVain, readerSide
  <2>2. \E code \in Codes : Report(<<>>, code)
    <3>1. \A secret : Alive(Command.reader) => Judged(Command.reader, Command.password, secret).code \in Codes
      BY <1>0, <1>1, JudgedTyped
    <3>2. \A r : NotAsked(r) \subseteq Codes
      BY DEF NotAsked, Codes, WrongPassword, Unrecoverable
    <3>3. {"OK", "COMMAND_FAILED", "CARD_NOT_FOUND"} \subseteq Codes
      BY DEF Codes, Unrecoverable
    <3>4. ExecutePace => \E code \in Codes : Report(<<>>, code)
      BY <3>1, <3>3 DEF ExecutePace, ReachesCard
    <3> QED BY <1>5, <3>2, <3>3, <3>4 DEF ExecuteConnect, ExecuteDestroy, ExecutePaceInVain
  <2> QED BY <1>3, <2>1, <2>2
<1> QED BY <1>4, <1>5 DEF ReaderThread

LEMMA EnvironmentAlike ==
    ASSUME PaceIInv, Environment
    PROVE  /\ UNCHANGED <<conn, info, seen>>
           /\ \A r : Alike(events, events', r)
<1>0. MachineTyped /\ events \in Seq(PaceEvents) /\ state \in Inner \cup Left
  BY DEF PaceIInv, MachineTyped
<1> USE DEF machineSide, link, reader, untouched, kept, readerSide
<1>1. ASSUME UNCHANGED events PROVE \A r : Alike(events, events', r)
  BY <1>1, AlikeSame
<1>2. ASSUME events' = Append(events, Run(state)) PROVE \A r : Alike(events, events', r)
  BY <1>0, <1>2, AlikeRun
<1>3. CASE \E r \in Readers : TakeCard(r) \/ \E c \in Cards : PutCard(r, c)
  BY <1>1, <1>3 DEF TakeCard, PutCard
<1>4. CASE UserEntersPassword \/ UserMovesCard
  BY <1>2, <1>4 DEF UserEntersPassword, UserMovesCard, Approve
<1>5. CASE UserChangesReaders
  BY <1>0, <1>5, AlikeEnter DEF UserChangesReaders, Inner
<1>6. ASSUME NEW kill \in BOOLEAN, UserCancels(kill)
      PROVE  UNCHANGED <<conn, info, seen>> /\ \A r : Alike(events, events', r)
  <2>1. PICK queue \in {events, Append(events, Run(state))} : Enter(queue, jobs, AbortTarget)
    BY <1>6 DEF UserCancels, Cancel
  <2>2. AbortTarget \in Inner \cup Left
    BY DEF AbortTarget, Inner, Left
  <2>3. queue = events \/ queue = Append(events, Run(state))
    BY <2>1
  <2>4. Append(events, Run(state)) \in Seq(PaceEvents) /\ \A r : Alike(events, Append(events, Run(state)), r)
    BY <1>0, AlikeRun, RunTyped
  <2>5. queue \in Seq(PaceEvents) /\ \A r : Alike(events, queue, r)
    BY <1>0, <2>3, <2>4, AlikeSame
  <2>6. Enter(queue, jobs, AbortTarget)
    BY <2>1
  <2>7. \A r : Alike(queue, events', r)
    BY <2>2, <2>5, <2>6, AlikeEnter
  <2>8. \A r : Alike(events, events', r)
    BY <2>5, <2>7, AlikeTwice
  <2>9. UNCHANGED <<conn, info, seen>>
    BY <1>6 DEF UserCancels, Cancel
  <2> QED BY <2>8, <2>9
<1> QED BY <1>3, <1>4, <1>5, <1>6 DEF Environment

LEMMA PollHeard == ASSUME PaceIInv, Heard, NEW r \in Readers, Poll(r) PROVE Heard'
<1> DEFINE q == conn.reader
           news == PolledNews(r, Subscribed(r))
<1>0. DataTyped /\ events \in Seq(PaceEvents)
  BY DEF PaceIInv, MachineTyped
<1>1. /\ events' = events \o news /\ conn' = conn /\ Noticed(r)
      /\ info' = [info EXCEPT ![r] = PolledInfo(r)]
  BY DEF Poll, machineSide, link
<1>2. CASE conn = NoConn
  BY <1>1, <1>2 DEF Heard
<1>3. CASE conn # NoConn
  <2>1. q \in Readers /\ Tracks(events, q, conn.counter, info[q])
    BY <1>0, <1>3, FlagsKeep DEF Heard
  <2>2. PICK e \in PaceEvents : /\ news = <<e>> /\ e.counter = PolledInfo(r) /\ e.reader = r
                                /\ e.type \in NewsTypes /\ e.subscribed = Subscribed(r)
    <3>1. slot[r] # NoCard => News("inserted", r, slot[r], counter[slot[r]], Subscribed(r)) \in PaceEvents
      BY <1>0 DEF DataTyped, Secrets, Counters, News, PaceEvents, NewsTypes, Subscribed
    <3>2. News("removed", r, NoCard, Unknown, Subscribed(r)) \in PaceEvents
      BY <1>0 DEF Secrets, Counters, News, PaceEvents, NewsTypes, Subscribed
    <3>3. CASE slot[r] # NoCard
      BY <1>1, <3>1, <3>3 DEF PolledNews, News, PolledInfo, NewsTypes
    <3>4. CASE slot[r] = NoCard
      BY <1>1, <3>2, <3>4 DEF PolledNews, News, PolledInfo, NewsTypes
    <3> QED BY <3>3, <3>4
  <2> HIDE DEF news
  <2>3. info'[r] = PolledInfo(r) /\ (q # r => info'[q] = info[q])
    BY <1>0, <1>1, <2>1 DEF DataTyped
  <2>4. IF Told(e, q) THEN e.counter = info'[q] ELSE info[q] = info'[q]
    BY <1>3, <2>2, <2>3 DEF Told, Subscribed
  <2>5. Tracks(events \o <<e>>, q, conn.counter, info'[q])
    BY <1>0, <2>1, <2>2, <2>4, TracksMore
  <2> QED BY <1>1, <2>2, <2>5 DEF Heard
<1> QED BY <1>2, <1>3

LEMMA HeardKeeps == ASSUME PaceIInv, SeenKnown, Heard, [Next]_vars PROVE Heard'
<1>0. DataTyped
  BY DEF PaceIInv
<1>1. CASE RunStep \/ ResultStep
  BY <1>1, ContinuesHeard, ConnectHeard, NewsHeard, RunContinues, ResultContinues DEF Heard
<1>2. CASE ReaderThread
  BY <1>2, ThreadHeard
<1>3. CASE Environment
  BY <1>0, <1>3, EnvironmentAlike, TracksAlike DEF Heard
<1>4. CASE \E r \in Readers : Poll(r)
  BY <1>4, PollHeard
<1>5. CASE NextStateRuns
  <2>1. Continues
    <3>1. /\ events # <<>> /\ events' = Later /\ UNCHANGED <<conn, info>>
          /\ Head(events) \in {Run(s) : s \in Left}
      BY <1>5 DEF NextStateRuns, kept, readerSide
    <3>2. Head(events).type = "run"
      <4>1. PICK s \in Left : Head(events) = Run(s)
        BY <3>1
      <4> QED BY <4>1 DEF Run
    <3>3. \A r \in Readers : Alike(Later, events', r)
      BY <3>1, AlikeSame
    <3> QED BY <3>1, <3>2, <3>3 DEF Continues, NewsTypes
  <2> QED BY <2>1, ContinuesHeard
<1>6. CASE UNCHANGED vars
  BY <1>6 DEF vars, link, reader, Heard
<1> QED BY <1>1, <1>2, <1>3, <1>4, <1>5, <1>6 DEF Next, PaceStep, MainThread
-----------------------------------------------------------------------------
(* What the states know of the tries *)

\* No command is under way that a state waits for, nor a result.
Bare(queue, js) ==
    /\ \A i \in DOMAIN queue : queue[i].type \notin CoreOps
    /\ \A i \in DOMAIN js : js[i].op \notin CoreOps
Alone(js) == \A i \in DOMAIN js : js[i].op # "connect"

LEMMA EmptyBare ==
    ASSUME NEW queue \in Seq(PaceEvents), NEW js \in Seq(PaceJobs), Empty(Kinds(queue), Commands(js))
    PROVE  Bare(queue, js)
<1>1. /\ DOMAIN Kinds(queue) = DOMAIN queue /\ \A i \in DOMAIN queue : Kinds(queue)[i] = Kind(queue[i])
      /\ DOMAIN Commands(js) = DOMAIN js /\ \A i \in DOMAIN js : Commands(js)[i] = js[i].op
  BY DEF Kinds, Commands
<1>2. "run" \notin CoreOps /\ CoreOps \subseteq CoreKinds
  BY DEF CoreOps, CoreKinds
<1>3. ASSUME NEW i \in DOMAIN queue PROVE queue[i].type \notin CoreOps
  BY <1>1, <1>2 DEF Empty, None, Kind
<1>4. \A i \in DOMAIN js : js[i].op \notin CoreOps
  BY <1>1 DEF Empty, None
<1> QED BY <1>3, <1>4 DEF Bare

LEMMA EnterBare ==
    ASSUME NEW queue \in Seq(PaceEvents), NEW js \in Seq(PaceJobs), NEW next \in Inner \cup Left,
           Enter(queue, js, next), Bare(queue, js)
    PROVE  Bare(events', jobs') /\ (Alone(js) => Alone(jobs'))
<1>1. Alike(queue, events', NoReader)
  BY AlikeEnter
<1>2. \A k \in DOMAIN events' : events'[k].type \notin CoreOps
  BY <1>1, AlikeKeeps DEF Bare
<1>3. \A i \in DOMAIN js : js[i] \in PaceJobs
  OBVIOUS
<1>4. \A j \in PaceJobs : [j EXCEPT !.wanted = FALSE].op = j.op
  BY DEF PaceJobs
<1>5. DOMAIN jobs' = DOMAIN js /\ \A i \in DOMAIN js : jobs'[i].op = js[i].op
  BY <1>3, <1>4 DEF Enter, Forgotten
<1> QED BY <1>2, <1>5 DEF Bare, Alone

LEMMA BareAnswers ==
    ASSUME NEW queue, NEW js, Bare(queue, js)
    PROVE  /\ \A c, known, tries, accepted : Answers(queue, c, known, tries, accepted)
           /\ \A q, c, tries : Attempts(js, q, c, tries)
           /\ \A k \in DOMAIN queue : queue[k].type # "pace"
           /\ \A k \in DOMAIN js : js[k].op # "pace"
<1>1. {"update", "pace"} \subseteq CoreOps
  BY DEF CoreOps
<1> QED BY <1>1 DEF Bare, Answers, Attempts

\* Nothing is said to the connection on the way.
LEMMA StillQuiet ==
    ASSUME NEW old, NEW new, NEW c, Quiet(old, c.reader) => Quiet(new, c.reader)
    PROVE  /\ \A s, result, told, type, tries, accepted :
                  ByState(s, old, result, told, type, c, tries, accepted)
                      => ByState(s, new, result, told, type, c, tries, accepted)
           /\ \A js, tries : Attempts(js, old, c, tries) => Attempts(js, new, c, tries)
BY DEF ByState, Attempts, Settled

LEMMA EnterTries ==
    ASSUME NEW queue \in Seq(PaceEvents), NEW js \in Seq(PaceJobs), NEW next \in Inner \cup Left,
           Enter(queue, js, next), Bare(queue, js),
           ~error' /\ conn' # NoConn => Alone(js),
           ~error' /\ next \in Unconnected => conn' = NoConn,
           ~error' /\ next \in {"ClearPacePasswordsBeforeDestroy", "DestroyPace"} => lastPace' # "OK",
           pwType' = "PIN" => ~CanAllowed,
           ~error' /\ Watched' => ByState(next, queue, lastPace', expected', pwType', conn',
                                          counter'[session'[conn'.reader]], opened'[conn'.reader])
    PROVE  TriesKept'
<1>1. Bare(events', jobs') /\ (Alone(js) => Alone(jobs')) /\ state' = next
  BY EnterBare DEF Enter
<1>2. Waited' /\ PinSafe'
  BY <1>1, BareAnswers DEF Waited, Bare, PinSafe
<1>3. Linked' /\ Resumed'
  BY <1>1 DEF Linked, Resumed, Alone
<1>4. ~error' /\ Watched' => Followed'
  <2> SUFFICES ASSUME ~error', Watched' PROVE Followed'
    OBVIOUS
  <2> DEFINE tries == counter'[session'[conn'.reader]]
             accepted == opened'[conn'.reader]
  <2>1. ByState(next, queue, lastPace', expected', pwType', conn', tries, accepted)
    OBVIOUS
  <2>2. Alike(queue, events', conn'.reader)
    BY AlikeEnter
  <2>3. Quiet(queue, conn'.reader) => Quiet(events', conn'.reader)
    BY <2>2, AlikeKeeps
  <2> HIDE DEF tries, accepted
  <2>4. ByState(state', events', lastPace', expected', pwType', conn', tries, accepted)
    BY <1>1, <2>1, <2>3, StillQuiet
  <2>5. /\ Answers(events', conn', info'[conn'.reader], tries, accepted)
        /\ Attempts(jobs', events', conn', tries)
    BY <1>1, BareAnswers
  <2> QED BY <2>4, <2>5 DEF Followed, tries, accepted
<1> QED BY <1>2, <1>3, <1>4 DEF TriesKept
-----------------------------------------------------------------------------
(* run() of the states, and the tries *)

Known(s, queue) ==
    ByState(s, queue, lastPace, expected, pwType, conn, counter[session[conn.reader]], opened[conn.reader])

LEMMA TakenTries ==
    ASSUME PaceIInv, Normal, ~error, TriesKept, events # <<>>, Kind(Head(events)) \in CoreKinds
    PROVE  /\ Later \in Seq(PaceEvents) /\ jobs \in Seq(PaceJobs) /\ events \in Seq(PaceEvents)
           /\ Bare(Later, jobs) /\ (conn # NoConn => Alone(jobs))
           /\ Watched /\ Head(events).type # "pace" => Known(state, events) /\ Known(state, Later)
           /\ Watched => Answers(events, conn, info[conn.reader], counter[session[conn.reader]],
                                 opened[conn.reader])
<1>0. MachineTyped
  BY DEF PaceIInv
<1>1. /\ Later \in Seq(PaceEvents) /\ jobs \in Seq(PaceJobs)
      /\ Empty(Kinds(Later), Commands(jobs))
  BY Taken
<1>2. Bare(Later, jobs) /\ events \in Seq(PaceEvents)
  BY <1>0, <1>1, EmptyBare DEF MachineTyped
<1>3. conn # NoConn => Alone(jobs)
  BY DEF TriesKept, Linked, Alone
<1>4. ASSUME Watched, Head(events).type # "pace" PROVE Known(state, events) /\ Known(state, Later)
  <2>1. \A i \in DOMAIN events : i = 1 \/ (i - 1 \in DOMAIN Later /\ events[i] = Later[i - 1])
    BY <1>2 DEF Later
  <2>2. Head(events) = events[1]
    BY <1>2
  <2>3. \A k \in DOMAIN events : events[k].type # "pace"
    BY <1>2, <1>4, <2>1, <2>2, BareAnswers
  <2>4. ~Trying
    BY <1>2, <2>3, BareAnswers DEF Trying
  <2>5. Known(state, events)
    BY <1>4, <2>4 DEF TriesKept, Followed, Known
  <2>6. Quiet(events, conn.reader) => Quiet(Later, conn.reader)
    BY <1>2, QuietTail DEF Later
  <2> QED BY <2>5, <2>6, StillQuiet DEF Known
<1>5. Watched => Answers(events, conn, info[conn.reader], counter[session[conn.reader]],
                         opened[conn.reader])
  BY DEF TriesKept, Followed
<1> QED BY <1>1, <1>2, <1>3, <1>4, <1>5

LEMMA RunFinds ==
    ASSUME PaceIInv, Normal, ~error, TriesKept, NEW s \in Inner \cup Left, Running(s)
    PROVE  /\ state = s /\ Later \in Seq(PaceEvents) /\ jobs \in Seq(PaceJobs)
           /\ Bare(Later, jobs) /\ (conn # NoConn => Alone(jobs))
           /\ s \in Unconnected => conn = NoConn
           /\ s \in HasConn => conn # NoConn
           /\ Watched => Known(s, Later)
<1>1. state = s /\ events # <<>> /\ Kind(Head(events)) = s /\ s \in CoreKinds
  BY NormalRun, RunKind DEF CoreKinds
<1>2. Head(events).type # "pace"
  BY DEF Running, Run
<1>3. /\ s \in Unconnected => conn = NoConn
      /\ s \in HasConn => conn # NoConn
  BY <1>1 DEF TriesKept, Linked, Normal
<1> QED BY <1>1, <1>2, <1>3, TakenTries

LEMMA RunMoves ==
    ASSUME PaceIInv, Normal, ~error, TriesKept, NEW s \in Inner, Running(s),
           NEW next \in Inner, Fire(Later, s, next), UNCHANGED <<readerSide, counter, conn>>,
           ~error' /\ next \in Unconnected => conn = NoConn,
           ~error' /\ next \in {"ClearPacePasswordsBeforeDestroy", "DestroyPace"} => lastPace' # "OK",
           pwType' = pwType \/ (pwType' = "PIN" => ~CanAllowed),
           ~error' /\ Watched /\ Known(s, Later)
               => ByState(next, Later, lastPace', expected', pwType', conn,
                          counter[session[conn.reader]], opened[conn.reader])
    PROVE  TriesKept'
<1>1. /\ state = s /\ Later \in Seq(PaceEvents) /\ jobs \in Seq(PaceJobs)
      /\ Bare(Later, jobs) /\ (conn # NoConn => Alone(jobs))
      /\ Watched => Known(s, Later)
  BY RunFinds
<1>2. Enter(Later, jobs, next)
  BY <1>1 DEF Fire, FireWith
<1>3. Watched' = Watched
  BY DEF Watched, Alive, readerSide
<1>4. pwType' = "PIN" => ~CanAllowed
  BY DEF TriesKept, Resumed
<1>5. ~error' /\ Watched' => ByState(next, Later, lastPace', expected', pwType', conn',
                                     counter'[session'[conn'.reader]], opened'[conn'.reader])
  BY <1>1, <1>3 DEF readerSide
<1> QED BY <1>1, <1>2, <1>4, <1>5, EnterTries

LEMMA RunInvokes ==
    ASSUME PaceIInv, Normal, ~error, TriesKept, NEW s \in Inner, Running(s), conn # NoConn,
           NEW job \in PaceJobs, Invoke(Later, job), job.wanted, job.reader = conn.reader, job.op # "connect",
           UNCHANGED <<readerSide, counter, conn, lastPace, expected, pwType, error>>,
           job.op = "pace" => s = "EstablishPaceChannel" /\ job.password = pwType
    PROVE  TriesKept'
<1> DEFINE tries == counter[session[conn.reader]]
           accepted == opened[conn.reader]
<1>1. /\ state = s /\ Later \in Seq(PaceEvents) /\ jobs \in Seq(PaceJobs)
      /\ Bare(Later, jobs) /\ Alone(jobs) /\ (s \in Unconnected => conn = NoConn)
      /\ Watched => Known(s, Later)
  BY RunFinds
<1>2. events' = Later /\ jobs' = Append(jobs, job) /\ state' = s
  BY <1>1 DEF Invoke
<1>3. \A i \in DOMAIN jobs' : jobs'[i] = job \/ (i \in DOMAIN jobs /\ jobs'[i] = jobs[i])
  BY <1>1, <1>2
<1>4. Linked' /\ Waited' /\ Resumed'
  <2>1. Linked'
    BY <1>1, <1>2, <1>3 DEF Linked, Alone
  <2>2. Waited'
    BY <1>1, <1>2, <1>3 DEF Waited, Bare, Ours
  <2>3. Resumed'
    BY <1>1, <1>2 DEF TriesKept, Resumed
  <2> QED BY <2>1, <2>2, <2>3
<1>5. /\ \A k \in DOMAIN jobs' : jobs'[k].op = "pace" => jobs'[k] = job
      /\ \A c, known : Answers(events', c, known, tries, accepted)
  BY <1>1, <1>2, <1>3, BareAnswers
<1>6. Watched' = Watched
  BY DEF Watched, Alive, readerSide
<1>7. Watched /\ s = "EstablishPaceChannel" =>
          Settled(Later, conn, tries) /\ Unlocked(conn, accepted) /\ Fitting(expected, conn, pwType)
  BY <1>1 DEF Known, ByState, Certain
<1>8. PinSafe'
  <2> SUFFICES ASSUME job.op = "pace", job.password = "PIN"
               PROVE  /\ Alone(jobs')
                      /\ Alive(job.reader) => /\ tries = expected.counter
                                              /\ tries \in {2, 3} \/ (tries = 1 /\ accepted = "CAN")
    BY <1>5 DEF PinSafe, Alone, Alive, readerSide
  <2>1. Alone(jobs')
    BY <1>1, <1>3 DEF Alone
  <2>2. pwType = "PIN" /\ ~CanAllowed
    BY DEF TriesKept, Resumed
  <2>3. ASSUME Alive(job.reader)
        PROVE  /\ tries = expected.counter
               /\ tries \in {2, 3} \/ (tries = 1 /\ accepted = "CAN")
    BY <1>7, <2>2, <2>3 DEF Watched, Settled, Unlocked, Fitting
  <2> QED BY <2>1, <2>3
<1>9. ASSUME Watched' PROVE Followed'
  <2>1. Known(s, Later) /\ Watched
    BY <1>1, <1>6, <1>9
  <2>2. Attempts(jobs', events', conn, tries)
    BY <1>2, <1>5, <1>7, <2>1 DEF Fitting, Unlocked, Types, Attempts
  <2>3. ByState(state', events', lastPace', expected', pwType', conn', tries, accepted)
    BY <1>2, <2>1 DEF Known
  <2>4. /\ counter'[session'[conn'.reader]] = tries /\ opened'[conn'.reader] = accepted
        /\ conn' = conn
    BY DEF readerSide
  <2> HIDE DEF tries, accepted
  <2> QED BY <1>5, <2>2, <2>3, <2>4 DEF Followed
<1> QED BY <1>4, <1>8, <1>9 DEF TriesKept

LEMMA ConnectOnly ==
    \A name, known : \A i \in DOMAIN ConnectJobs(name, known) : ConnectJobs(name, known)[i].op = "connect"
<1> SUFFICES ASSUME NEW name, NEW known, NEW i \in DOMAIN ConnectJobs(name, known)
             PROVE  ConnectJobs(name, known)[i].op = "connect"
  OBVIOUS
<1> DEFINE job == Job("connect", name, "PIN", NoCard)
<1>1. job.op = "connect"
  BY DEF Job
<1> HIDE DEF job
<1>2. ConnectJobs(name, known) = <<job>> \/ ConnectJobs(name, known) = <<>>
  BY DEF ConnectJobs, job
<1> QED BY <1>1, <1>2

\* Without a connection there is nothing to know.
LEMMA UnconnectedTries ==
    ASSUME TriesKept, Bare(events', jobs'), conn' = NoConn, pwType' = pwType,
           state' \notin {"ClearPacePasswordsBeforeDestroy", "DestroyPace"}
    PROVE  TriesKept'
<1>1. Linked' /\ Waited' /\ Resumed' /\ ~Watched'
  BY DEF TriesKept, Linked, Waited, Resumed, Watched, Bare
<1>2. PinSafe'
  BY BareAnswers DEF PinSafe
<1> QED BY <1>1, <1>2 DEF TriesKept

LEMMA RunTries ==
    ASSUME PaceIInv, Normal, ~error, TriesKept, RunStep PROVE TriesKept'
<1>0. MachineTyped /\ DataTyped
  BY DEF PaceIInv
<1>1. /\ Inner = {"MaintainCardConnection", "ClearPacePasswordsOnError", "SelectReader",
                  "ConnectCard", "UpdateRetryCounter", "VerifyRetryCounter",
                  "PreparePace", "UnfortunateCardPosition", "EnterPacePassword",
                  "EstablishPaceChannel", "ClearPacePasswordsBeforeDestroy", "DestroyPace"}
      /\ Unconnected = {"SelectReader", "ConnectCard", "UnfortunateCardPosition"}
      /\ HasConn = {"VerifyRetryCounter", "PreparePace", "EnterPacePassword", "EstablishPaceChannel",
                    "ClearPacePasswordsBeforeDestroy", "DestroyPace"}
  BY DEF Inner, Unconnected, HasConn
<1> USE DEF rest, kept, context
<1>2. CASE MaintainAborts
  BY <1>1, <1>2, RunMoves DEF MaintainAborts
<1>3. CASE MaintainAfterWrongPassword
  <2> DEFINE next == IF conn # NoConn THEN "UpdateRetryCounter" ELSE "SelectReader"
  <2>1. /\ Running("MaintainCardConnection") /\ Fire(Later, "MaintainCardConnection", next)
        /\ UNCHANGED <<readerSide, counter, conn, pwType, lastPace, expected>>
        /\ lastPace # "OK"
    BY <1>3 DEF MaintainAfterWrongPassword, WrongPassword
  <2>2. next \in Inner /\ (next \in Unconnected => conn = NoConn)
        /\ next \notin {"ClearPacePasswordsBeforeDestroy", "DestroyPace"}
    BY <1>1
  <2>3. Watched => next = "UpdateRetryCounter"
    BY DEF Watched
  <2>4. Known("MaintainCardConnection", Later) => ~conn.can
    BY <2>1 DEF Known, ByState, Uncertain
  <2> HIDE DEF next
  <2>5. Watched /\ Known("MaintainCardConnection", Later)
           => ByState(next, Later, lastPace', expected', pwType', conn,
                      counter[session[conn.reader]], opened[conn.reader])
    BY <2>3, <2>4 DEF ByState, Certain, Uncertain
  <2> QED BY <1>1, <2>1, <2>2, <2>5, RunMoves
<1>4. CASE MaintainAfterCardVanished
  <2> DEFINE queue == AfterReset(Later)
  <2>1. /\ Running("MaintainCardConnection") /\ conn' = NoConn
        /\ Fire(queue, "MaintainCardConnection", "SelectReader") /\ UNCHANGED pwType
    BY <1>4 DEF MaintainAfterCardVanished, ResetCardConnection
  <2>2. /\ state = "MaintainCardConnection" /\ Later \in Seq(PaceEvents) /\ jobs \in Seq(PaceJobs)
        /\ Empty(Kinds(Later), Commands(jobs))
    BY <1>1, <2>1, NormalRun
  <2>3. queue \in Seq(PaceEvents) /\ Grown(Kinds(Later), Kinds(queue), NewsTypes)
    BY <1>0, <2>2, ResetGrown
  <2>4. Empty(Kinds(queue), Commands(jobs))
    <3>1. CoreKinds \cap NewsTypes = {}
      BY DEF CoreKinds, CoreOps, NewsTypes, Inner, Left
    <3> QED BY <2>2, <2>3, <3>1 DEF Empty, Grown
  <2> HIDE DEF queue
  <2>5. Bare(queue, jobs) /\ Enter(queue, jobs, "SelectReader")
    BY <2>1, <2>2, <2>3, <2>4, EmptyBare DEF Fire, FireWith
  <2>6. ~Watched' /\ (pwType' = "PIN" => ~CanAllowed)
    BY <2>1 DEF Watched, TriesKept, Resumed
  <2> QED BY <1>1, <2>1, <2>2, <2>3, <2>5, <2>6, EnterTries
<1>5. CASE MaintainContinues
  <2> DEFINE next == IF lastPace = "OK_PUK" THEN "UpdateRetryCounter"
                     ELSE IF conn = NoConn THEN "SelectReader" ELSE "VerifyRetryCounter"
  <2>1. /\ Running("MaintainCardConnection") /\ Fire(Later, "MaintainCardConnection", next)
        /\ UNCHANGED <<readerSide, counter, conn, pwType, expected>>
        /\ lastPace \in {"OK", "OK_PUK"}
    BY <1>5 DEF MaintainContinues
  <2>2. next \in Inner /\ (next \in Unconnected => conn = NoConn)
        /\ next \notin {"ClearPacePasswordsBeforeDestroy", "DestroyPace"}
    BY <1>1
  <2>3. Watched => next = IF lastPace = "OK_PUK" THEN "UpdateRetryCounter" ELSE "VerifyRetryCounter"
    BY DEF Watched
  <2>4. Known("MaintainCardConnection", Later)
           => IF lastPace = "OK" THEN Settled(Later, conn, counter[session[conn.reader]])
                                      /\ Unlocked(conn, opened[conn.reader])
              ELSE ~conn.can
    BY DEF Known, ByState, Certain, Uncertain
  <2> HIDE DEF next
  <2>5. Watched /\ Known("MaintainCardConnection", Later)
           => ByState(next, Later, lastPace', expected', pwType', conn,
                      counter[session[conn.reader]], opened[conn.reader])
    <3> SUFFICES ASSUME Watched, Known("MaintainCardConnection", Later)
                 PROVE  ByState(next, Later, lastPace', expected', pwType', conn,
                                counter[session[conn.reader]], opened[conn.reader])
      OBVIOUS
    <3>1. CASE lastPace = "OK"
      BY <2>3, <2>4, <3>1 DEF ByState, Certain, Uncertain
    <3>2. CASE lastPace = "OK_PUK"
      BY <2>3, <2>4, <3>2 DEF ByState, Certain, Uncertain
    <3> QED BY <2>1, <3>1, <3>2
  <2> QED BY <1>1, <2>1, <2>2, <2>5, RunMoves
<1>6. ~ClearPacePasswordsOnError
  <2>1. ASSUME Running("ClearPacePasswordsOnError") PROVE FALSE
    BY <1>1, <2>1, RunFinds DEF Normal
  <2> QED BY <2>1 DEF ClearPacePasswordsOnError, ClearPasswords
<1>7. CASE ClearPacePasswordsBeforeDestroy
  <2>1. /\ Running("ClearPacePasswordsBeforeDestroy")
        /\ Fire(Later, "ClearPacePasswordsBeforeDestroy", "DestroyPace")
        /\ UNCHANGED <<readerSide, counter, conn, pwType, expected, lastPace, error>>
    BY <1>7 DEF ClearPacePasswordsBeforeDestroy, ClearPasswords
  <2>2. lastPace # "OK"
    BY <1>1, <2>1, RunFinds DEF TriesKept, Resumed
  <2>3. Known("ClearPacePasswordsBeforeDestroy", Later)
           => ByState("DestroyPace", Later, lastPace', expected', pwType', conn,
                      counter[session[conn.reader]], opened[conn.reader])
    BY DEF Known, ByState, Certain, Uncertain
  <2> QED BY <1>1, <2>1, <2>2, <2>3, RunMoves
<1>8. CASE SelectReader
  <2>1. Running("SelectReader") /\ UNCHANGED <<readerSide, counter, conn, context>>
    BY <1>8 DEF SelectReader
  <2>2. conn = NoConn /\ state = "SelectReader" /\ Bare(Later, jobs)
    BY <1>1, <2>1, RunFinds
  <2>3. CASE Fire(Later, "SelectReader", "ConnectCard")
    BY <1>1, <2>1, <2>2, <2>3, RunMoves DEF Watched
  <2>4. CASE events' = Later /\ UNCHANGED <<state, jobs>>
    BY <2>1, <2>2, <2>4, UnconnectedTries
  <2> QED BY <1>8, <2>2, <2>3, <2>4 DEF SelectReader, Fire, FireWith
<1>9. CASE ConnectCard
  <2>1. /\ Running("ConnectCard") /\ UNCHANGED <<readerSide, counter, conn, context, state>>
        /\ events' = Later /\ jobs' = jobs \o ConnectJobs(readerName, cache)
    BY <1>9 DEF ConnectCard
  <2>2. conn = NoConn /\ state = "ConnectCard" /\ Bare(Later, jobs) /\ jobs \in Seq(PaceJobs)
    BY <1>1, <2>1, RunFinds
  <2>3. Bare(events', jobs')
    <3>1. ConnectJobs(readerName, cache) \in Seq(PaceJobs)
      BY JobTyped DEF ConnectJobs, Ops, PaceTypes, Types, Secrets
    <3>2. \A i \in DOMAIN ConnectJobs(readerName, cache) : ConnectJobs(readerName, cache)[i].op = "connect"
      BY ConnectOnly
    <3>3. \A i \in DOMAIN jobs' :
              \/ i \in DOMAIN jobs /\ jobs'[i] = jobs[i]
              \/ \E k \in DOMAIN ConnectJobs(readerName, cache) : jobs'[i] = ConnectJobs(readerName, cache)[k]
      BY <2>1, <2>2, <3>1
    <3>4. "connect" \notin CoreOps
      BY DEF CoreOps
    <3> QED BY <2>1, <2>2, <3>2, <3>3, <3>4 DEF Bare
  <2> QED BY <2>1, <2>2, <2>3, UnconnectedTries
<1>10. CASE UpdateRetryCounter
  <2>1. /\ Running("UpdateRetryCounter") /\ UNCHANGED <<readerSide, counter, conn, context>>
    BY <1>10 DEF UpdateRetryCounter, RunUpdate
  <2>2. CASE conn = NoConn
    BY <1>1, <1>10, <2>1, <2>2, RunMoves DEF UpdateRetryCounter, RunUpdate, Watched
  <2>3. CASE conn # NoConn
    <3> DEFINE job == Job("update", conn.reader, "PIN", NoCard)
    <3>1. Invoke(Later, job)
      BY <1>10, <2>3 DEF UpdateRetryCounter, RunUpdate
    <3>2. job \in PaceJobs /\ job.op = "update" /\ job.wanted /\ job.reader = conn.reader
      <4>1. conn.reader \in Readers
        BY <1>0, <2>3, FlagsKeep
      <4> QED BY <4>1, JobTyped DEF Job, Ops, PaceTypes, Types, Secrets
    <3> HIDE DEF job
    <3> QED BY <1>1, <2>1, <2>3, <3>1, <3>2, RunInvokes
  <2> QED BY <2>2, <2>3
<1>11. CASE VerifyRetryCounter
  <2>1. Running("VerifyRetryCounter") /\ UNCHANGED <<readerSide, counter, conn, pwType, lastPace, error>>
    BY <1>11 DEF VerifyRetryCounter
  <2>2. conn # NoConn
    BY <1>1, <2>1, RunFinds
  <2>3. /\ Fire(Later, "VerifyRetryCounter", "PreparePace")
        /\ expected' = IF CardIsExpected /\ expected.counter # Unknown THEN expected
                       ELSE [reader |-> conn.reader, counter |-> conn.counter]
    BY <1>11, <2>2 DEF VerifyRetryCounter
  <2>4. expected'.counter = conn.counter
    BY <2>3 DEF CardIsExpected
  <2>5. Known("VerifyRetryCounter", Later)
           => ByState("PreparePace", Later, lastPace', expected', pwType', conn,
                      counter[session[conn.reader]], opened[conn.reader])
    BY <2>4 DEF Known, ByState, Certain, Uncertain
  <2> QED BY <1>1, <2>1, <2>3, <2>5, RunMoves
<1>12. CASE PreparePace
  <2>1. Running("PreparePace") /\ UNCHANGED <<readerSide, counter, conn, expected, lastPace, error>>
    BY <1>12 DEF PreparePace
  <2>2. conn # NoConn
    BY <1>1, <2>1, RunFinds
  <2>3. Fire(Later, "PreparePace", AfterPreparePace) /\ pwType' = RequiredPassword
    BY <1>12, <2>2 DEF PreparePace
  <2>4. /\ AfterPreparePace \in {"MaintainCardConnection", "EnterPacePassword", "EstablishPaceChannel"}
        /\ ~CanAllowed => AfterPreparePace # "MaintainCardConnection"
        /\ pwType' = "PIN" => ~CanAllowed
    BY <2>3 DEF AfterPreparePace, RequiredPassword
  <2>5. ASSUME Watched, Known("PreparePace", Later)
        PROVE  ByState(AfterPreparePace, Later, lastPace', expected', pwType', conn,
                       counter[session[conn.reader]], opened[conn.reader])
    <3> DEFINE tries == counter[session[conn.reader]]
    <3>1. tries \in Tries
      BY <1>0, <2>5, FlagsKeep DEF Watched, Alive, DataTyped
    <3>2. /\ Settled(Later, conn, tries) /\ Unlocked(conn, opened[conn.reader])
          /\ expected.counter = conn.counter
      BY <2>5 DEF Known, ByState, Certain
    <3>3. conn.counter \in 0..3
      BY <3>1, <3>2 DEF Settled, Tries
    <3>4. RequiredPassword = IF conn.counter = 0 THEN "PUK"
                             ELSE IF conn.counter = 1 /\ ~conn.can THEN "CAN" ELSE "PIN"
      BY <2>5 DEF RequiredPassword, Watched
    <3>5. Fitting(expected, conn, pwType')
      BY <2>3, <3>2, <3>3, <3>4 DEF Fitting, Types
    <3>6. AfterPreparePace \in {"EnterPacePassword", "EstablishPaceChannel"}
      BY <2>4, <2>5 DEF Watched
    <3> QED BY <2>1, <3>2, <3>5, <3>6 DEF ByState, Certain, Uncertain
  <2> QED BY <1>1, <2>1, <2>3, <2>4, <2>5, RunMoves
<1>13. CASE EnterPacePassword
  BY <1>1, <1>13, RunMoves DEF EnterPacePassword, Known, ByState, Certain, Uncertain
<1>14. CASE EstablishAborts
  BY <1>1, <1>14, RunMoves DEF EstablishAborts
<1>15. CASE EstablishPaceChannel
  <2>1. Running("EstablishPaceChannel") /\ UNCHANGED <<readerSide, counter, conn, pwType, expected, error>>
    BY <1>15 DEF EstablishPaceChannel
  <2>2. conn # NoConn /\ state = "EstablishPaceChannel"
    BY <1>1, <2>1, RunFinds
  <2>3. ~LacksPassword
    BY <2>2 DEF Normal, Chosen, LacksPassword
  <2> DEFINE job == Job("pace", conn.reader, pwType, Password(pwType))
  <2>4. Invoke(Later, job) /\ UNCHANGED lastPace
    BY <1>15, <2>2, <2>3 DEF EstablishPaceChannel
  <2>5. /\ job \in PaceJobs /\ job.op = "pace" /\ job.wanted /\ job.reader = conn.reader
        /\ job.password = pwType
    <3>1. conn.reader \in Readers
      BY <1>0, <2>2, FlagsKeep
    <3>2. Password(pwType) \in Secrets
      BY <1>0 DEF DataTyped, Password, Secrets
    <3> QED BY <1>0, <3>1, <3>2, JobTyped DEF Job, Ops, DataTyped
  <2> HIDE DEF job
  <2> QED BY <1>1, <2>1, <2>2, <2>4, <2>5, RunInvokes
<1>16. CASE UnfortunateCardPosition
  BY <1>1, <1>16, RunFinds, RunMoves DEF UnfortunateCardPosition, Watched
<1>17. CASE DestroyPace
  <2> DEFINE job == Job("destroy", conn.reader, "PIN", NoCard)
  <2>1. /\ Running("DestroyPace") /\ UNCHANGED <<readerSide, counter, conn, context>>
        /\ conn # NoConn /\ Invoke(Later, job)
    BY <1>17 DEF DestroyPace, RunDestroy
  <2>2. job \in PaceJobs /\ job.op = "destroy" /\ job.wanted /\ job.reader = conn.reader
    <3>1. conn.reader \in Readers
      BY <1>0, <2>1, FlagsKeep
    <3> QED BY <3>1, JobTyped DEF Job, Ops, PaceTypes, Types, Secrets
  <2> HIDE DEF job
  <2> QED BY <1>1, <2>1, <2>2, RunInvokes
<1> QED
  BY <1>2, <1>3, <1>4, <1>5, <1>6, <1>7, <1>8, <1>9, <1>10, <1>11, <1>12, <1>13, <1>14, <1>15,
     <1>16, <1>17 DEF RunStep
-----------------------------------------------------------------------------
(* Results of the card commands *)

LEMMA ResultFinds ==
    ASSUME PaceIInv, Normal, ~error, TriesKept, NEW op \in CoreOps, Arrives(op)
    PROVE  /\ Later \in Seq(PaceEvents) /\ jobs \in Seq(PaceJobs) /\ events \in Seq(PaceEvents)
           /\ Bare(Later, jobs) /\ (conn # NoConn => Alone(jobs))
           /\ op = "update" => state = "UpdateRetryCounter"
           /\ op = "pace" => state = "EstablishPaceChannel"
           /\ op = "destroy" => state = "DestroyPace"
           /\ events # <<>> /\ Arrived.type = op /\ Arrived.wanted
           /\ 1 \in DOMAIN events /\ events[1] = Arrived
           /\ Watched /\ op # "pace" => Known(state, events) /\ Known(state, Later)
           /\ Watched => Answers(events, conn, info[conn.reader], counter[session[conn.reader]],
                                 opened[conn.reader])
<1>1. events # <<>> /\ Arrived.type = op /\ Kind(Head(events)) \in CoreKinds
  BY DEF Arrives, Arrived, Kind, CoreKinds, CoreOps
<1>2. /\ Later \in Seq(PaceEvents) /\ jobs \in Seq(PaceJobs) /\ events \in Seq(PaceEvents)
      /\ Bare(Later, jobs) /\ (conn # NoConn => Alone(jobs))
      /\ Watched /\ Head(events).type # "pace" => Known(state, events) /\ Known(state, Later)
      /\ Watched => Answers(events, conn, info[conn.reader], counter[session[conn.reader]],
                            opened[conn.reader])
  BY <1>1, TakenTries
<1>3. 1 \in DOMAIN events /\ events[1] = Arrived
  BY <1>1, <1>2 DEF Arrived
<1>4. Arrived.wanted
  BY <1>1, <1>3 DEF TriesKept, Waited
<1>5. /\ op = "update" => state = "UpdateRetryCounter"
      /\ op = "pace" => state = "EstablishPaceChannel"
      /\ op = "destroy" => state = "DestroyPace"
  BY NormalResult
<1>6. Watched /\ op # "pace" => Known(state, events) /\ Known(state, Later)
  BY <1>1, <1>2 DEF Arrived
<1> QED BY <1>1, <1>2, <1>3, <1>4, <1>5, <1>6

LEMMA ResultMoves ==
    ASSUME PaceIInv, Normal, ~error, TriesKept, NEW op \in CoreOps, Arrives(op),
           NEW next \in (Inner \cup Left) \ Unconnected, Enter(Later, jobs, next),
           UNCHANGED <<readerSide, counter, pwType>>, conn' = conn \/ conn' = PaceFlags,
           ~error' /\ next \in {"ClearPacePasswordsBeforeDestroy", "DestroyPace"} => lastPace' # "OK",
           ~error' /\ Watched => ByState(next, Later, lastPace', expected', pwType', conn',
                                         counter[session[conn.reader]], opened[conn.reader])
    PROVE  TriesKept'
<1>1. /\ Later \in Seq(PaceEvents) /\ jobs \in Seq(PaceJobs)
      /\ Bare(Later, jobs) /\ (conn # NoConn => Alone(jobs))
  BY ResultFinds
<1>2. conn' # NoConn => conn # NoConn /\ conn'.reader = conn.reader
  BY FlagsKeepReader DEF PaceIInv
<1>3. Watched' => Watched /\ conn'.reader = conn.reader
  BY <1>2 DEF Watched, Alive, readerSide
<1>4. pwType' = "PIN" => ~CanAllowed
  BY DEF TriesKept, Resumed
<1>5. ~error' /\ Watched' => ByState(next, Later, lastPace', expected', pwType', conn',
                                     counter'[session'[conn'.reader]], opened'[conn'.reader])
  BY <1>3 DEF readerSide
<1> QED BY <1>1, <1>2, <1>4, <1>5, EnterTries

LEMMA ResultResets ==
    ASSUME PaceIInv, Normal, ~error, TriesKept, NEW op \in CoreOps, Arrives(op),
           NEW next \in Inner \ HasConn, Enter(AfterReset(Later), jobs, next),
           conn' = NoConn, UNCHANGED pwType
    PROVE  TriesKept'
<1> DEFINE queue == AfterReset(Later)
<1>0. MachineTyped /\ DataTyped
  BY DEF PaceIInv
<1>1. Later \in Seq(PaceEvents) /\ jobs \in Seq(PaceJobs) /\ Empty(Kinds(Later), Commands(jobs))
  BY NormalResult
<1>2. queue \in Seq(PaceEvents) /\ Grown(Kinds(Later), Kinds(queue), NewsTypes)
  BY <1>0, <1>1, ResetGrown
<1>3. Empty(Kinds(queue), Commands(jobs))
  <2>1. CoreKinds \cap NewsTypes = {}
    BY DEF CoreKinds, CoreOps, NewsTypes, Inner, Left
  <2> QED BY <1>1, <1>2, <2>1 DEF Empty, Grown
<1>4. Enter(queue, jobs, next)
  OBVIOUS
<1> HIDE DEF queue
<1>5. Bare(queue, jobs)
  BY <1>1, <1>2, <1>3, EmptyBare
<1>6. ~Watched' /\ (pwType' = "PIN" => ~CanAllowed)
  BY DEF Watched, TriesKept, Resumed
<1>7. next \notin {"ClearPacePasswordsBeforeDestroy", "DestroyPace"}
  BY DEF HasConn
<1> QED BY <1>1, <1>2, <1>4, <1>5, <1>6, <1>7, EnterTries

\* A password that the card has not accepted: no CAN counts any more.
LEMMA FlagsRefused ==
    ASSUME PaceIInv, Normal, ~error, TriesKept, Arrives("pace"), Arrived.code # "OK", Watched
    PROVE  ~PaceFlags.can
<1>1. "pace" \in CoreOps /\ Types = {"CAN", "PIN", "PUK"}
  BY DEF CoreOps, Types
<1>2. /\ 1 \in DOMAIN events /\ events[1] = Arrived /\ Arrived.type = "pace"
      /\ Answers(events, conn, info[conn.reader], counter[session[conn.reader]], opened[conn.reader])
  BY <1>1, ResultFinds
<1>3. Arrived.password \in Types /\ (Arrived.password = "PUK" => ~conn.can)
  BY <1>2 DEF Answers
<1>4. conn # NoConn /\ DataTyped
  BY DEF Watched, PaceIInv
<1> QED BY <1>1, <1>3, <1>4, FlagsKeep

\* The state ends with a failure, after which no CAN counts.
LEMMA RefusedTries ==
    ASSUME PaceIInv, Normal, ~error, TriesKept, Arrives("pace"),
           Arrived.code # "OK", conn' = PaceFlags, UNCHANGED <<readerSide, counter, pwType>>,
           lastPace' # "OK", NEW next \in {"MaintainCardConnection", "ClearPacePasswordsBeforeDestroy"},
           Fire(Later, "EstablishPaceChannel", next)
    PROVE  TriesKept'
<1>1. "pace" \in CoreOps /\ next \in (Inner \cup Left) \ Unconnected
  BY DEF CoreOps, Inner, Unconnected
<1>2. Enter(Later, jobs, next)
  BY <1>1, ResultFinds DEF Fire, FireWith
<1>3. Watched => ~conn'.can
  BY FlagsRefused
<1>4. Watched => ByState(next, Later, lastPace', expected', pwType', conn',
                         counter[session[conn.reader]], opened[conn.reader])
  BY <1>3 DEF ByState, Certain, Uncertain
<1> QED BY <1>1, <1>2, <1>4, ResultMoves

LEMMA UpdateTries ==
    ASSUME PaceIInv, Normal, ~error, Heard, TriesKept, UpdateDone PROVE TriesKept'
<1>0. "update" \in CoreOps /\ Arrives("update") /\ DataTyped
  BY DEF CoreOps, UpdateDone, Updated, PaceIInv
<1>1. /\ Later \in Seq(PaceEvents) /\ events \in Seq(PaceEvents) /\ state = "UpdateRetryCounter"
      /\ events # <<>> /\ Arrived.type = "update" /\ Arrived.wanted
      /\ 1 \in DOMAIN events /\ events[1] = Arrived
      /\ Watched => Known(state, events)
      /\ Watched => Answers(events, conn, info[conn.reader], counter[session[conn.reader]],
                            opened[conn.reader])
  BY <1>0, ResultFinds
<1>2. CASE Arrived.code = "OK"
  <2>1. /\ Enter(Later, jobs, "VerifyRetryCounter")
        /\ UNCHANGED <<readerSide, conn, counter, pwType, lastPace, expected>>
    BY <1>1, <1>2 DEF UpdateDone, Updated, Fire, FireWith, rest, context
  <2>2. "VerifyRetryCounter" \in (Inner \cup Left) \ Unconnected
    BY DEF Inner, Unconnected
  <2>3. ASSUME Watched
        PROVE  ByState("VerifyRetryCounter", Later, lastPace', expected', pwType', conn',
                       counter[session[conn.reader]], opened[conn.reader])
    <3>1. info[conn.reader] = counter[session[conn.reader]] /\ QuietAfter(events, 1, conn.reader)
      BY <1>1, <1>2, <2>3 DEF Answers
    <3>2. ~Told(Head(events), conn.reader)
      BY <1>1 DEF Told, NewsTypes, Arrived
    <3>3. Quiet(Later, conn.reader)
      BY <1>1, <3>1, QuietTail DEF Later
    <3>4. Tracks(events, conn.reader, conn.counter, info[conn.reader])
      BY <2>3 DEF Heard, Watched
    <3>5. conn.counter = info[conn.reader]
      BY <1>1, <3>1, <3>2, <3>4, QuietTail
    <3>6. ~conn.can
      BY <1>1, <2>3 DEF Known, ByState, Uncertain
    <3> QED BY <2>1, <3>1, <3>3, <3>5, <3>6 DEF ByState, Certain, Uncertain, Settled, Unlocked
  <2> QED BY <1>0, <2>1, <2>2, <2>3, ResultMoves
<1>3. CASE Arrived.code # "OK"
  <2>1. /\ Enter(AfterReset(Later), jobs, "MaintainCardConnection") /\ conn' = NoConn /\ UNCHANGED pwType
    BY <1>1, <1>3 DEF UpdateDone, Updated, Fire, FireWith, context, ResetCardConnection
  <2>2. "MaintainCardConnection" \in Inner \ HasConn
    BY DEF Inner, HasConn
  <2> QED BY <1>0, <2>1, <2>2, ResultResets
<1> QED BY <1>2, <1>3

LEMMA PaceTries ==
    ASSUME PaceIInv, Normal, ~error, TriesKept, PaceSucceeds PROVE TriesKept'
<1>0. /\ "pace" \in CoreOps /\ Arrives("pace") /\ DataTyped /\ Arrived.code = "OK" /\ conn' = PaceFlags
      /\ UNCHANGED <<readerSide, counter, pwType, error>>
      /\ lastPace' = IF Arrived.password = "PUK" THEN "OK_PUK" ELSE "OK"
  BY DEF CoreOps, PaceSucceeds, PaceIInv, rest
<1>1. /\ Later \in Seq(PaceEvents) /\ events \in Seq(PaceEvents) /\ state = "EstablishPaceChannel"
      /\ events # <<>> /\ Arrived.type = "pace"
      /\ 1 \in DOMAIN events /\ events[1] = Arrived
      /\ Watched => Answers(events, conn, info[conn.reader], counter[session[conn.reader]],
                            opened[conn.reader])
  BY <1>0, ResultFinds
<1>2. /\ {"MaintainCardConnection", "ClearPacePasswordsBeforeDestroy", "Established"}
           \subseteq (Inner \cup Left) \ Unconnected
      /\ state \in Inner
  BY <1>1 DEF Inner, Left, Unconnected
<1>3. CASE OpensChannel(Arrived.password)
  <2>1. Enter(Later, jobs, "Established")
    BY <1>2, <1>3 DEF PaceSucceeds, Leave
  <2>2. ByState("Established", Later, lastPace', expected', pwType', conn',
                counter[session[conn.reader]], opened[conn.reader])
    BY DEF ByState, Certain, Uncertain
  <2> QED BY <1>0, <1>2, <2>1, <2>2, ResultMoves
<1>4. CASE ~OpensChannel(Arrived.password) /\ Arrived.password = "PUK"
  <2>1. Enter(Later, jobs, "ClearPacePasswordsBeforeDestroy") /\ lastPace' # "OK"
    BY <1>0, <1>1, <1>4 DEF PaceSucceeds, Fire, FireWith
  <2>2. ASSUME Watched PROVE ~conn'.can
    BY <1>0, <1>1, <1>4, <2>2, FlagsKeep DEF Answers, Watched
  <2>3. Watched => ByState("ClearPacePasswordsBeforeDestroy", Later, lastPace', expected', pwType', conn',
                           counter[session[conn.reader]], opened[conn.reader])
    BY <2>2 DEF ByState, Certain, Uncertain
  <2> QED BY <1>0, <1>2, <2>1, <2>3, ResultMoves
<1>5. CASE ~OpensChannel(Arrived.password) /\ Arrived.password # "PUK"
  <2>1. Enter(Later, jobs, "MaintainCardConnection") /\ lastPace' = "OK"
    BY <1>0, <1>1, <1>5 DEF PaceSucceeds, Fire, FireWith
  <2>2. ASSUME Watched
        PROVE  ByState("MaintainCardConnection", Later, lastPace', expected', pwType', conn',
                       counter[session[conn.reader]], opened[conn.reader])
    <3>1. Arrived.password = "CAN"
      BY <1>1, <1>5, <2>2 DEF Answers, Types, OpensChannel
    <3>2. /\ Settled(events, conn, counter[session[conn.reader]]) /\ conn.counter = 1
          /\ opened[conn.reader] = "CAN" /\ conn # NoConn
      BY <1>0, <1>1, <2>2, <3>1 DEF Answers, Watched
    <3>3. conn'.reader = conn.reader /\ conn'.counter = conn.counter
      BY <1>0, <3>2, FlagsKeep
    <3>4. Quiet(Later, conn.reader)
      BY <1>1, <3>2, QuietTail DEF Later, Settled
    <3> QED BY <2>1, <3>2, <3>3, <3>4 DEF ByState, Certain, Uncertain, Settled, Unlocked
  <2> QED BY <1>0, <1>2, <2>1, <2>2, ResultMoves
<1> QED BY <1>3, <1>4, <1>5
-----------------------------------------------------------------------------
(* Connections, and the tries *)

LEMMA AwaitedTries ==
    ASSUME PaceIInv, Normal, ~error, TriesKept, IsAwaited, events # <<>>
    PROVE  /\ state = "ConnectCard" /\ conn = NoConn
           /\ Later \in Seq(PaceEvents) /\ jobs \in Seq(PaceJobs) /\ Bare(Later, jobs)
<1>1. /\ state = "ConnectCard" /\ Later \in Seq(PaceEvents) /\ jobs \in Seq(PaceJobs)
      /\ Empty(Kinds(Later), Commands(jobs))
  BY AwaitedNormal
<1> QED BY <1>1, EmptyBare DEF TriesKept, Linked, Unconnected

LEMMA ConnectTries ==
    ASSUME CardsAreActive, PaceIInv, Normal, ~error, TriesKept, ConnectSucceeds PROVE TriesKept'
<1> DEFINE deactivated == readerName \in Readers /\ cache[readerName] \in Deactivated /\ ~CanAllowed
           queue == Unsubscribed(Later)
<1>1. /\ events # <<>> /\ IsAwaited /\ jobs = <<>> /\ conn'.can = FALSE /\ pwType' = pwType
      /\ error' = (error \/ (deactivated /\ ~UsedAsSDK)) /\ lastPace' = lastPace
  BY DEF ConnectSucceeds, Arrives
<1>2. /\ state = "ConnectCard" /\ Later \in Seq(PaceEvents) /\ jobs \in Seq(PaceJobs) /\ Bare(Later, jobs)
  BY <1>1, AwaitedTries
<1>3. ~(deactivated /\ UsedAsSDK)
  BY DEF CardsAreActive
<1>4. PICK next \in {"MaintainCardConnection", "UpdateRetryCounter"} :
          /\ Enter(queue, jobs, next)
          /\ next = "MaintainCardConnection" => error'
  BY <1>1, <1>2, <1>3 DEF ConnectSucceeds, Fire, FireWith
<1>5. queue \in Seq(PaceEvents)
  BY <1>2, UnsubscribedQuiet
<1>6. Bare(queue, jobs)
  BY <1>2 DEF PaceEvents, NewsTypes, Ops, Unsubscribed, Bare
<1> HIDE DEF deactivated, queue
<1>7. Alone(jobs) /\ (pwType' = "PIN" => ~CanAllowed)
  BY <1>1 DEF Alone, TriesKept, Resumed
<1>8. next \in Inner \cup Left /\ next \notin Unconnected
      /\ next \notin {"ClearPacePasswordsBeforeDestroy", "DestroyPace"}
  BY DEF Inner, Unconnected
<1>9. ~error' => ByState(next, queue, lastPace', expected', pwType', conn',
                         counter'[session'[conn'.reader]], opened'[conn'.reader])
  BY <1>1, <1>4 DEF ByState, Certain, Uncertain
<1> QED BY <1>2, <1>4, <1>5, <1>6, <1>7, <1>8, <1>9, EnterTries

LEMMA FailedTries ==
    ASSUME PaceIInv, Normal, ~error, TriesKept, ConnectFails PROVE TriesKept'
<1>1. events # <<>> /\ IsAwaited /\ UNCHANGED <<conn, pwType, error, lastPace>>
  BY DEF ConnectFails, Arrives, context
<1>2. /\ state = "ConnectCard" /\ conn = NoConn
      /\ Later \in Seq(PaceEvents) /\ jobs \in Seq(PaceJobs) /\ Bare(Later, jobs)
  BY <1>1, AwaitedTries
<1>3. Enter(Later, jobs, "MaintainCardConnection") /\ "MaintainCardConnection" \in Inner \cup Left
  BY <1>2 DEF ConnectFails, Fire, FireWith, Inner
<1>4. Bare(events', jobs') /\ state' = "MaintainCardConnection"
  BY <1>2, <1>3, EnterBare DEF Enter
<1> QED BY <1>1, <1>2, <1>4, UnconnectedTries
-----------------------------------------------------------------------------
(* What passes by, and the tries *)

\* A connection that has been told something still knows what matters.
LEMMA AnswersTold ==
    ASSUME NEW queue, NEW c, NEW d, d.reader = c.reader, d.can = c.can,
           Quiet(queue, c.reader) => d.counter = c.counter
    PROVE  /\ \A s, result, told, type, tries, accepted :
                  ByState(s, queue, result, told, type, c, tries, accepted)
                      => ByState(s, queue, result, told, type, d, tries, accepted)
           /\ \A known, tries, accepted : Answers(queue, c, known, tries, accepted)
                                              => Answers(queue, d, known, tries, accepted)
           /\ \A js, tries : Attempts(js, queue, c, tries) => Attempts(js, queue, d, tries)
<1>1. \A s, result, told, type, tries, accepted :
          ByState(s, queue, result, told, type, c, tries, accepted)
              => ByState(s, queue, result, told, type, d, tries, accepted)
  BY DEF ByState, Settled, Unlocked, Fitting, Certain
<1>2. \A known, tries, accepted : Answers(queue, c, known, tries, accepted)
                                      => Answers(queue, d, known, tries, accepted)
  BY DEF Answers, Settled
<1>3. \A js, tries : Attempts(js, queue, c, tries) => Attempts(js, queue, d, tries)
  BY DEF Attempts, Settled
<1> QED BY <1>1, <1>2, <1>3

\* The PINs on their way are still for the cards they were meant for.
LEMMA PinsPass ==
    ASSUME PinSafe, PaceIInv, expected' = expected,
           \A k \in DOMAIN jobs' : jobs'[k].op = "pace" =>
               \E i \in DOMAIN jobs : /\ jobs[i].op = "pace" /\ jobs[i].password = jobs'[k].password
                                      /\ jobs[i].reader = jobs'[k].reader,
           Alone(jobs) => Alone(jobs'),
           \A r \in Readers : Alive(r)' => /\ session'[r] = session[r] /\ opened'[r] = opened[r]
                                           /\ counter' = counter
    PROVE  PinSafe'
<1>1. jobs \in Seq(PaceJobs)
  BY DEF PaceIInv, MachineTyped
<1>2. \A k \in DOMAIN jobs : jobs[k] \in PaceJobs
  BY <1>1
<1>3. \A k \in DOMAIN jobs : jobs[k].reader \in Readers
  BY <1>2 DEF PaceJobs
<1> SUFFICES ASSUME NEW k \in DOMAIN jobs', jobs'[k].op = "pace", jobs'[k].password = "PIN"
             PROVE  /\ Alone(jobs')
                    /\ session'[jobs'[k].reader] \in Cards =>
                          /\ counter'[session'[jobs'[k].reader]] = expected'.counter
                          /\ \/ counter'[session'[jobs'[k].reader]] \in {2, 3}
                             \/ counter'[session'[jobs'[k].reader]] = 1 /\ opened'[jobs'[k].reader] = "CAN"
  BY DEF PinSafe, Alone, Alive
<1>4. PICK i \in DOMAIN jobs : /\ jobs[i].op = "pace" /\ jobs[i].password = jobs'[k].password
                              /\ jobs[i].reader = jobs'[k].reader
  OBVIOUS
<1> DEFINE q == jobs[i].reader
<1>5. /\ Alone(jobs) /\ q \in Readers
      /\ Alive(q) => /\ counter[session[q]] = expected.counter
                     /\ counter[session[q]] \in {2, 3} \/ (counter[session[q]] = 1 /\ opened[q] = "CAN")
  BY <1>3, <1>4 DEF PinSafe, Alone
<1>6. session'[q] \in Cards => /\ session'[q] = session[q] /\ opened'[q] = opened[q]
                               /\ counter' = counter /\ Alive(q)
  BY <1>5 DEF Alive
<1> HIDE DEF q
<1>7. jobs'[k].reader = q
  BY <1>4 DEF q
<1> QED BY <1>5, <1>6, <1>7

LEMMA TriesPass ==
    ASSUME PaceIInv, TriesKept, ~error, UNCHANGED <<state, jobs, lastPace, expected, pwType, error, counter>>,
           \A i \in DOMAIN events' : events'[i].type \in CoreOps =>
               \E k \in DOMAIN events : events[k] = events'[i],
           (\E k \in DOMAIN events : events[k].type = "pace")
               => \E k \in DOMAIN events' : events'[k].type = "pace",
           conn = NoConn => conn' = NoConn,
           conn # NoConn => conn' # NoConn /\ conn'.reader = conn.reader /\ conn'.can = conn.can,
           \A r \in Readers : Alive(r)' => session'[r] = session[r] /\ opened'[r] = opened[r],
           conn # NoConn /\ Alive(conn.reader)' => info'[conn.reader] = info[conn.reader],
           conn # NoConn /\ Quiet(events, conn.reader) => conn'.counter = conn.counter,
           conn # NoConn /\ Alive(conn.reader)' /\ Quiet(events, conn.reader) => Quiet(events', conn.reader),
           \A known, tries, accepted :
               conn # NoConn /\ Alive(conn.reader)' /\ Answers(events, conn', known, tries, accepted)
                   => Answers(events', conn', known, tries, accepted)
    PROVE  TriesKept'
<1>1. Linked' /\ Resumed'
  BY DEF TriesKept, Linked, Resumed
<1>2. Waited'
  BY DEF TriesKept, Waited, Ours
<1>3. PinSafe'
  BY PinsPass DEF TriesKept
<1>4. ASSUME Watched' PROVE Followed'
  <2> DEFINE tries == counter[session[conn.reader]]
             accepted == opened[conn.reader]
  <2>1. conn # NoConn /\ conn.reader \in Readers /\ conn'.reader = conn.reader /\ conn'.can = conn.can
    BY <1>4, FlagsKeep DEF Watched, PaceIInv
  <2>2. session'[conn.reader] = session[conn.reader] /\ opened'[conn.reader] = opened[conn.reader]
    BY <1>4, <2>1 DEF Watched, Alive
  <2>3. Watched /\ info'[conn.reader] = info[conn.reader] /\ Alive(conn.reader)'
    BY <1>4, <2>1, <2>2 DEF Watched, Alive
  <2>4. /\ Trying \/ Known(state, events)
        /\ Answers(events, conn, info[conn.reader], tries, accepted)
        /\ Attempts(jobs, events, conn, tries)
    BY <2>3 DEF TriesKept, Followed, Known
  <2>5. /\ counter'[session'[conn'.reader]] = tries /\ opened'[conn'.reader] = accepted
        /\ info'[conn'.reader] = info[conn.reader]
    BY <2>1, <2>2, <2>3
  <2> HIDE DEF tries, accepted
  <2>6. Trying => Trying'
    BY DEF Trying
  <2>7. Answers(events', conn', info[conn.reader], tries, accepted)
    BY <2>1, <2>3, <2>4, AnswersTold
  <2>8. Attempts(jobs', events', conn', tries)
    BY <2>1, <2>3, <2>4, AnswersTold, StillQuiet
  <2>9. Known(state, events) =>
            ByState(state', events', lastPace', expected', pwType', conn', tries, accepted)
    BY <2>1, <2>3, AnswersTold, StillQuiet DEF Known, tries, accepted
  <2> QED BY <2>4, <2>5, <2>6, <2>7, <2>8, <2>9 DEF Followed
<1> QED BY <1>1, <1>2, <1>3, <1>4 DEF TriesKept

\* The next event is taken; it is neither run() nor the result of a command.
LEMMA TailPass ==
    ASSUME events \in Seq(PaceEvents), events # <<>>, Head(events).type \notin CoreOps
    PROVE  /\ \A i \in DOMAIN Later : Later[i].type \in CoreOps => \E k \in DOMAIN events : events[k] = Later[i]
           /\ (\E k \in DOMAIN events : events[k].type = "pace") => \E k \in DOMAIN Later : Later[k].type = "pace"
           /\ \A r : Quiet(events, r) => Quiet(Later, r)
           /\ \A c, known, tries, accepted : Answers(events, c, known, tries, accepted)
                                                 => Answers(Later, c, known, tries, accepted)
<1>1. /\ \A i \in DOMAIN Later : i + 1 \in DOMAIN events /\ events[i + 1] = Later[i]
      /\ \A k \in DOMAIN events : k = 1 \/ (k - 1 \in DOMAIN Later /\ Later[k - 1] = events[k])
      /\ Head(events) = events[1]
  BY DEF Later
<1>2. "pace" \in CoreOps
  BY DEF CoreOps
<1>3. \A r : Quiet(events, r) => Quiet(Later, r)
  BY QuietTail DEF Later
<1>4. \A c, known, tries, accepted : Answers(events, c, known, tries, accepted)
                                         => Answers(Later, c, known, tries, accepted)
  BY AnswersTail DEF Later
<1> QED BY <1>1, <1>2, <1>3, <1>4

LEMMA ForgottenTries ==
    ASSUME PaceIInv, ~error, TriesKept, ConnectForgotten PROVE TriesKept'
<1>0. events \in Seq(PaceEvents) /\ DataTyped /\ NoCard \notin Cards
  BY PaceAssumption DEF PaceIInv, MachineTyped
<1>1. /\ events # <<>> /\ Head(events).type \notin CoreOps /\ events' = Later
      /\ UNCHANGED <<state, jobs, lastPace, expected, pwType, error, counter, conn, info>>
  BY DEF ConnectForgotten, Arrives, CoreOps, rest, machine, context, link
<1>2. \A r \in Readers : Alive(r)' => session'[r] = session[r] /\ opened'[r] = opened[r]
  BY <1>0 DEF ConnectForgotten, Disconnected, Closed, Alive
<1> QED BY <1>0, <1>1, <1>2, TailPass, TriesPass

LEMMA NextStateTries ==
    ASSUME PaceIInv, ~error, TriesKept, NextStateRuns PROVE TriesKept'
<1>0. events \in Seq(PaceEvents)
  BY DEF PaceIInv, MachineTyped
<1>1. /\ events # <<>> /\ events' = Later /\ Head(events) \in {Run(s) : s \in Left}
      /\ UNCHANGED <<state, jobs, lastPace, expected, pwType, error, counter, conn, info, session, opened>>
  BY DEF NextStateRuns, machine, kept, rest, readerSide, context
<1>2. Head(events).type \notin CoreOps
  <2>1. PICK s \in Left : Head(events) = Run(s)
    BY <1>1
  <2> QED BY <2>1 DEF Run, CoreOps
<1> QED BY <1>0, <1>1, <1>2, TailPass, TriesPass

LEMMA NewsTries ==
    ASSUME PaceIInv, Normal, ~error, TriesKept, NewsArrives PROVE TriesKept'
<1>0. MachineTyped /\ DataTyped /\ events \in Seq(PaceEvents) /\ jobs \in Seq(PaceJobs)
  BY DEF PaceIInv, MachineTyped
<1>1. /\ events # <<>> /\ NewsTaken(Arrived) /\ Arrived.type \in NewsTypes /\ Arrived \in PaceEvents
      /\ UNCHANGED <<counter, readerSide, context>>
  BY <1>0, HeadTyped DEF ArrivedFits, NewsArrives, Arrived
<1>2. /\ Later \in Seq(PaceEvents) /\ Head(events).type \notin CoreOps
      /\ \A i \in DOMAIN Later : Later[i].type \in CoreOps => \E k \in DOMAIN events : events[k] = Later[i]
  BY <1>0, <1>1, TailPass, LaterKinds DEF Arrived, NewsTypes, CoreOps
\* Nothing else is under way where the states are connected to the readers.
<1>3. ASSUME state = "ConnectCard" \/ state = "SelectReader", None(Kinds(events), CoreKinds)
      PROVE  Bare(Later, jobs) /\ conn = NoConn
  <2>1. CoreOps \cap Own(state) = {}
    BY <1>3, OwnStates DEF CoreOps, Inner
  <2>2. None(Commands(jobs), CoreOps)
    BY <2>1 DEF Normal, Orderly
  <2>3. Bare(events, jobs)
    BY <1>0, <1>3, <2>2, EmptyBare DEF Empty
  <2>4. Bare(Later, jobs)
    BY <1>2, <2>3 DEF Bare
  <2> QED BY <1>3, <2>4 DEF TriesKept, Linked, Unconnected
<1>4. conn = NoConn => conn' = NoConn
  BY <1>1 DEF NewsTaken, Subscribed
<1>5. CASE \E js \in Seq(PaceJobs) : Enter(Later, js, "ConnectCard") /\ Bare(Later, js)
              /\ state = "SelectReader" /\ conn = NoConn
  <2>1. PICK js \in Seq(PaceJobs) : Enter(Later, js, "ConnectCard") /\ Bare(Later, js)
    BY <1>5
  <2>2. Bare(events', jobs') /\ state' = "ConnectCard"
    BY <1>2, <2>1, EnterBare DEF Inner, Enter
  <2> QED BY <1>1, <1>4, <1>5, <2>2, UnconnectedTries DEF context
<1>6. CASE events' = Later /\ UNCHANGED <<state, armed, jobs>>
  <2>1. conn # NoConn => conn' # NoConn /\ conn'.reader = conn.reader /\ conn'.can = conn.can
    BY <1>0, <1>1, ConnTold
  <2>2. ASSUME conn # NoConn, Quiet(events, conn.reader) PROVE conn'.counter = conn.counter
    BY <1>0, <1>1, <2>2, QuietTail, ConnTold DEF Arrived
  <2>3. UNCHANGED <<lastPace, expected, pwType, error, session, opened, info>>
    BY <1>1 DEF context, readerSide
  <2> QED BY <1>0, <1>1, <1>2, <1>4, <1>6, <2>1, <2>2, <2>3, TailPass, TriesPass
<1>7. CASE \E js \in Seq(PaceJobs) : /\ jobs' = js /\ events' = Later /\ Bare(Later, js)
                                     /\ UNCHANGED state /\ state = "ConnectCard" /\ conn = NoConn
  BY <1>1, <1>4, <1>7, UnconnectedTries DEF context
<1>8. \A js \in Seq(PaceJobs) : \A name : Bare(Later, js) =>
          js \o ConnectJobs(name, cache') \in Seq(PaceJobs) /\ Bare(Later, js \o ConnectJobs(name, cache'))
  <2> SUFFICES ASSUME NEW js \in Seq(PaceJobs), NEW name, Bare(Later, js)
               PROVE  /\ js \o ConnectJobs(name, cache') \in Seq(PaceJobs)
                      /\ Bare(Later, js \o ConnectJobs(name, cache'))
    OBVIOUS
  <2> DEFINE more == ConnectJobs(name, cache')
  <2>1. more \in Seq(PaceJobs) /\ \A i \in DOMAIN more : more[i].op = "connect"
    BY ConnectOnly, JobTyped DEF ConnectJobs, Ops, PaceTypes, Types, Secrets
  <2> HIDE DEF more
  <2>2. /\ js \o more \in Seq(PaceJobs)
        /\ \A i \in DOMAIN (js \o more) : \/ i \in DOMAIN js /\ (js \o more)[i] = js[i]
                                          \/ \E k \in DOMAIN more : (js \o more)[i] = more[k]
    BY <2>1
  <2>3. "connect" \notin CoreOps
    BY DEF CoreOps
  <2> QED BY <2>1, <2>2, <2>3 DEF Bare, more
<1> DEFINE selects == "SelectReader" \in armed /\ Arrived.type # "retryCounter" /\ Selectable(cache') # {}
           connects == "ConnectCard" \in armed /\ Arrived.type = "inserted"
<1>9. selects => state = "SelectReader" /\ None(Kinds(events), CoreKinds)
  BY DEF Normal
<1>10. connects => state = "ConnectCard" /\ None(Kinds(events), CoreKinds)
  BY DEF Normal, NoConnect
<1>11. PICK name : LET js == jobs \o (IF connects THEN ConnectJobs(name, cache') ELSE <<>>)
                   IN  IF selects /\ state = "SelectReader" THEN Enter(Later, js, "ConnectCard")
                       ELSE jobs' = js /\ events' = Later /\ UNCHANGED <<state, armed>>
  BY DEF NewsArrives
<1> HIDE DEF selects, connects
<1>12. jobs \o <<>> = jobs
  BY <1>0
<1>13. CASE selects
  BY <1>0, <1>3, <1>5, <1>9, <1>10, <1>11, <1>12, <1>13
<1>14. CASE ~selects /\ connects
  BY <1>0, <1>3, <1>7, <1>8, <1>10, <1>11, <1>14
<1>15. CASE ~selects /\ ~connects
  BY <1>6, <1>11, <1>12, <1>15
<1> QED BY <1>13, <1>14, <1>15

LEMMA ResultTries ==
    ASSUME CardsAreActive, PaceIInv, Normal, ~error, Heard, TriesKept, ResultStep PROVE TriesKept'
<1> USE DEF rest, kept, context
<1>0. {"pace", "destroy"} \subseteq CoreOps
  BY DEF CoreOps
<1>1. CASE DestroyDone
  <2>1. Arrives("destroy") /\ UNCHANGED <<readerSide, conn, counter, pwType, lastPace, expected>>
    BY <1>1 DEF DestroyDone, Destroyed
  <2>2. state = "DestroyPace" /\ Arrived.wanted /\ (Watched => Known(state, Later)) /\ lastPace # "OK"
    BY <1>0, <2>1, ResultFinds DEF TriesKept, Resumed
  <2>3. Enter(Later, jobs, "MaintainCardConnection")
    BY <1>1, <2>2 DEF DestroyDone, Destroyed, Fire, FireWith
  <2>4. Watched => ByState("MaintainCardConnection", Later, lastPace', expected', pwType', conn',
                           counter[session[conn.reader]], opened[conn.reader])
    BY <2>1, <2>2 DEF Known, ByState, Certain, Uncertain
  <2>5. "MaintainCardConnection" \in (Inner \cup Left) \ Unconnected
    BY DEF Inner, Unconnected
  <2> QED BY <1>0, <2>1, <2>3, <2>4, <2>5, ResultMoves
<1>2. ~PaceForgotten
  BY <1>0, ResultFinds DEF PaceForgotten
<1>3. CASE PaceRefused
  BY <1>3, RefusedTries DEF PaceRefused, Unrecoverable
<1>4. CASE PaceInvalidPin
  BY <1>4, RefusedTries DEF PaceInvalidPin, Attempt
<1>5. CASE PaceFails
  BY <1>5, RefusedTries DEF PaceFails
<1>6. CASE PaceVanished
  <2>1. /\ Arrives("pace") /\ conn' = NoConn /\ UNCHANGED pwType /\ state = "EstablishPaceChannel"
    BY <1>0, <1>6, ResultFinds DEF PaceVanished, ResetCardConnection
  <2>2. \E next \in {"UnfortunateCardPosition", "MaintainCardConnection"} :
            Enter(AfterReset(Later), jobs, next)
    BY <1>6, <2>1 DEF PaceVanished, Fire, FireWith
  <2>3. {"UnfortunateCardPosition", "MaintainCardConnection"} \subseteq Inner \ HasConn
    BY DEF Inner, HasConn
  <2> QED BY <1>0, <2>1, <2>2, <2>3, ResultResets
<1> QED
  BY <1>1, <1>2, <1>3, <1>4, <1>5, <1>6, ConnectTries, FailedTries, ForgottenTries, UpdateTries,
     PaceTries, NewsTries DEF ResultStep
-----------------------------------------------------------------------------
(* The reader thread and the tries *)

\* While a password is on its way nothing is that could change what it meets.
LEMMA PaceAlone ==
    ASSUME PaceIInv, Control, NEW k \in DOMAIN jobs, jobs[k].op = "pace"
    PROVE  /\ \A i \in DOMAIN jobs : jobs[i].op = "connect" \/ i = k
           /\ \A i \in DOMAIN events : Kind(events[i]) \notin {"pace"} \cup (CoreKinds \ Ending)
           /\ ~error => \A i \in DOMAIN events : Kind(events[i]) \notin CoreKinds
           /\ NoConnect /\ conn # NoConn /\ (~error => state = "EstablishPaceChannel")
<1>0. jobs \in Seq(PaceJobs) /\ \A i \in DOMAIN jobs : jobs[i].op \in Ops
  <2>1. jobs \in Seq(PaceJobs)
    BY DEF PaceIInv, MachineTyped
  <2>2. \A i \in DOMAIN jobs : jobs[i] \in PaceJobs
    BY <2>1
  <2> QED BY <2>1, <2>2 DEF PaceJobs
<1>1. /\ DOMAIN Commands(jobs) = DOMAIN jobs /\ \A i \in DOMAIN jobs : Commands(jobs)[i] = jobs[i].op
      /\ DOMAIN Kinds(events) = DOMAIN events /\ \A i \in DOMAIN events : Kinds(events)[i] = Kind(events[i])
  BY DEF Commands, Kinds
<1>2. "pace" \in CoreOps /\ Ops = {"connect", "update", "pace", "destroy"} /\ "pace" \notin Ending
      /\ CoreOps = {"update", "pace", "destroy"} /\ CoreOps \subseteq CoreKinds /\ CoreOps \cap Ending = {}
  BY DEF CoreOps, Ops, Ending, CoreKinds
<1>3. ~None(Commands(jobs), {"pace"}) /\ ~None(Commands(jobs), CoreOps)
  BY <1>1, <1>2 DEF None
<1>4. CASE error
  <2>1. Flying(Kinds(events), Commands(jobs)) /\ NoConnect /\ conn # NoConn
    BY <1>3, <1>4 DEF Control, Cancelled, Gone
  <2>2. /\ None(Kinds(events), CoreKinds \ (Ending \cup {"pace"})) /\ None(Kinds(events), {"pace"})
        /\ None(Commands(jobs), {"update", "destroy"}) /\ Few(Commands(jobs), {"pace"})
    BY <1>3, <2>1 DEF Flying
  <2>3. \A i \in DOMAIN jobs : jobs[i].op \notin {"update", "destroy"} /\ (jobs[i].op = "pace" => i = k)
    BY <1>1, <2>2 DEF None, Few
  <2>4. \A i \in DOMAIN events : Kind(events[i]) \notin {"pace"} \cup (CoreKinds \ Ending)
    BY <1>1, <2>2 DEF None
  <2> QED BY <1>0, <1>2, <1>4, <2>1, <2>3, <2>4
<1>5. CASE ~error
  <2>1. Normal
    BY <1>5 DEF Control
  <2>2. None(Kinds(events), CoreKinds) /\ Few(Commands(jobs), CoreOps) /\ None(Commands(jobs), CoreOps \ Own(state))
    BY <1>3, <2>1 DEF Normal, Orderly
  <2>3. "pace" \in Own(state)
    BY <1>1, <1>2, <2>2 DEF None
  <2>4. state = "EstablishPaceChannel"
    BY <2>3, OwnStates DEF PaceIInv, MachineTyped
  <2>5. NoConnect /\ conn # NoConn
    BY <2>1, <2>4 DEF Normal, HasConn
  <2>6. \A i \in DOMAIN jobs : jobs[i].op \in CoreOps => i = k
    BY <1>1, <1>2, <2>2 DEF Few
  <2>7. \A i \in DOMAIN events : Kind(events[i]) \notin CoreKinds
    BY <1>1, <2>2 DEF None
  <2> QED BY <1>0, <1>2, <2>4, <2>5, <2>6, <2>7
<1> QED BY <1>4, <1>5

\* A password that is not the next command stays the only one that matters:
\* there is no command before it.
LEMMA ThreadPins ==
    ASSUME PaceIInv, Control, PinSafe, jobs # <<>>, jobs' = Tail(jobs) PROVE PinSafe'
<1>1. jobs \in Seq(PaceJobs)
  BY DEF PaceIInv, MachineTyped
<1>2. /\ \A i \in DOMAIN jobs' : i + 1 \in DOMAIN jobs /\ jobs'[i] = jobs[i + 1] /\ i + 1 # 1
      /\ 1 \in DOMAIN jobs
  BY <1>1
<1> SUFFICES ASSUME NEW i \in DOMAIN jobs', jobs'[i].op = "pace", jobs'[i].password = "PIN" PROVE FALSE
  BY DEF PinSafe
<1>3. jobs[i + 1].op = "pace" /\ jobs[i + 1].password = "PIN" /\ i + 1 \in DOMAIN jobs
  BY <1>2
<1>4. jobs[1].op = "connect"
  BY <1>2, <1>3, PaceAlone
<1> QED BY <1>2, <1>3, <1>4 DEF PinSafe

\* The next command is one the state waits for, and the only one.
LEMMA CommandAlone ==
    ASSUME PaceIInv, Normal, jobs # <<>>, Command.op \in CoreOps
    PROVE  /\ Bare(events, Tail(jobs)) /\ events \in Seq(PaceEvents) /\ jobs \in Seq(PaceJobs)
           /\ Command.op = "update" => state = "UpdateRetryCounter"
           /\ Command.op = "pace" => state = "EstablishPaceChannel"
           /\ Command.op = "destroy" => state = "DestroyPace"
<1>1. events \in Seq(PaceEvents) /\ jobs \in Seq(PaceJobs) /\ state \in Inner \cup Left
  BY DEF PaceIInv, MachineTyped
<1>2. /\ \A i \in DOMAIN Tail(jobs) : i + 1 \in DOMAIN jobs /\ Tail(jobs)[i] = jobs[i + 1] /\ i + 1 # 1
      /\ 1 \in DOMAIN jobs /\ Command = jobs[1]
  BY <1>1 DEF Command
<1>3. /\ DOMAIN Commands(jobs) = DOMAIN jobs /\ \A i \in DOMAIN jobs : Commands(jobs)[i] = jobs[i].op
      /\ DOMAIN Kinds(events) = DOMAIN events /\ \A i \in DOMAIN events : Kinds(events)[i] = Kind(events[i])
  BY DEF Commands, Kinds
<1>4. ~None(Commands(jobs), CoreOps)
  BY <1>2, <1>3 DEF None
<1>5. /\ None(Kinds(events), CoreKinds) /\ Few(Commands(jobs), CoreOps)
      /\ None(Commands(jobs), CoreOps \ Own(state))
  BY <1>4 DEF Normal, Orderly
<1>6. \A i \in DOMAIN events : events[i].type \notin CoreOps
  BY <1>3, <1>5 DEF None, CoreOps, CoreKinds, Kind
<1>7. \A i \in DOMAIN Tail(jobs) : Tail(jobs)[i].op \notin CoreOps
  BY <1>2, <1>3, <1>5 DEF Few
<1>8. Command.op \in Own(state)
  BY <1>2, <1>3, <1>5 DEF None
<1> QED BY <1>1, <1>6, <1>7, <1>8, OwnStates DEF Bare

\* The result is the last event, and the only one.
LEMMA ReportTries ==
    ASSUME PaceIInv, Normal, ~error, TriesKept, jobs # <<>>,
           NEW news \in Seq(PaceEvents), NEW code \in Codes, Report(news, code),
           \A i \in DOMAIN news : news[i].type = "retryCounter"
    PROVE  /\ Linked' /\ Waited' /\ Resumed' /\ PinSafe'
           /\ UNCHANGED <<state, conn, lastPace, expected, pwType, error>>
           /\ Command.op \in CoreOps =>
                  /\ Bare(events, jobs') /\ conn # NoConn /\ Command.reader = conn.reader
                  /\ Len(events') \in DOMAIN events'
                  /\ events'[Len(events')] = Done(Command.op, Command.reader, Command.password, code,
                                                  Command.wanted)
                  /\ \A i \in DOMAIN events' : events'[i].type \in CoreOps => i = Len(events')
                  /\ \A r : QuietAfter(events', Len(events'), r)
                  /\ Quiet(events, conn.reader) /\ news = <<>> => Quiet(events', conn.reader)
<1> DEFINE done == Done(Command.op, Command.reader, Command.password, code, Command.wanted)
<1>0. MachineTyped /\ events \in Seq(PaceEvents) /\ jobs \in Seq(PaceJobs)
  BY DEF PaceIInv, MachineTyped
<1>1. /\ events' = (events \o news) \o <<done>> /\ jobs' = Tail(jobs)
      /\ UNCHANGED <<state, conn, lastPace, expected, pwType, error>>
  BY <1>0 DEF Report, mainSide, context, link
<1>2. /\ Command \in PaceJobs /\ done \in PaceEvents /\ done.type = Command.op
      /\ done.wanted = Command.wanted /\ Command.op \in Ops
  BY <1>0, CommandTyped DEF PaceJobs, Done, PaceEvents
<1> HIDE DEF done
<1>3. /\ \A i \in DOMAIN jobs' : i + 1 \in DOMAIN jobs /\ jobs'[i] = jobs[i + 1]
      /\ 1 \in DOMAIN jobs /\ Command = jobs[1]
  BY <1>0, <1>1 DEF Command
<1>4. /\ Len(events') \in DOMAIN events' /\ events'[Len(events')] = done
      /\ \A i \in DOMAIN events' : \/ i \in DOMAIN events /\ events'[i] = events[i]
                                   \/ i = Len(events')
                                   \/ \E k \in DOMAIN news : events'[i] = news[k]
      /\ \A i \in DOMAIN events' : ~(i > Len(events'))
  <2> DEFINE mid == events \o news
  <2>1. /\ mid \in Seq(PaceEvents)
        /\ \A i \in DOMAIN mid : \/ i \in DOMAIN events /\ mid[i] = events[i]
                                 \/ \E k \in DOMAIN news : mid[i] = news[k]
    BY <1>0
  <2>2. events' = Append(mid, done)
    BY <1>1, <1>2, <2>1
  <2> HIDE DEF mid
  <2>3. /\ Len(events') = Len(mid) + 1 /\ Len(mid) \in Nat /\ DOMAIN events' = 1..(Len(mid) + 1)
        /\ \A i \in DOMAIN mid : events'[i] = mid[i]
        /\ events'[Len(mid) + 1] = done /\ DOMAIN mid = 1..Len(mid)
    BY <1>2, <2>1, <2>2
  <2>4. \A i \in DOMAIN events' : i \in DOMAIN mid \/ i = Len(events')
    BY <2>3
  <2>5. Len(events') \in DOMAIN events' /\ events'[Len(events')] = done
    BY <2>3
  <2>6. \A i \in DOMAIN events' : ~(i > Len(events'))
    BY <2>3
  <2> QED BY <2>1, <2>3, <2>4, <2>5, <2>6
<1>5. "retryCounter" \notin CoreOps /\ CoreOps \cap NewsTypes = {}
  BY DEF CoreOps, NewsTypes
<1>6. Linked'
  BY <1>1, <1>3 DEF TriesKept, Linked
<1>7. Command.op \in CoreOps => Command.wanted /\ conn # NoConn /\ Command.reader = conn.reader
  BY <1>3 DEF TriesKept, Waited, Ours
<1>8. Waited'
  <2>1. \A i \in DOMAIN jobs' : jobs'[i].op \in CoreOps =>
            jobs'[i].wanted /\ conn' # NoConn /\ jobs'[i].reader = conn'.reader
    BY <1>1, <1>3 DEF TriesKept, Waited, Ours
  <2>2. \A i \in DOMAIN events' : events'[i].type \in CoreOps => events'[i].wanted
    BY <1>2, <1>4, <1>5, <1>7 DEF TriesKept, Waited
  <2> QED BY <2>1, <2>2 DEF Waited, Ours
<1>9. Resumed'
  BY <1>1 DEF TriesKept, Resumed
<1>10. PinSafe'
  BY <1>1, ThreadPins DEF TriesKept, Control
<1>11. ASSUME Command.op \in CoreOps
       PROVE  /\ Bare(events, jobs')
              /\ \A i \in DOMAIN events' : events'[i].type \in CoreOps => i = Len(events')
              /\ \A r : QuietAfter(events', Len(events'), r)
              /\ Quiet(events, conn.reader) /\ news = <<>> => Quiet(events', conn.reader)
  <2>1. Bare(events, jobs')
    BY <1>1, <1>11, CommandAlone
  <2>2. \A i \in DOMAIN events' : events'[i].type \in CoreOps => i = Len(events')
    BY <1>4, <1>5, <2>1 DEF Bare
  <2>3. \A r : QuietAfter(events', Len(events'), r)
    BY <1>4 DEF QuietAfter
  <2>4. Quiet(events, conn.reader) /\ news = <<>> => Quiet(events', conn.reader)
    BY <1>2, <1>4, <1>5, <1>11 DEF Quiet, Told
  <2> QED BY <2>1, <2>2, <2>3, <2>4
<1> QED BY <1>1, <1>4, <1>6, <1>7, <1>8, <1>9, <1>10, <1>11 DEF done

LEMMA OpenedKeeps == ASSUME OpenedTyped, [Next]_vars PROVE OpenedTyped'
<1>1. ASSUME NEW rs, opened' = Closed(rs) PROVE OpenedTyped'
  BY <1>1 DEF OpenedTyped, Closed
<1>2. ASSUME UNCHANGED opened PROVE OpenedTyped'
  BY <1>2 DEF OpenedTyped
<1>3. CASE MainThread \/ NextStateRuns
  BY <1>1, <1>2, <1>3, MainReaderSide DEF readerSide, ResetCardConnection, Closes
<1>4. CASE ReaderThread
  <2>1. CASE ExecuteConnect \/ ExecuteUpdate \/ ExecutePaceInVain
    BY <1>2, <2>1 DEF ExecuteConnect, ExecuteUpdate, ExecutePaceInVain, readerSide
  <2>2. CASE ExecuteDestroy
    BY <1>1, <2>2 DEF ExecuteDestroy
  <2>3. CASE ExecutePace
    <3>1. PICK secret : Judge(Judged(Command.reader, Command.password, secret))
      BY <2>3 DEF ExecutePace
    <3> DEFINE verdict == Judged(Command.reader, Command.password, secret)
    <3>2. verdict.accepted \in {"none", "CAN", "PIN"}
      BY DEF Judged, Verdict
    <3> HIDE DEF verdict
    <3>3. opened' = [opened EXCEPT ![Command.reader] = verdict.accepted]
      BY <3>1 DEF Judge, verdict
    <3> QED BY <3>2, <3>3 DEF OpenedTyped
  <2> QED BY <1>4, <2>1, <2>2, <2>3 DEF ReaderThread
<1>5. CASE Environment
  <2>1. UNCHANGED opened \/ \E rs : opened' = Closed(rs)
    BY <1>5 DEF Environment, PutCard, TakeCard, reader, UserEntersPassword, UserMovesCard, untouched,
                kept, readerSide, UserChangesReaders, UserCancels, Cancel
  <2> QED BY <1>1, <1>2, <2>1
<1>6. CASE \E r \in Readers : Poll(r)
  BY <1>1, <1>6 DEF Poll
<1>7. CASE UNCHANGED vars
  BY <1>2, <1>7 DEF vars, reader
<1> QED BY <1>3, <1>4, <1>5, <1>6, <1>7 DEF Next, PaceStep

\* The states that wait for other commands expect nothing of the card.
LEMMA NotTrying ==
    ASSUME PaceIInv, Normal, ~error, TriesKept, Watched, jobs # <<>>, Command.op \in {"update", "destroy"}
    PROVE  state \in {"UpdateRetryCounter", "DestroyPace"} /\ ~conn.can
<1>1. /\ Bare(events, Tail(jobs)) /\ jobs \in Seq(PaceJobs)
      /\ state \in {"UpdateRetryCounter", "DestroyPace"}
  BY CommandAlone DEF CoreOps
<1>2. \A i \in DOMAIN jobs : i = 1 \/ (i - 1 \in DOMAIN Tail(jobs) /\ jobs[i] = Tail(jobs)[i - 1])
  BY <1>1
<1>3. Command = jobs[1]
  BY <1>1 DEF Command
<1>4. ~Trying
  <2>1. /\ \A k \in DOMAIN events : events[k].type # "pace"
        /\ \A k \in DOMAIN Tail(jobs) : Tail(jobs)[k].op # "pace"
    BY <1>1, BareAnswers
  <2>2. Command.op # "pace"
    OBVIOUS
  <2> QED BY <1>2, <1>3, <2>1, <2>2 DEF Trying
<1>5. ByState(state, events, lastPace, expected, pwType, conn, counter[session[conn.reader]],
              opened[conn.reader])
  BY <1>4 DEF TriesKept, Followed
<1> QED BY <1>1, <1>5 DEF ByState, Uncertain

LEMMA OtherReport ==
    ASSUME PaceIInv, Normal, ~error, TriesKept, jobs # <<>>, Command.op \in {"connect", "update", "destroy"},
           NEW news \in Seq(PaceEvents), NEW code \in Codes, Report(news, code),
           \A i \in DOMAIN news : news[i].type = "retryCounter",
           conn # NoConn => session'[conn.reader] = session[conn.reader],
           Command.op = "update" /\ code = "OK" =>
               info'[Command.reader] = counter'[session'[Command.reader]]
    PROVE  TriesKept'
<1>1. /\ Linked' /\ Waited' /\ Resumed' /\ PinSafe'
      /\ UNCHANGED <<state, conn, lastPace, expected, pwType, error>>
  BY ReportTries
<1> SUFFICES ASSUME Watched' PROVE Followed'
  BY <1>1 DEF TriesKept
<1>2. Watched
  BY <1>1 DEF Watched, Alive
<1>3. Command.op # "connect" /\ conn # NoConn
  BY <1>2 DEF PaceIInv, MachineTyped, Command, TriesKept, Linked, Watched
<1>4. state \in {"UpdateRetryCounter", "DestroyPace"} /\ ~conn.can
  BY <1>2, <1>3, NotTrying
<1>5. /\ Bare(events, jobs') /\ Command.reader = conn.reader
      /\ events'[Len(events')] = Done(Command.op, Command.reader, Command.password, code, Command.wanted)
      /\ \A i \in DOMAIN events' : events'[i].type \in CoreOps => i = Len(events')
      /\ QuietAfter(events', Len(events'), conn.reader)
  BY <1>3, ReportTries DEF CoreOps
<1>6. \A k \in DOMAIN events' : events'[k].type = "update" /\ events'[k].code = "OK" =>
          /\ info'[conn.reader] = counter'[session'[conn.reader]] /\ QuietAfter(events', k, conn.reader)
  BY <1>5 DEF CoreOps, Done
<1>7. \A k \in DOMAIN events' : events'[k].type # "pace"
  BY <1>3, <1>5 DEF CoreOps, Done
<1> DEFINE tries == counter'[session'[conn.reader]]
           accepted == opened'[conn.reader]
<1>8. Answers(events', conn, info'[conn.reader], tries, accepted)
  BY <1>6, <1>7 DEF Answers
<1>9. Attempts(jobs', events', conn, tries)
  BY <1>5, BareAnswers
<1>10. ByState(state, events', lastPace, expected, pwType, conn, tries, accepted)
  BY <1>4 DEF ByState, Certain
<1>11. tries = counter'[session'[conn'.reader]] /\ accepted = opened'[conn'.reader]
  BY <1>1
<1> HIDE DEF tries, accepted
<1> QED BY <1>1, <1>8, <1>9, <1>10, <1>11 DEF Followed

LEMMA PaceReport ==
    ASSUME PaceIInv, Normal, ~error, TriesKept, Executing("pace"),
           NEW code \in Codes, Report(<<>>, code), UNCHANGED <<session, info>>,
           Alive(Command.reader) /\ Command.password = "CAN" /\ code = "OK" =>
               /\ counter'[session[Command.reader]] = counter[session[Command.reader]]
               /\ opened'[Command.reader] = "CAN"
    PROVE  TriesKept'
<1>0. jobs # <<>> /\ Command.op = "pace" /\ Command.op \in CoreOps
  BY DEF Executing, Command, CoreOps
<1>1. /\ Linked' /\ Waited' /\ Resumed' /\ PinSafe'
      /\ UNCHANGED <<state, conn, lastPace, expected, pwType, error>>
      /\ Bare(events, jobs') /\ Command.reader = conn.reader
      /\ Len(events') \in DOMAIN events'
      /\ events'[Len(events')] = Done(Command.op, Command.reader, Command.password, code, Command.wanted)
      /\ \A i \in DOMAIN events' : events'[i].type \in CoreOps => i = Len(events')
      /\ Quiet(events, conn.reader) => Quiet(events', conn.reader)
  <2>1. <<>> \in Seq(PaceEvents) /\ DOMAIN <<>> = {}
    OBVIOUS
  <2> QED BY <1>0, <2>1, ReportTries
<1> SUFFICES ASSUME Watched' PROVE Followed'
  BY <1>1 DEF TriesKept
<1>2. Watched /\ Alive(Command.reader)
  BY <1>1 DEF Watched, Alive
<1> DEFINE old == counter[session[conn.reader]]
           tries == counter'[session'[conn.reader]]
           accepted == opened'[conn.reader]
<1>3. Attempts(jobs, events, conn, old)
  BY <1>2 DEF TriesKept, Followed
<1> HIDE DEF old
<1>4. /\ Command.password \in Types
      /\ Command.password = "CAN" => Settled(events, conn, old) /\ conn.counter = 1
      /\ Command.password = "PUK" => ~conn.can
  BY <1>0, <1>3 DEF PaceIInv, MachineTyped, Command, Attempts
<1>5. Command.password = "CAN" /\ code = "OK" => tries = old /\ accepted = "CAN"
  BY <1>1, <1>2 DEF old
<1>6. tries = counter'[session'[conn'.reader]] /\ accepted = opened'[conn'.reader]
  BY <1>1
<1> HIDE DEF tries, accepted
<1>7. Answers(events', conn, info'[conn.reader], tries, accepted)
  BY <1>0, <1>1, <1>4, <1>5 DEF CoreOps, Done, Settled, Answers
<1>8. Attempts(jobs', events', conn, tries)
  BY <1>1, BareAnswers
<1>9. Trying'
  BY <1>0, <1>1 DEF Trying, Done
<1> QED BY <1>1, <1>6, <1>7, <1>8, <1>9 DEF Followed

LEMMA ThreadTries ==
    ASSUME PaceIInv, OpenedTyped, Normal, ~error, TriesKept, ReaderThread PROVE TriesKept'
<1>0. /\ MachineTyped /\ DataTyped /\ {"OK", "COMMAND_FAILED", "CARD_NOT_FOUND"} \subseteq Codes
      /\ <<>> \in Seq(PaceEvents) /\ DOMAIN <<>> = {}
  BY DEF PaceIInv, Codes, Unrecoverable
<1>1. jobs # <<>> => Command \in PaceJobs /\ Command.reader \in Readers
  BY <1>0, CommandTyped DEF PaceJobs
<1>2. CASE ExecuteConnect
  <2>1. jobs # <<>> /\ Command.op = "connect"
    BY <1>2 DEF ExecuteConnect, Executing, Command
  <2>2. conn = NoConn
    BY <1>0, <2>1 DEF MachineTyped, Command, TriesKept, Linked
  <2>3. PICK code \in {"OK", "COMMAND_FAILED"} : Report(<<>>, code)
    BY <1>2 DEF ExecuteConnect
  <2>4. code \in Codes
    BY <1>0
  <2> QED BY <1>0, <2>1, <2>2, <2>3, <2>4, OtherReport
<1>3. CASE ExecuteUpdate
  <2> DEFINE r == Command.reader
             tries == counter[session[r]]
             changed == info[r] # Unknown /\ info[r] # tries
             news == IF changed THEN <<News("retryCounter", r, session[r], tries, Subscribed(r))>> ELSE <<>>
  <2>1. jobs # <<>> /\ Command.op = "update" /\ UNCHANGED <<session, counter>>
    BY <1>3 DEF ExecuteUpdate, Executing, Command
  <2>2. CASE Alive(r) /\ info' = [info EXCEPT ![r] = tries] /\ Report(news, "OK")
    <3>1. news \in Seq(PaceEvents) /\ \A i \in DOMAIN news : news[i].type = "retryCounter"
      <4>1. News("retryCounter", r, session[r], tries, Subscribed(r)) \in PaceEvents
        BY <1>0, <1>1, <2>1, <2>2 DEF Alive, DataTyped, Secrets, Counters, News, PaceEvents, NewsTypes, Subscribed
      <4> QED BY <4>1 DEF News
    <3>2. info'[r] = counter'[session'[r]]
      BY <1>0, <1>1, <2>1, <2>2 DEF DataTyped
    <3> HIDE DEF news
    <3> QED BY <1>0, <2>1, <2>2, <3>1, <3>2, OtherReport
  <2>3. CASE Report(<<>>, "COMMAND_FAILED")
    BY <1>0, <2>1, <2>3, OtherReport
  <2> QED BY <1>3, <2>2, <2>3 DEF ExecuteUpdate
<1>4. CASE ExecuteDestroy
  BY <1>0, <1>4, OtherReport DEF ExecuteDestroy, Executing, Command
<1>5. CASE ExecutePace
  <2> DEFINE r == Command.reader
  <2>1. Executing("pace") /\ Alive(r) /\ r \in Readers /\ UNCHANGED <<session, info>>
    BY <1>1, <1>5 DEF ExecutePace, ReachesCard, Executing
  <2>2. PICK secret \in Entered :
            LET verdict == Judged(r, Command.password, secret)
            IN  /\ Judge(verdict)
                /\ \/ Report(<<>>, verdict.code)
                   \/ \E code \in {"CARD_NOT_FOUND", "COMMAND_FAILED"} : Report(<<>>, code)
    BY <1>5 DEF ExecutePace
  <2> DEFINE verdict == Judged(r, Command.password, secret)
  <2>3. verdict.code \in Codes
    BY DEF Judged, Verdict, Codes, WrongPassword
  <2>4. Command.password = "CAN" /\ verdict.code = "OK" =>
            verdict.tries = counter[session[r]] /\ verdict.accepted = "CAN"
    <3> SUFFICES ASSUME Command.password = "CAN", verdict.code = "OK"
                 PROVE  verdict.tries = counter[session[r]] /\ verdict.accepted = "CAN"
      OBVIOUS
    <3>1. verdict = IF secret = session[r] THEN Verdict("OK", counter[session[r]], "CAN")
                    ELSE Verdict("INVALID_CAN", counter[session[r]], "none")
      BY DEF Judged
    <3> HIDE DEF verdict
    <3> QED BY <3>1 DEF Verdict
  <2>5. counter'[session[r]] = verdict.tries /\ opened'[r] = verdict.accepted
    <3>1. Judge(verdict)
      BY <2>2
    <3>2. session[r] \in DOMAIN counter /\ r \in DOMAIN opened
      BY <1>0, <2>1 DEF DataTyped, Alive, OpenedTyped
    <3> HIDE DEF verdict
    <3> QED BY <3>1, <3>2 DEF Judge
  <2>6. CASE Report(<<>>, verdict.code)
    <3> HIDE DEF verdict
    <3> QED BY <2>1, <2>3, <2>4, <2>5, <2>6, PaceReport
  <2>7. CASE \E code \in {"CARD_NOT_FOUND", "COMMAND_FAILED"} : Report(<<>>, code)
    <3>1. PICK code \in {"CARD_NOT_FOUND", "COMMAND_FAILED"} : Report(<<>>, code)
      BY <2>7
    <3> QED BY <1>0, <2>1, <3>1, PaceReport
  <2> QED BY <2>2, <2>6, <2>7
<1>6. CASE ExecutePaceInVain
  <2>1. PICK code \in NotAsked(Command.reader) : Report(<<>>, code)
    BY <1>6 DEF ExecutePaceInVain
  <2>2. code \in Codes /\ code # "OK"
    BY DEF NotAsked, Codes, WrongPassword, Unrecoverable
  <2>3. Executing("pace") /\ UNCHANGED <<session, info>>
    BY <1>6 DEF ExecutePaceInVain, readerSide
  <2> QED BY <2>1, <2>2, <2>3, PaceReport
<1> QED BY <1>2, <1>3, <1>4, <1>5, <1>6 DEF ReaderThread
-----------------------------------------------------------------------------
(* The environment, and workflows that are cancelled *)

LEMMA AlikePass ==
    ASSUME PaceIInv, TriesKept, ~error,
           UNCHANGED <<state, jobs, lastPace, expected, pwType, error, counter, conn, info>>,
           \A r : Alike(events, events', r),
           \A r \in Readers : Alive(r)' => session'[r] = session[r] /\ opened'[r] = opened[r]
    PROVE  TriesKept'
<1>1. \A i \in DOMAIN events' : events'[i].type \in CoreOps =>
          \E k \in DOMAIN events : events[k] = events'[i]
  BY DEF CoreOps, Alike
<1>2. /\ (\E k \in DOMAIN events : events[k].type = "pace")
             => \E k \in DOMAIN events' : events'[k].type = "pace"
      /\ Quiet(events, conn.reader) => Quiet(events', conn.reader)
      /\ \A known, tries, accepted :
             Answers(events, conn, known, tries, accepted) => Answers(events', conn, known, tries, accepted)
  BY AlikeKeeps
<1> QED BY <1>1, <1>2, TriesPass

\* A step that forgets commands, at most.
JobsKept == jobs' = jobs \/ jobs' = Forgotten(jobs, state)
From(new, old) ==
    \A k \in DOMAIN new : new[k].op = "pace" =>
        \E i \in DOMAIN old : /\ old[i].op = "pace" /\ old[i].password = new[k].password
                              /\ old[i].reader = new[k].reader

LEMMA ForgottenFrom ==
    ASSUME NEW js \in Seq(PaceJobs), NEW s
    PROVE  From(Forgotten(js, s), js) /\ (Alone(js) => Alone(Forgotten(js, s)))
<1> DEFINE new == Forgotten(js, s)
<1>1. \A j \in PaceJobs : LET f == [j EXCEPT !.wanted = FALSE]
                          IN  f.op = j.op /\ f.password = j.password /\ f.reader = j.reader
  BY DEF PaceJobs
<1>2. \A i \in DOMAIN js : js[i] \in PaceJobs
  OBVIOUS
<1>3. DOMAIN new = DOMAIN js
      /\ \A i \in DOMAIN js : new[i] = js[i] \/ new[i] = [js[i] EXCEPT !.wanted = FALSE]
  BY DEF Forgotten
<1>4. \A i \in DOMAIN js : /\ new[i].op = js[i].op /\ new[i].password = js[i].password
                           /\ new[i].reader = js[i].reader
  BY <1>1, <1>2, <1>3
<1> HIDE DEF new
<1>5. From(new, js)
  BY <1>3, <1>4 DEF From
<1>6. Alone(js) => Alone(new)
  BY <1>3, <1>4 DEF Alone
<1> QED BY <1>5, <1>6 DEF new

LEMMA KeptFrom ==
    ASSUME jobs \in Seq(PaceJobs), JobsKept
    PROVE  From(jobs', jobs) /\ (Alone(jobs) => Alone(jobs'))
<1>1. From(jobs, jobs)
  BY DEF From
<1> QED BY <1>1, ForgottenFrom DEF JobsKept

LEMMA KeptPins ==
    ASSUME PinSafe, PaceIInv, JobsKept, expected' = expected,
           \A r \in Readers : Alive(r)' => /\ session'[r] = session[r] /\ opened'[r] = opened[r]
                                           /\ counter' = counter
    PROVE  PinSafe'
<1>1. jobs \in Seq(PaceJobs)
  BY DEF PaceIInv, MachineTyped
<1> QED BY <1>1, KeptFrom, PinsPass DEF From

\* No move of a card and no decision of the user spoils a PIN on its way.
LEMMA EnvironmentPins ==
    ASSUME TypesFixed, PaceIInv, PinSafe, Environment
    PROVE  PinSafe' /\ pwType' = pwType /\ (error => error')
<1> USE DEF machineSide, machine, context, reader, untouched, kept, rest, readerSide, world, JobsKept
<1>0. DataTyped /\ "dead" \notin Cards /\ NoCard \notin Cards
  BY PaceAssumption DEF PaceIInv
<1>1. ASSUME NEW r \in Readers, TakeCard(r)
      PROVE  PinSafe' /\ pwType' = pwType /\ (error => error')
  BY <1>0, <1>1, KeptPins DEF TakeCard, DataTyped, Closed, Alive
<1>2. ASSUME NEW r \in Readers, NEW c \in Cards, PutCard(r, c)
      PROVE  PinSafe' /\ pwType' = pwType /\ (error => error')
  BY <1>2, KeptPins DEF PutCard
<1>3. CASE UserEntersPassword \/ UserMovesCard
  BY <1>3, KeptPins DEF UserEntersPassword, UserMovesCard
<1>4. ~UserChangesReaders
  BY DEF UserChangesReaders
<1>5. ASSUME NEW kill \in BOOLEAN, UserCancels(kill)
      PROVE  PinSafe' /\ pwType' = pwType /\ (error => error')
  BY <1>5, KeptPins DEF UserCancels, Cancel, Enter
<1> QED BY <1>1, <1>2, <1>3, <1>4, <1>5 DEF Environment

LEMMA EnvironmentTries ==
    ASSUME TypesFixed, PaceIInv, ~error, TriesKept, Environment PROVE TriesKept'
<1> USE DEF machineSide, machine, context, link, reader, untouched, kept, rest, readerSide, world
<1>0. /\ DataTyped /\ "dead" \notin Cards /\ NoCard \notin Cards
      /\ \A r : Alike(events, events', r)
  BY PaceAssumption, EnvironmentAlike DEF PaceIInv
<1>1. ASSUME NEW r \in Readers, TakeCard(r) PROVE TriesKept'
  BY <1>0, <1>1, AlikePass DEF TakeCard, DataTyped, Closed, Alive
<1>2. ASSUME NEW r \in Readers, NEW c \in Cards, PutCard(r, c) PROVE TriesKept'
  BY <1>0, <1>2, AlikePass DEF PutCard
<1>3. CASE UserEntersPassword \/ UserMovesCard
  BY <1>0, <1>3, AlikePass DEF UserEntersPassword, UserMovesCard
<1>4. ~UserChangesReaders
  BY DEF UserChangesReaders
<1>5. ASSUME NEW kill \in BOOLEAN, UserCancels(kill) PROVE TriesKept'
  BY <1>5, EnvironmentPins DEF UserCancels, Cancel, TriesKept, Linked, Waited, Resumed
<1> QED BY <1>1, <1>2, <1>3, <1>4, <1>5 DEF Environment

LEMMA PollFinds ==
    ASSUME PaceIInv, NEW r \in Readers, Poll(r)
    PROVE  /\ UNCHANGED <<state, jobs, lastPace, expected, pwType, error, counter, conn>>
           /\ \A q \in Readers : q # r => /\ session'[q] = session[q] /\ opened'[q] = opened[q]
                                          /\ info'[q] = info[q]
           /\ ~Alive(r)'
<1> USE DEF machineSide, machine, context, link, world
<1>0. DataTyped /\ NoCard \notin Cards
  BY PaceAssumption DEF PaceIInv
<1>1. /\ UNCHANGED <<state, jobs, lastPace, expected, pwType, error, counter, conn>>
      /\ session' = [session EXCEPT ![r] = NoCard] /\ info' = [info EXCEPT ![r] = PolledInfo(r)]
      /\ opened' = Closed({r})
  BY DEF Poll
<1>2. ~Alive(r)'
  BY <1>0, <1>1 DEF DataTyped, Alive
<1> QED BY <1>0, <1>1, <1>2 DEF DataTyped, Closed

LEMMA PollTries ==
    ASSUME PaceIInv, ~error, TriesKept, NEW r \in Readers, Poll(r) PROVE TriesKept'
<1>1. /\ UNCHANGED <<state, jobs, lastPace, expected, pwType, error, counter, conn>>
      /\ \A q \in Readers : q # r => /\ session'[q] = session[q] /\ opened'[q] = opened[q]
                                     /\ info'[q] = info[q]
      /\ ~Alive(r)'
  BY PollFinds
<1> DEFINE news == PolledNews(r, Subscribed(r))
<1>2. /\ events \in Seq(PaceEvents) /\ news \in Seq(PaceEvents) /\ events' = events \o news
      /\ \A i \in DOMAIN news : news[i].type \in NewsTypes /\ news[i].reader = r
  <2>1. MachineTyped /\ DataTyped
    BY DEF PaceIInv
  <2>2. news \in Seq(PaceEvents)
    BY <2>1, PolledNewsTyped DEF Subscribed
  <2>3. \A i \in DOMAIN news : news[i].type \in NewsTypes /\ news[i].reader = r
    BY DEF PolledNews, News, NewsTypes
  <2>4. events' = events \o news
    BY DEF Poll
  <2> QED BY <2>1, <2>2, <2>3, <2>4 DEF MachineTyped
<1> HIDE DEF news
<1>3. CoreOps \cap NewsTypes = {}
  BY DEF CoreOps, NewsTypes
<1>4. /\ \A i \in DOMAIN events' : events'[i].type \in CoreOps => \E k \in DOMAIN events : events[k] = events'[i]
      /\ \A i \in DOMAIN events : i \in DOMAIN events' /\ events'[i] = events[i]
  <2>1. \A i \in DOMAIN (events \o news) :
            \/ i \in DOMAIN events /\ (events \o news)[i] = events[i]
            \/ \E k \in DOMAIN news : (events \o news)[i] = news[k]
    BY <1>2
  <2>2. \A i \in DOMAIN events : i \in DOMAIN (events \o news) /\ (events \o news)[i] = events[i]
    BY <1>2
  <2> QED BY <1>2, <1>3, <2>1, <2>2
<1>5. ASSUME conn # NoConn, Alive(conn.reader)'
      PROVE  /\ conn.reader \in Readers /\ conn.reader # r
             /\ Alike(events, events', conn.reader)
  BY <1>1, <1>2, <1>3, <1>5, FlagsKeep, AlikeMore DEF PaceIInv, Told
<1>6. ASSUME conn # NoConn, Alive(conn.reader)'
      PROVE  /\ info'[conn.reader] = info[conn.reader]
             /\ Quiet(events, conn.reader) => Quiet(events', conn.reader)
             /\ \A known, tries, accepted : Answers(events, conn, known, tries, accepted)
                                                => Answers(events', conn, known, tries, accepted)
  BY <1>1, <1>5, <1>6, AlikeKeeps
<1> QED BY <1>1, <1>4, <1>6, TriesPass

\* Whatever an aborted workflow still does, it makes no new attempt.
MoreJobs ==
    \E more \in Seq(PaceJobs) :
        /\ \A i \in DOMAIN more : more[i].op # "pace"
        /\ jobs' = jobs \o more \/ jobs' = Forgotten(jobs \o more, state)

LEMMA KeptMore == ASSUME jobs \in Seq(PaceJobs), JobsKept PROVE MoreJobs
<1> DEFINE more == <<>>
<1>1. jobs \o more = jobs /\ more \in Seq(PaceJobs) /\ DOMAIN more = {}
  OBVIOUS
<1>2. jobs' = jobs \o more \/ jobs' = Forgotten(jobs \o more, state)
  BY <1>1 DEF JobsKept
<1> HIDE DEF more
<1> QED BY <1>1, <1>2 DEF MoreJobs

LEMMA ErrorRuns ==
    ASSUME PaceIInv, error, RunStep
    PROVE  /\ MoreJobs /\ error'
           /\ pwType' = pwType \/ (pwType' = "PIN" => ~CanAllowed)
<1> USE DEF Fire, FireWith, Leave, Enter, JobsKept, kept, context
<1>0. jobs \in Seq(PaceJobs) /\ DataTyped
  BY DEF PaceIInv, MachineTyped
<1>1. ASSUME NEW job \in PaceJobs, job.op # "pace", jobs' = Append(jobs, job) PROVE MoreJobs
  <2>1. jobs' = jobs \o <<job>> /\ <<job>> \in Seq(PaceJobs) /\ \A i \in DOMAIN <<job>> : <<job>>[i] = job
    BY <1>0, <1>1
  <2> QED BY <1>1, <2>1 DEF MoreJobs
<1>2. conn # NoConn => \A op \in {"update", "destroy"} : Job(op, conn.reader, "PIN", NoCard) \in PaceJobs
  BY <1>0, FlagsKeep, JobTyped DEF Ops, PaceTypes, Types, Secrets, PaceIInv
<1>3. CASE MaintainAborts
  BY <1>0, <1>3, KeptMore DEF MaintainAborts
<1>4. ~MaintainAfterWrongPassword /\ ~MaintainAfterCardVanished /\ ~MaintainContinues
  BY DEF MaintainAfterWrongPassword, MaintainAfterCardVanished, MaintainContinues, IsBeyondRepair
<1>5. CASE ClearPacePasswordsOnError \/ ClearPacePasswordsBeforeDestroy
  BY <1>0, <1>5, KeptMore DEF ClearPacePasswordsOnError, ClearPacePasswordsBeforeDestroy, ClearPasswords
<1>6. CASE SelectReader
  BY <1>0, <1>6, KeptMore DEF SelectReader
<1>7. CASE ConnectCard
  <2>1. /\ ConnectJobs(readerName, cache) \in Seq(PaceJobs)
        /\ \A i \in DOMAIN ConnectJobs(readerName, cache) : ConnectJobs(readerName, cache)[i].op = "connect"
    BY ConnectOnly, JobTyped DEF ConnectJobs, Ops, PaceTypes, Types, Secrets
  <2> QED BY <1>7, <2>1 DEF ConnectCard, MoreJobs
<1>8. CASE UpdateRetryCounter
  <2>1. CASE conn = NoConn
    BY <1>0, <1>8, <2>1, KeptMore DEF UpdateRetryCounter, RunUpdate
  <2>2. CASE conn # NoConn
    BY <1>1, <1>2, <1>8, <2>2 DEF UpdateRetryCounter, RunUpdate, Invoke, Job
  <2> QED BY <2>1, <2>2
<1>9. CASE VerifyRetryCounter
  BY <1>0, <1>9, KeptMore DEF VerifyRetryCounter
<1>10. CASE PreparePace
  BY <1>0, <1>10, KeptMore DEF PreparePace, RequiredPassword
<1>11. CASE EnterPacePassword \/ EstablishAborts \/ UnfortunateCardPosition
  BY <1>0, <1>11, KeptMore DEF EnterPacePassword, EstablishAborts, UnfortunateCardPosition
<1>12. ~EstablishPaceChannel
  BY DEF EstablishPaceChannel
<1>13. CASE DestroyPace
  BY <1>1, <1>2, <1>13 DEF DestroyPace, RunDestroy, Invoke, Job
<1> QED
  BY <1>3, <1>4, <1>5, <1>6, <1>7, <1>8, <1>9, <1>10, <1>11, <1>12, <1>13 DEF RunStep

LEMMA ErrorResults ==
    ASSUME PaceIInv, error, ResultStep
    PROVE  MoreJobs /\ error' /\ pwType' = pwType
<1> USE DEF Fire, FireWith, Leave, Enter, JobsKept, rest, kept, context, machine
<1>0. jobs \in Seq(PaceJobs)
  BY DEF PaceIInv, MachineTyped
<1>1. CASE ConnectSucceeds \/ ConnectFails \/ ConnectForgotten
  BY <1>0, <1>1, KeptMore DEF ConnectSucceeds, ConnectFails, ConnectForgotten
<1>2. CASE UpdateDone \/ DestroyDone
  BY <1>0, <1>2, KeptMore DEF UpdateDone, Updated, DestroyDone, Destroyed
<1>3. CASE PaceForgotten \/ PaceSucceeds \/ PaceRefused
  BY <1>0, <1>3, KeptMore DEF PaceForgotten, PaceSucceeds, PaceRefused
<1>4. CASE PaceInvalidPin \/ PaceFails \/ PaceVanished
  BY <1>0, <1>4, KeptMore DEF PaceInvalidPin, PaceFails, PaceVanished
<1>5. CASE NewsArrives
  <2> DEFINE connects == "ConnectCard" \in armed /\ Arrived.type = "inserted"
  <2>1. PICK name : LET js == jobs \o (IF connects THEN ConnectJobs(name, cache') ELSE <<>>)
                    IN  jobs' = js \/ jobs' = Forgotten(js, state)
    BY <1>5 DEF NewsArrives
  <2> DEFINE more == IF connects THEN ConnectJobs(name, cache') ELSE <<>>
  <2>2. jobs' = jobs \o more \/ jobs' = Forgotten(jobs \o more, state)
    BY <2>1
  <2>3. /\ ConnectJobs(name, cache') \in Seq(PaceJobs)
        /\ \A i \in DOMAIN ConnectJobs(name, cache') : ConnectJobs(name, cache')[i].op = "connect"
    BY ConnectOnly, JobTyped DEF ConnectJobs, Ops, PaceTypes, Types, Secrets
  <2>4. more \in Seq(PaceJobs) /\ \A i \in DOMAIN more : more[i].op # "pace"
    BY <2>3
  <2> HIDE DEF more, connects
  <2>5. error' /\ pwType' = pwType
    BY <1>5 DEF NewsArrives
  <2> QED BY <2>2, <2>4, <2>5 DEF MoreJobs
<1> QED BY <1>1, <1>2, <1>3, <1>4, <1>5 DEF ResultStep

LEMMA MoreFrom == ASSUME jobs \in Seq(PaceJobs), MoreJobs PROVE From(jobs', jobs)
<1>1. PICK more \in Seq(PaceJobs) :
          /\ \A i \in DOMAIN more : more[i].op # "pace"
          /\ jobs' = jobs \o more \/ jobs' = Forgotten(jobs \o more, state)
  BY DEF MoreJobs
<1> DEFINE all == jobs \o more
<1>2. /\ all \in Seq(PaceJobs)
      /\ \A k \in DOMAIN all : \/ k \in DOMAIN jobs /\ all[k] = jobs[k]
                               \/ \E i \in DOMAIN more : all[k] = more[i]
  OBVIOUS
<1> HIDE DEF all
<1>3. From(all, jobs)
  BY <1>1, <1>2 DEF From
<1>4. From(jobs', all)
  <2>1. From(all, all)
    BY DEF From
  <2> QED BY <1>1, <1>2, <2>1, ForgottenFrom DEF all
<1> QED BY <1>3, <1>4 DEF From

\* While a password is still on its way, an aborted workflow only comes to its end.
LEMMA AbortedPins ==
    ASSUME PaceIInv, Control, error, PinSafe, MainThread, NEW k \in DOMAIN jobs, jobs[k].op = "pace"
    PROVE  PinSafe'
<1> USE DEF Fire, FireWith, Leave, Enter, JobsKept, rest, kept, context, machine, readerSide
<1>0. /\ DataTyped /\ MachineTyped /\ jobs \in Seq(PaceJobs) /\ jobs # <<>> /\ NoCard \notin Cards
      /\ \A i \in DOMAIN events : Kind(events[i]) \notin {"pace"} \cup (CoreKinds \ Ending)
      /\ NoConnect
  BY PaceAssumption, PaceAlone DEF PaceIInv, MachineTyped
<1>1. events # <<>> => Kind(Head(events)) \notin {"pace"} \cup (CoreKinds \ Ending)
  BY <1>0 DEF MachineTyped
<1>2. \A s : Running(s) /\ s \in Inner => s \in {"MaintainCardConnection", "ClearPacePasswordsOnError"}
  BY <1>1, RunKind DEF CoreKinds, Ending, Inner
<1>3. \A op \in CoreOps : ~Arrives(op)
  BY <1>1 DEF CoreOps, CoreKinds, Ending, Arrives, Kind
<1>4. CASE RunStep
  <2>1. MaintainAborts \/ ClearPacePasswordsOnError
    <3>1. /\ ~Running("ClearPacePasswordsBeforeDestroy") /\ ~Running("SelectReader")
          /\ ~Running("ConnectCard") /\ ~Running("UpdateRetryCounter") /\ ~Running("VerifyRetryCounter")
          /\ ~Running("PreparePace") /\ ~Running("EnterPacePassword")
          /\ ~Running("EstablishPaceChannel") /\ ~Running("UnfortunateCardPosition")
          /\ ~Running("DestroyPace")
      BY <1>2 DEF Inner
    <3>2. ~MaintainAfterWrongPassword /\ ~MaintainAfterCardVanished /\ ~MaintainContinues
      BY DEF MaintainAfterWrongPassword, MaintainAfterCardVanished, MaintainContinues, IsBeyondRepair
    <3> QED
      BY <1>4, <3>1, <3>2
         DEF RunStep, ClearPacePasswordsBeforeDestroy, ClearPasswords, SelectReader, ConnectCard,
             UpdateRetryCounter, RunUpdate, VerifyRetryCounter, PreparePace, EnterPacePassword,
             EstablishAborts, EstablishPaceChannel, UnfortunateCardPosition, DestroyPace, RunDestroy
  <2>2. JobsKept /\ UNCHANGED <<expected, counter, session, opened>>
    BY <2>1 DEF MaintainAborts, ClearPacePasswordsOnError, ClearPasswords
  <2> QED BY <2>2, KeptPins
<1>5. CASE ResultStep
  <2>1. CASE ConnectSucceeds
    BY <1>0, <2>1 DEF ConnectSucceeds
  <2>2. CASE ConnectFails
    BY <2>2, KeptPins DEF ConnectFails
  <2>3. CASE ConnectForgotten
    BY <1>0, <2>3, KeptPins DEF ConnectForgotten, Disconnected, Closed, Alive
  <2>4. ~(UpdateDone \/ DestroyDone \/ PaceForgotten \/ PaceSucceeds \/ PaceRefused \/ PaceInvalidPin
          \/ PaceFails \/ PaceVanished)
    BY <1>3 DEF CoreOps, UpdateDone, Updated, DestroyDone, Destroyed, PaceForgotten, PaceSucceeds,
                PaceRefused, PaceInvalidPin, PaceFails, PaceVanished
  <2>5. CASE NewsArrives
    BY <1>0, <2>5, KeptPins DEF NoConnect, NewsArrives
  <2> QED BY <1>5, <2>1, <2>2, <2>3, <2>4, <2>5 DEF ResultStep
<1> QED BY <1>4, <1>5 DEF MainThread

LEMMA ErrorTries ==
    ASSUME TypesFixed, PaceIInv, Control, error, TriesKept, [Next]_vars PROVE TriesKept'
<1>0. PinSafe /\ jobs \in Seq(PaceJobs) /\ (pwType = "PIN" => ~CanAllowed)
  BY DEF TriesKept, Resumed, PaceIInv, MachineTyped
<1> SUFFICES error' /\ PinSafe' /\ (pwType' = "PIN" => ~CanAllowed)
  BY DEF TriesKept, Linked, Waited, Resumed
<1>1. CASE MainThread
  <2>1. MoreJobs /\ error' /\ (pwType' = pwType \/ (pwType' = "PIN" => ~CanAllowed))
    BY <1>1, ErrorRuns, ErrorResults DEF MainThread
  <2>2. PinSafe'
    BY <1>0, <1>1, <2>1, AbortedPins, MoreFrom DEF From, PinSafe
  <2> QED BY <1>0, <2>1, <2>2
<1>2. CASE ReaderThread
  <2>1. jobs # <<>> /\ jobs' = Tail(jobs) /\ UNCHANGED <<error, pwType>>
    BY <1>2 DEF ReaderThread, ExecuteConnect, ExecuteUpdate, ExecuteDestroy, ExecutePace, ReachesCard,
                ExecutePaceInVain, Executing, Report, mainSide, context
  <2>2. PinSafe'
    BY <1>0, <2>1, ThreadPins
  <2> QED BY <1>0, <2>1, <2>2
<1>3. CASE Environment
  BY <1>0, <1>3, EnvironmentPins
<1>4. ASSUME NEW r \in Readers, Poll(r) PROVE error' /\ PinSafe' /\ pwType' = pwType
  BY <1>0, <1>4, PollFinds, KeptPins DEF JobsKept
<1>5. CASE NextStateRuns \/ UNCHANGED vars
  <2>1. UNCHANGED <<jobs, expected, pwType, error, counter, session, opened>>
    BY <1>5 DEF NextStateRuns, machine, kept, rest, readerSide, context, vars, reader, world
  <2> QED BY <1>0, <2>1, KeptPins DEF JobsKept
<1> QED BY <1>0, <1>1, <1>2, <1>3, <1>4, <1>5 DEF Next, PaceStep

LEMMA InitTries == Init => TriesInv
<1> SUFFICES ASSUME Init PROVE TriesInv
  OBVIOUS
<1>1. OpenedTyped
  BY DEF Init, OpenedTyped
<1>2. SeenKnown
  <2>1. NoCard \notin Cards /\ InitialTries \subseteq 0..3
    BY PaceAssumption
  <2>2. \A r \in Readers : slot[r] # NoCard => info[r] \in 0..3
    BY <2>1 DEF Init, Secrets
  <2>3. \A r \in Readers : ~Alive(r) /\ seen[r] = (slot[r] # NoCard)
    BY <2>1 DEF Init, Alive
  <2>4. seen \in [Readers -> BOOLEAN]
    BY DEF Init
  <2> QED BY <2>2, <2>3, <2>4 DEF SeenKnown, Unknown
<1>3. Heard
  BY DEF Init, Heard
<1>4. TriesKept
  <2>1. Linked /\ PinSafe
    BY DEF Init, Linked, PinSafe
  <2>2. Waited
    BY DEF Init, Waited, Run, CoreOps
  <2>3. Resumed /\ ~Watched
    BY DEF Init, Resumed, Watched
  <2> QED BY <2>1, <2>2, <2>3 DEF TriesKept
<1> QED BY <1>1, <1>2, <1>3, <1>4 DEF TriesInv

LEMMA StepTries ==
    ASSUME TypesFixed, CardsAreActive
    PROVE  PaceIInv /\ Control /\ TriesInv /\ [Next]_vars => TriesInv'
<1> SUFFICES ASSUME PaceIInv, Control, TriesInv, [Next]_vars PROVE TriesInv'
  OBVIOUS
<1>1. OpenedTyped' /\ SeenKnown' /\ Heard'
  BY OpenedKeeps, SeenKnownKeeps, HeardKeeps DEF TriesInv
<1>2. CASE error
  BY <1>1, <1>2, ErrorTries DEF TriesInv
<1>3. CASE ~error
  <2> SUFFICES TriesKept'
    BY <1>1 DEF TriesInv
  <2>1. Normal /\ TriesKept /\ Heard /\ OpenedTyped
    BY <1>3 DEF Control, TriesInv
  <2>2. CASE MainThread
    BY <1>3, <2>1, <2>2, RunTries, ResultTries DEF MainThread
  <2>3. CASE ReaderThread
    BY <1>3, <2>1, <2>3, ThreadTries
  <2>4. CASE Environment
    BY <1>3, <2>1, <2>4, EnvironmentTries
  <2>5. CASE \E r \in Readers : Poll(r)
    BY <1>3, <2>1, <2>5, PollTries
  <2>6. CASE NextStateRuns
    BY <1>3, <2>1, <2>6, NextStateTries
  <2>7. CASE UNCHANGED vars
    <3>1. UNCHANGED <<state, jobs, lastPace, expected, pwType, error, counter, conn, info, events, session, opened>>
      BY <2>7 DEF vars, machine, context, link, reader, world
    <3> QED BY <1>3, <2>1, <3>1, AlikeSame, AlikePass
  <2> QED BY <2>2, <2>3, <2>4, <2>5, <2>6, <2>7 DEF Next, PaceStep
<1> QED BY <1>2, <1>3

\* When the context can trust what it knows of a card's tries: from the result
\* of StateUpdateRetryCounter until the PIN is with the card.
THEOREM TriesFollowed == ASSUME TypesFixed, CardsAreActive PROVE Spec => []TriesInv
<1>1. PaceIInv /\ Control /\ TriesInv /\ [Next]_vars => TriesInv'
  BY StepTries
<1> QED BY <1>1, InitTries, PaceInvariant, PaceControlled, PTL DEF Spec

LEMMA HeadIsSafe ==
    ASSUME PaceIInv, TriesInv, Executing("pace"), Command.password = "PIN", ReachesCard
    PROVE  /\ counter[session[Command.reader]] = expected.counter
           /\ \/ counter[session[Command.reader]] \in {2, 3}
              \/ counter[session[Command.reader]] = 1 /\ opened[Command.reader] = "CAN"
<1>1. jobs \in Seq(PaceJobs)
  BY DEF PaceIInv, MachineTyped
<1>2. 1 \in DOMAIN jobs /\ Command = jobs[1] /\ jobs[1].op = "pace" /\ jobs[1].password = "PIN"
  BY <1>1 DEF Executing, Command
<1> QED BY <1>2 DEF TriesInv, TriesKept, PinSafe, ReachesCard

\* A PIN only reaches a card whose number of tries the user has been told,
\* whatever cards are exchanged between two polls and whatever news of the
\* readers are still in the queue (StateVerifyRetryCounter).
THEOREM TriesAlwaysKnown == ASSUME TypesFixed, CardsAreActive PROVE Spec => []TriesAreKnown
<1>1. PaceIInv /\ TriesInv => TriesAreKnown
  BY HeadIsSafe DEF TriesAreKnown
<1> QED BY <1>1, PaceInvariant, TriesFollowed, PTL

\* The last try of a PIN is only spent on a card that has accepted its CAN and
\* has been in use ever since (StatePreparePace).
THEOREM LastTryIsGuarded == ASSUME TypesFixed, CardsAreActive PROVE Spec => []LastTryNeedsCan
<1>1. PaceIInv /\ TriesInv => LastTryNeedsCan
  BY HeadIsSafe DEF LastTryNeedsCan
<1> QED BY <1>1, PaceInvariant, TriesFollowed, PTL
-----------------------------------------------------------------------------
(* What becomes of a queue while a state runs or a result is taken: some of  *)
(* it is not wanted any more, and news or an approval join it.               *)

LEMMA ChangeRun ==
    \A s \in ChangeStates : Run(s) \in ChangeEvents /\ Run(s).type = "run" /\ Run(s).state = s
BY DEF Run, ChangeEvents

Carries(e, f) ==
    /\ f.type = e.type /\ (e.type = "run" => f = e)
    /\ e.type \in Replies => f.reader = e.reader /\ f.code = e.code /\ (f.wanted => e.wanted)
Joins(e) == e.type \in NewsTypes \/ (state \in WaitsForUser /\ e = Run(state))
Follows(old, new) ==
    /\ new \in Seq(ChangeEvents) /\ Len(old) <= Len(new)
    /\ \A i \in 1..Len(old) : Carries(old[i], new[i])
    /\ \A i \in (Len(old) + 1)..Len(new) : Joins(new[i])
JobsFollow(old, new) ==
    /\ new \in Seq(ChangeJobs) /\ Len(old) <= Len(new)
    /\ \A i \in 1..Len(old) : new[i].op = old[i].op /\ (new[i].wanted => old[i].wanted)

LEMMA FollowsItself == \A q \in Seq(ChangeEvents) : Follows(q, q)
BY DEF Follows, Carries

LEMMA FollowsMore ==
    ASSUME NEW old \in Seq(ChangeEvents), NEW new, Follows(old, new),
           NEW more \in Seq(ChangeEvents), \A i \in DOMAIN more : Joins(more[i])
    PROVE  Follows(old, new \o more)
<1>1. /\ new \o more \in Seq(ChangeEvents) /\ Len(new \o more) = Len(new) + Len(more)
      /\ \A i \in 1..Len(new \o more) :
            (new \o more)[i] = IF i <= Len(new) THEN new[i] ELSE more[i - Len(new)]
      /\ Len(new) \in Nat /\ Len(more) \in Nat /\ Len(old) \in Nat
  BY DEF Follows
<1>2. ASSUME NEW i \in (Len(old) + 1)..Len(new \o more) PROVE Joins((new \o more)[i])
  BY <1>1 DEF Follows
<1>3. \A i \in 1..Len(old) : Carries(old[i], (new \o more)[i])
  BY <1>1 DEF Follows
<1> QED BY <1>1, <1>2, <1>3 DEF Follows

LEMMA FollowsCarried ==
    ASSUME NEW old \in Seq(ChangeEvents), NEW new, Follows(old, new),
           NEW other \in Seq(ChangeEvents), Len(other) = Len(new),
           \A i \in 1..Len(new) : Carries(new[i], other[i])
    PROVE  Follows(old, other)
<1>1. \A i \in 1..Len(old) : Carries(old[i], other[i])
  BY DEF Follows, Carries
<1>2. \A i \in (Len(old) + 1)..Len(other) : Joins(other[i])
  <2> SUFFICES ASSUME NEW i \in (Len(old) + 1)..Len(other) PROVE Joins(other[i])
    OBVIOUS
  <2>1. i \in 1..Len(new) /\ Joins(new[i]) /\ Carries(new[i], other[i])
    BY DEF Follows
  <2>2. Run(state).type = "run"
    BY DEF Run
  <2> QED BY <2>1, <2>2 DEF Joins, Carries
<1> QED BY <1>1, <1>2 DEF Follows

LEMMA UndeliveredFollows ==
    ASSUME NEW old \in Seq(ChangeEvents), NEW new, Follows(old, new), NEW s
    PROVE  Follows(old, Undelivered(new, s))
<1> DEFINE other == Undelivered(new, s)
<1>1. \A e \in ChangeEvents : e.type = "connect" =>
          /\ [e EXCEPT !.wanted = FALSE] \in ChangeEvents
          /\ Carries(e, [e EXCEPT !.wanted = FALSE])
  BY DEF ChangeEvents, NewsTypes, Replies, Ops, Carries
<1>2. \A e \in ChangeEvents : Carries(e, e)
  BY DEF Carries
<1>3. new \in Seq(ChangeEvents) /\ \A i \in 1..Len(new) : new[i] \in ChangeEvents
  BY DEF Follows
<1>4. Len(new) \in Nat /\ DOMAIN new = 1..Len(new)
  BY <1>3
<1>5. ASSUME NEW i \in 1..Len(new)
      PROVE  other[i] \in ChangeEvents /\ Carries(new[i], other[i])
  BY <1>1, <1>2, <1>3, <1>4 DEF Undelivered
<1>6. DOMAIN other = 1..Len(new)
  BY <1>4 DEF Undelivered
<1> HIDE DEF other
<1>7. other = [i \in 1..Len(new) |-> other[i]]
  BY <1>4 DEF other, Undelivered
<1>8. other \in Seq(ChangeEvents) /\ Len(other) = Len(new)
  BY <1>4, <1>5, <1>6, <1>7
<1>9. Follows(old, other)
  BY <1>5, <1>8, FollowsCarried
<1> QED BY <1>9 DEF other

LEMMA UnsubscribedFollows ==
    ASSUME NEW old \in Seq(ChangeEvents), NEW new, Follows(old, new)
    PROVE  Follows(old, Unsubscribed(new))
<1> DEFINE other == Unsubscribed(new)
<1>1. \A e \in ChangeEvents : e.type \in NewsTypes =>
          /\ [e EXCEPT !.subscribed = FALSE] \in ChangeEvents
          /\ Carries(e, [e EXCEPT !.subscribed = FALSE])
  BY DEF ChangeEvents, NewsTypes, Replies, Ops, Carries
<1>2. \A e \in ChangeEvents : Carries(e, e)
  BY DEF Carries
<1>3. new \in Seq(ChangeEvents) /\ \A i \in 1..Len(new) : new[i] \in ChangeEvents
  BY DEF Follows
<1>4. Len(new) \in Nat /\ DOMAIN new = 1..Len(new)
  BY <1>3
<1>5. ASSUME NEW i \in 1..Len(new)
      PROVE  other[i] \in ChangeEvents /\ Carries(new[i], other[i])
  BY <1>1, <1>2, <1>3, <1>4 DEF Unsubscribed
<1>6. DOMAIN other = 1..Len(new)
  BY <1>4 DEF Unsubscribed
<1> HIDE DEF other
<1>7. other = [i \in 1..Len(new) |-> other[i]]
  BY <1>4 DEF other, Unsubscribed
<1>8. other \in Seq(ChangeEvents) /\ Len(other) = Len(new)
  BY <1>4, <1>5, <1>6, <1>7
<1>9. Follows(old, other)
  BY <1>5, <1>8, FollowsCarried
<1> QED BY <1>9 DEF other

LEMMA PolledFollows ==
    ASSUME DataTyped, NEW old \in Seq(ChangeEvents), NEW new, Follows(old, new),
           NEW r \in Readers, NEW b \in BOOLEAN
    PROVE  Follows(old, new \o PolledNews(r, b))
<1>1. slot[r] # NoCard => slot[r] \in Cards /\ counter[slot[r]] \in Counters
  BY DEF DataTyped, Secrets, Counters
<1>2. \A t \in NewsTypes, c \in Secrets, n \in Counters :
          News(t, r, c, n, b) \in ChangeEvents /\ Joins(News(t, r, c, n, b))
  BY DEF News, ChangeEvents, Joins
<1>3. /\ slot[r] # NoCard => News("inserted", r, slot[r], counter[slot[r]], b) \in ChangeEvents
                             /\ Joins(News("inserted", r, slot[r], counter[slot[r]], b))
      /\ News("removed", r, NoCard, Unknown, b) \in ChangeEvents
      /\ Joins(News("removed", r, NoCard, Unknown, b))
  BY <1>1, <1>2 DEF NewsTypes, Secrets, Counters
<1>4. /\ PolledNews(r, b) \in Seq(ChangeEvents)
      /\ \A i \in DOMAIN PolledNews(r, b) : Joins(PolledNews(r, b)[i])
  BY <1>3 DEF PolledNews
<1> QED BY <1>4, FollowsMore

LEMMA AfterResetFollows ==
    ASSUME DataTyped, NEW old \in Seq(ChangeEvents)
    PROVE  Follows(old, AfterReset(old))
<1>1. Follows(old, Unsubscribed(old))
  BY FollowsItself, UnsubscribedFollows
<1>2. CASE readerName \in Readers
  BY <1>1, <1>2, PolledFollows DEF AfterReset
<1>3. CASE readerName \notin Readers
  BY <1>1, <1>3, FollowsMore DEF AfterReset
<1> QED BY <1>2, <1>3

LEMMA JobsForgotten ==
    ASSUME NEW old \in Seq(ChangeJobs), NEW new, JobsFollow(old, new), NEW s
    PROVE  JobsFollow(old, Forgotten(new, s)) /\ Len(Forgotten(new, s)) = Len(new)
<1>1. \A j \in ChangeJobs : /\ [j EXCEPT !.wanted = FALSE] \in ChangeJobs
                            /\ [j EXCEPT !.wanted = FALSE].op = j.op
                            /\ ~[j EXCEPT !.wanted = FALSE].wanted
  BY DEF ChangeJobs
<1>2. new \in Seq(ChangeJobs) /\ \A i \in 1..Len(new) : new[i] \in ChangeJobs
  BY DEF JobsFollow
<1>3. Forgotten(new, s) \in Seq(ChangeJobs) /\ Len(Forgotten(new, s)) = Len(new)
  BY <1>1, <1>2 DEF Forgotten
<1>4. \A i \in 1..Len(new) : /\ Forgotten(new, s)[i].op = new[i].op
                             /\ Forgotten(new, s)[i].wanted => new[i].wanted
  BY <1>1, <1>2 DEF Forgotten
<1> QED BY <1>2, <1>3, <1>4 DEF JobsFollow

LEMMA JobsMore ==
    ASSUME NEW old \in Seq(ChangeJobs), NEW more \in Seq(ChangeJobs)
    PROVE  JobsFollow(old, old \o more)
<1>1. /\ old \o more \in Seq(ChangeJobs) /\ Len(old \o more) = Len(old) + Len(more)
      /\ \A i \in 1..Len(old) : (old \o more)[i] = old[i]
      /\ Len(old) \in Nat /\ Len(more) \in Nat
  OBVIOUS
<1> QED BY <1>1 DEF JobsFollow

LEMMA ChangeJobTyped ==
    ASSUME NEW op \in Replies, NEW r \in Readers, NEW p \in PaceTypes, NEW s \in Secrets
    PROVE  Job(op, r, p, s) \in ChangeJobs
BY DEF Job, ChangeJobs

LEMMA ConnectJobsFollow ==
    ASSUME NEW old \in Seq(ChangeJobs), NEW name, NEW known
    PROVE  JobsFollow(old, old \o ConnectJobs(name, known))
<1>1. ConnectJobs(name, known) \in Seq(ChangeJobs)
  BY ChangeJobTyped DEF ConnectJobs, Replies, Ops, PaceTypes, Types, Secrets
<1> QED BY <1>1, JobsMore
-----------------------------------------------------------------------------
(* A step that works on the queue from its (d + 1)th event on.  It may enter *)
(* another state, whose run() is then the last event.                        *)

Lawful ==
    /\ state # "Final"
    /\ state' = "ClearPacePasswordsOnError" => error'
    /\ state' \in Concluding /\ ~error' => state \in Concluding \/ renewed # {}
    /\ state' \in Cleared => state \in Cleared \/ state' = "Aborted"
    /\ state' = "Final" => state = "CleanUpReaderManager"
    /\ state' = state => state' = "SelectReader"
Trace(d) ==
    /\ events' \in Seq(ChangeEvents)
    /\ \A k \in DOMAIN events : k > d =>
           k - d \in DOMAIN events' /\ Carries(events[k], events'[k - d])
    /\ \A i \in DOMAIN events' :
           \/ i + d \in DOMAIN events /\ Carries(events[i + d], events'[i])
           \/ Joins(events'[i])
           \/ Lawful /\ i = Len(events') /\ events'[i] = Run(state')
    /\ state' # state => Lawful /\ (state' \in WaitsForUser \/ Due(events', state'))

\* run() of a state comes from the queue before, but for the last event.
LEMMA TracedRun ==
    ASSUME ChangeTyped, NEW d \in {0, 1}, Trace(d), NEW s, s \notin WaitsForUser,
           NEW i \in DOMAIN events', events'[i] = Run(s)
    PROVE  \/ i + d \in DOMAIN events /\ events[i + d] = Run(s)
           \/ Lawful /\ state' = s /\ i = Len(events')
<1>1. /\ Run(s).type = "run" /\ Run(s).state = s
      /\ Run(state).state = state /\ Run(state').state = state'
  BY DEF Run
<1>2. ~Joins(events'[i])
  BY <1>1 DEF Joins, NewsTypes
<1>3. CASE i + d \in DOMAIN events /\ Carries(events[i + d], events'[i])
  BY <1>1, <1>3 DEF Carries
<1>4. CASE Lawful /\ i = Len(events') /\ events'[i] = Run(state')
  BY <1>1, <1>4
<1> QED BY <1>2, <1>3, <1>4 DEF Trace

LEMMA TracedOn ==
    ASSUME ChangeTyped, NEW d \in {0, 1}, Trace(d), NEW s, NEW k \in DOMAIN events, k > d,
           events[k] = Run(s)
    PROVE  k - d \in DOMAIN events' /\ events'[k - d] = Run(s)
BY DEF Trace, Carries, Run

LEMMA ChangedKeeps ==
    ASSUME ChangeTyped, ChangedInv, NEW d \in {0, 1}, Trace(d), error => error',
           renewed' = renewed
    PROVE  ChangedInv'
<1>1. ASSUME NEW i \in DOMAIN events', events'[i].type = "setPin", events'[i].code = "OK"
      PROVE  renewed' # {}
  BY <1>1 DEF NewsTypes, Trace, Joins, Run, Carries, Replies, ChangedInv
<1>2. state' \in Concluding /\ ~error' => renewed' # {}
  BY DEF ChangedInv, Trace, Lawful
<1>3. state' = "ClearPacePasswordsOnError" => error'
  BY DEF ChangedInv, Trace, Lawful
<1>4. ASSUME NEW i \in DOMAIN events', events'[i] = Run("ClearPacePasswordsOnError")
      PROVE  error'
  BY <1>3, <1>4, TracedRun DEF WaitsForUser, ChangedInv, Due
<1> QED BY <1>1, <1>2, <1>3, <1>4 DEF ChangedInv, Due

\* What "d" drops: the first event, if any.
Drops(d) == d = 1 => events # <<>> /\ Head(events) \notin {Run("CleanUpReaderManager"), Run("Final")}

LEMMA Dropped ==
    ASSUME ChangeTyped, NEW d \in {0, 1}, NEW k \in DOMAIN events, ~(k > d)
    PROVE  d = 1 /\ k = 1 /\ events[k] = Head(events)
BY DEF ChangeTyped

LEMMA ForgottenKeeps ==
    ASSUME ChangeTyped, ForgottenInv, LastRun, NEW d \in {0, 1}, Trace(d),
           pw' \in {pw, NoPasswords} \/ state \notin Cleared,
           d = 1 /\ Head(events) = Run("Aborted") => pw' = NoPasswords
    PROVE  ForgottenInv'
<1> DEFINE gone == pw' = NoPasswords
<1>1. "Aborted" \notin WaitsForUser /\ "Final" \notin WaitsForUser /\ "Final" \in Cleared
      /\ "CleanUpReaderManager" \in Cleared /\ Run("Aborted") # Run("Final")
  BY DEF WaitsForUser, Cleared, Concluding, Run
<1>2. ASSUME NEW k \in DOMAIN events, events[k] = Run("Aborted"), ~gone
      PROVE  k > d /\ k - d \in DOMAIN events' /\ events'[k - d] = Run("Aborted")
  BY <1>2, Dropped, TracedOn
<1>3. state \in Cleared => gone \/ Due(events', "Aborted")
  <2> SUFFICES ASSUME state \in Cleared, ~gone PROVE Due(events', "Aborted")
    OBVIOUS
  <2>1. PICK k \in DOMAIN events : events[k] = Run("Aborted")
    BY DEF ForgottenInv, Due
  <2> QED BY <1>2, <2>1 DEF Due
<1>4. state' \in Cleared => gone \/ Due(events', "Aborted")
  BY <1>1, <1>3 DEF Trace, Lawful
<1>5. ASSUME NEW j \in DOMAIN events', events'[j] = Run("Final"), ~gone
      PROVE  \E i \in 1..(j - 1) : events'[i] = Run("Aborted")
  <2>1. CASE j + d \in DOMAIN events /\ events[j + d] = Run("Final")
    <3>1. state = "Final"
      BY <2>1 DEF LastRun, Due
    <3>p. pw # NoPasswords
      BY <1>1, <1>5, <3>1
    <3>2. PICK k \in 1..((j + d) - 1) : events[k] = Run("Aborted")
      BY <2>1, <3>p DEF ForgottenInv
    <3>0. j \in Nat /\ Len(events) \in Nat /\ DOMAIN events = 1..Len(events)
      BY DEF Trace, ChangeTyped
    <3>3. k \in DOMAIN events
      BY <2>1, <3>0, <3>2
    <3>4. k > d /\ k - d \in DOMAIN events' /\ events'[k - d] = Run("Aborted")
      BY <1>2, <1>5, <3>2, <3>3
    <3>5. k \in Nat /\ d \in Nat /\ k - d \in 1..(j - 1)
      BY <2>1, <3>0, <3>2, <3>3, <3>4
    <3> QED BY <3>4, <3>5
  <2>2. CASE Lawful /\ state' = "Final" /\ j = Len(events')
    <3>1. PICK i \in DOMAIN events' : events'[i] = Run("Aborted")
      BY <1>1, <1>3, <1>5, <2>2 DEF Lawful, Due
    <3>2. i \in 1..(j - 1)
      BY <1>1, <1>5, <2>2, <3>1 DEF Trace
    <3> QED BY <3>1, <3>2
  <2> QED BY <1>1, <1>5, <2>1, <2>2, TracedRun
<1> QED BY <1>4, <1>5 DEF ForgottenInv

\* run() of the final state comes last, whatever else is dropped.
LEMMA LastOrdered ==
    ASSUME ChangeTyped, LastRun, NEW d \in {0, 1}, Trace(d)
    PROVE  /\ state' # "Final" => ~Due(events', "Final")
           /\ \A i, j \in DOMAIN events' :
                  events'[i] = Run("Final") /\ i < j => events'[j].type # "run"
<1>1. "Final" \notin WaitsForUser
  BY DEF WaitsForUser
<1>3. state = "Final" => ~Lawful /\ state' = "Final"
  BY DEF Lawful, Trace
<1>5. ASSUME NEW i \in DOMAIN events', events'[i] = Run("Final")
      PROVE  \/ i + d \in DOMAIN events /\ events[i + d] = Run("Final") /\ state = "Final"
             \/ state' = "Final" /\ i = Len(events') /\ state # "Final"
  BY <1>1, <1>3, <1>5, TracedRun DEF LastRun, Due
<1>6. state' # "Final" => ~Due(events', "Final")
  BY <1>3, <1>5 DEF Due
<1>7. ASSUME NEW i \in DOMAIN events', NEW j \in DOMAIN events',
             events'[i] = Run("Final"), i < j
      PROVE  events'[j].type # "run"
  <2>1. /\ i \in Nat /\ j \in Nat /\ Len(events') \in Nat
        /\ i <= Len(events') /\ j <= Len(events') /\ d \in Nat
    BY DEF Trace
  <2>2. i + d \in DOMAIN events /\ events[i + d] = Run("Final") /\ state = "Final"
    BY <1>5, <1>7, <2>1
  <2>3. CASE j + d \in DOMAIN events /\ Carries(events[j + d], events'[j])
    BY <1>7, <2>1, <2>2, <2>3 DEF LastRun, Carries
  <2>4. CASE Joins(events'[j])
    BY <2>2, <2>4 DEF Joins, NewsTypes, WaitsForUser
  <2> QED BY <1>3, <2>2, <2>3, <2>4 DEF Trace
<1> QED BY <1>6, <1>7

LEMMA LastKeeps ==
    ASSUME ChangeTyped, LastRun, NEW d \in {0, 1}, Trace(d), Drops(d) PROVE LastRun'
<1>1. "CleanUpReaderManager" \notin WaitsForUser /\ "Final" \notin WaitsForUser
  BY DEF WaitsForUser
<1>2. \A s \in {"CleanUpReaderManager", "Final"} : Due(events, s) => Due(events', s)
  <2> SUFFICES ASSUME NEW s \in {"CleanUpReaderManager", "Final"}, NEW k \in DOMAIN events,
                      events[k] = Run(s)
               PROVE  Due(events', s)
    BY DEF Due
  <2>1. k > d
    BY Dropped DEF Drops
  <2> QED BY <2>1, TracedOn DEF Due
<1>3. state' = "CleanUpReaderManager" => Due(events', "CleanUpReaderManager")
  BY <1>1, <1>2 DEF LastRun, Trace
<1>4. state' = "Final" /\ Due(events', "CleanUpReaderManager") => Due(events', "Final")
  BY <1>1, <1>2, TracedRun DEF Due, Lawful, LastRun, Trace
<1> QED BY <1>3, <1>4, LastOrdered DEF LastRun

LEMMA ClosedKeeps ==
    ASSUME ChangeTyped, LastRun, ClosedInv, NEW d \in {0, 1}, Trace(d), Drops(d),
           JobsFollow(jobs, jobs'), Finished => armed' = armed /\ Len(jobs') = Len(jobs),
           \A r \in Readers : session'[r] \in Cards => session'[r] = session[r],
           d = 1 /\ Finished =>
               \A r \in Readers : Opens(Head(events), r) => session'[r] \notin Cards
    PROVE  ClosedInv'
<1>1. "CleanUpReaderManager" \notin WaitsForUser /\ "Final" \notin WaitsForUser
  BY DEF WaitsForUser
<1>2. \A s \in {"CleanUpReaderManager", "Final"} : Due(events, s) => Due(events', s)
  <2> SUFFICES ASSUME NEW s \in {"CleanUpReaderManager", "Final"}, NEW k \in DOMAIN events,
                      events[k] = Run(s)
               PROVE  Due(events', s)
    BY DEF Due
  <2>1. k > d
    BY Dropped DEF Drops
  <2> QED BY <2>1, TracedOn DEF Due
<1>3. /\ d \in Nat /\ DOMAIN events \subseteq Nat /\ DOMAIN events' \subseteq Nat
  BY DEF Trace, ChangeTyped
<1>j. /\ \A i \in DOMAIN jobs : i \in DOMAIN jobs' /\ jobs'[i].op = jobs[i].op
      /\ Len(jobs') = Len(jobs) =>
             \A i \in DOMAIN jobs' : i \in DOMAIN jobs /\ (jobs'[i].wanted => jobs[i].wanted)
  BY DEF ChangeTyped, JobsFollow
<1>4. ASSUME Cleaned', NEW r \in Readers, session'[r] \in Cards PROVE ClosedLater(r)'
  <2>1. state = "Final" /\ ~Lawful
    BY <1>1, <1>2, <1>4 DEF Cleaned, Trace, Lawful, LastRun
  <2>2. ClosedLater(r)
    BY <1>2, <1>4, <2>1 DEF Cleaned, ClosedInv
  <2>3. ASSUME NEW i \in DOMAIN jobs, jobs[i].op = "stopScan" PROVE ClosedLater(r)'
    BY <1>j, <2>3 DEF ClosedLater
  <2>4. ASSUME NEW j \in DOMAIN events, Opens(events[j], r),
               \A i \in DOMAIN events : events[i] = Run("Final") => i < j
        PROVE  ClosedLater(r)'
    <3>1. j > d
      <4> SUFFICES ASSUME ~(j > d) PROVE FALSE
        OBVIOUS
      <4>1. d = 1 /\ j = 1 /\ events[j] = Head(events)
        BY Dropped
      <4>2. ~Due(events, "Final")
        <5> SUFFICES ASSUME NEW i \in DOMAIN events, events[i] = Run("Final") PROVE FALSE
          BY DEF Due
        <5>1. i < j /\ i \in Nat /\ i # 0
          BY <2>4 DEF ChangeTyped
        <5> QED BY <4>1, <5>1
      <4> QED BY <1>4, <2>1, <2>4, <4>1, <4>2 DEF Finished
    <3>2. j - d \in DOMAIN events' /\ Opens(events'[j - d], r)
      BY <2>4, <3>1 DEF Trace, Carries, Opens, Replies, Ops
    <3>3. \A i \in DOMAIN events' : events'[i] = Run("Final") => i < j - d
      <4> SUFFICES ASSUME NEW i \in DOMAIN events', events'[i] = Run("Final") PROVE i < j - d
        OBVIOUS
      <4>1. i + d \in DOMAIN events /\ events[i + d] = Run("Final")
        BY <1>1, <2>1, TracedRun
      <4>2. i + d < j /\ i \in Nat /\ j \in Nat /\ d \in Nat
        BY <1>3, <2>4, <4>1
      <4> QED BY <4>2
    <3> QED BY <3>2, <3>3 DEF ClosedLater
  <2> QED BY <2>2, <2>3, <2>4 DEF ClosedLater
<1>5. ASSUME Finished' PROVE Unwaited'
  <2>1. state = "Final" /\ ~Lawful /\ Finished
    BY <1>1, <1>2, <1>5 DEF Finished, Trace, Lawful
  <2>2. Unwaited /\ armed' = {} /\ Len(jobs') = Len(jobs)
    BY <2>1 DEF ClosedInv, Unwaited
  <2>3. \A i \in DOMAIN jobs' : ~jobs'[i].wanted
    BY <1>j, <2>2 DEF Unwaited
  <2>4. ASSUME NEW i \in DOMAIN events'
        PROVE  events'[i].type # "run" /\ (events'[i].type \in Replies => ~events'[i].wanted)
    <3>1. CASE i + d \in DOMAIN events /\ Carries(events[i + d], events'[i])
      BY <2>2, <3>1 DEF Unwaited, Carries
    <3>2. CASE Joins(events'[i])
      BY <2>1, <3>2 DEF Joins, NewsTypes, WaitsForUser, Replies, Ops
    <3> QED BY <2>1, <3>1, <3>2 DEF Trace
  <2> QED BY <2>2, <2>3, <2>4 DEF Unwaited
<1> QED BY <1>4, <1>5 DEF ClosedInv
-----------------------------------------------------------------------------
(* Steps that leave a trace *)

Rest(q, d) ==
    /\ q \in Seq(ChangeEvents) /\ Len(q) = Len(events) - d
    /\ \A i \in 1..Len(q) : i + d \in DOMAIN events /\ q[i] = events[i + d]

LEMMA RestOfQueue ==
    ASSUME ChangeTyped
    PROVE  Rest(events, 0) /\ (events # <<>> => Rest(Later, 1) /\ Head(events) \in ChangeEvents)
<1>1. Rest(events, 0)
  BY DEF Rest, ChangeTyped
<1>2. ASSUME events # <<>> PROVE Rest(Later, 1) /\ Head(events) \in ChangeEvents
  BY <1>2 DEF Later, ChangeTyped, Rest
<1> QED BY <1>1, <1>2

\* The queue that follows "q" has carried over what "q" had.
LEMMA FollowsTraced ==
    ASSUME ChangeTyped, NEW d \in {0, 1}, NEW q, Rest(q, d), NEW left, Follows(q, left)
    PROVE  /\ \A k \in DOMAIN events : k > d =>
                  k - d \in DOMAIN left /\ Carries(events[k], left[k - d])
           /\ \A i \in DOMAIN left :
                  \/ i + d \in DOMAIN events /\ Carries(events[i + d], left[i])
                  \/ Joins(left[i])
<1>1. /\ Len(q) = Len(events) - d /\ Len(events) \in Nat /\ Len(left) \in Nat
      /\ Len(q) <= Len(left) /\ DOMAIN events = 1..Len(events) /\ DOMAIN left = 1..Len(left)
  BY DEF Rest, Follows, ChangeTyped
<1>2. ASSUME NEW k \in DOMAIN events, k > d
      PROVE  k - d \in DOMAIN left /\ Carries(events[k], left[k - d])
  BY <1>1, <1>2 DEF Rest, Follows
<1>3. ASSUME NEW i \in DOMAIN left
      PROVE  \/ i + d \in DOMAIN events /\ Carries(events[i + d], left[i])
             \/ Joins(left[i])
  <2>0. i \in Nat /\ i >= 1 /\ Len(q) \in Nat
    BY <1>1
  <2>1. CASE i <= Len(q)
    <3>1. i \in 1..Len(q)
      BY <2>0, <2>1
    <3>2. i + d \in DOMAIN events /\ q[i] = events[i + d]
      BY <3>1 DEF Rest
    <3>3. Carries(q[i], left[i])
      BY <3>1 DEF Follows
    <3> QED BY <3>2, <3>3
  <2>2. CASE ~(i <= Len(q))
    <3> i \in (Len(q) + 1)..Len(left)
      BY <1>1, <2>0, <2>2
    <3> QED BY DEF Follows
  <2> QED BY <2>1, <2>2
<1> QED BY <1>2, <1>3

LEMMA StayTraced ==
    ASSUME ChangeTyped, NEW d \in {0, 1}, NEW q, Rest(q, d), state' = state, Follows(q, events')
    PROVE  Trace(d) /\ state' \in ChangeStates
<1>1. events' \in Seq(ChangeEvents)
  BY DEF Follows
<1> QED BY <1>1, FollowsTraced DEF Trace, ChangeTyped

LEMMA EnterTraced ==
    ASSUME ChangeTyped, NEW d \in {0, 1}, NEW q, Rest(q, d), NEW left, Follows(q, left),
           NEW js, JobsFollow(jobs, js), NEW next \in ChangeStates, Enter(left, js, next),
           Lawful
    PROVE  Trace(d) /\ state' \in ChangeStates /\ JobsFollow(jobs, jobs')
<1> DEFINE more == Undelivered(left, state)
<1>0. q \in Seq(ChangeEvents) /\ jobs \in Seq(ChangeJobs)
  BY DEF Rest, ChangeTyped
<1>1. Follows(q, more)
  BY <1>0, UndeliveredFollows
<1>2. JobsFollow(jobs, jobs') /\ state' = next
  BY <1>0, JobsForgotten DEF Enter
<1>3. more \in Seq(ChangeEvents)
  BY <1>1 DEF Follows
<1>4. /\ \A k \in DOMAIN events : k > d => k - d \in DOMAIN more /\ Carries(events[k], more[k - d])
      /\ \A i \in DOMAIN more : \/ i + d \in DOMAIN events /\ Carries(events[i + d], more[i])
                                \/ Joins(more[i])
  BY <1>1, FollowsTraced
<1>5. CASE events' = more /\ next \in WaitsForUser
  BY <1>2, <1>3, <1>4, <1>5 DEF Trace
<1>6. CASE events' = Append(more, Run(next))
  <2>1. /\ events' \in Seq(ChangeEvents) /\ Len(events') = Len(more) + 1 /\ Len(more) \in Nat
        /\ \A i \in DOMAIN more : i \in DOMAIN events' /\ events'[i] = more[i]
        /\ \A i \in DOMAIN events' : i \in DOMAIN more \/ i = Len(events')
        /\ events'[Len(events')] = Run(next) /\ Len(events') \in DOMAIN events'
    <3> HIDE DEF more
    <3> QED BY <1>3, <1>6, ChangeRun
  <2>2. Due(events', state')
    BY <1>2, <2>1 DEF Due
  <2>3. \A k \in DOMAIN events : k > d =>
            k - d \in DOMAIN events' /\ Carries(events[k], events'[k - d])
    BY <1>4, <2>1
  <2>4. \A i \in DOMAIN events' :
            \/ i + d \in DOMAIN events /\ Carries(events[i + d], events'[i])
            \/ Joins(events'[i])
            \/ Lawful /\ i = Len(events') /\ events'[i] = Run(state')
    BY <1>2, <1>4, <2>1
  <2> QED BY <1>2, <2>1, <2>2, <2>3, <2>4 DEF Trace
<1> QED BY <1>2, <1>5, <1>6 DEF Enter

\* A signal of a state, or of the composite state.
LEMMA FireTraced ==
    ASSUME ChangeTyped, NEW d \in {0, 1}, NEW q, Rest(q, d), NEW left, Follows(q, left),
           NEW js, JobsFollow(jobs, js), NEW s, NEW next \in ChangeStates,
           FireWith(left, js, s, next), state = s /\ state' = next => Lawful
    PROVE  Trace(d) /\ state' \in ChangeStates /\ JobsFollow(jobs, jobs')
<1>1. CASE state = s
  BY <1>1, EnterTraced DEF FireWith, Enter
<1>2. CASE state # s
  BY <1>2, StayTraced DEF FireWith
<1> QED BY <1>1, <1>2

LEMMA JobsFollowItself == \A js \in Seq(ChangeJobs) : JobsFollow(js, js)
BY DEF JobsFollow

\* Most states are followed by one that is not among those a success needs a
\* changed PIN for.
Within == ChangeStates \ Concluding
LEMMA FiresWithin ==
    ASSUME ChangeTyped, events # <<>>, NEW left, Follows(Later, left),
           NEW js, JobsFollow(jobs, js), NEW s \in Within, NEW next \in Within,
           FireWith(left, js, s, next), next # s, next = "ClearPacePasswordsOnError" => error'
    PROVE  Trace(1) /\ state' \in ChangeStates /\ JobsFollow(jobs, jobs')
<1>1. Rest(Later, 1)
  BY RestOfQueue
<1>2. state = s /\ state' = next => Lawful
  BY DEF Lawful, Within, Concluding, Cleared
<1> QED BY <1>1, <1>2, FireTraced DEF Within

LEMMA MovesWithin ==
    ASSUME ChangeTyped, events # <<>>, NEW s \in Within, NEW next \in Within,
           Fire(Later, s, next), next # s, next = "ClearPacePasswordsOnError" => error'
    PROVE  Trace(1) /\ state' \in ChangeStates /\ JobsFollow(jobs, jobs')
<1>1. Follows(Later, Later) /\ JobsFollow(jobs, jobs)
  BY RestOfQueue, FollowsItself, JobsFollowItself DEF Rest, ChangeTyped
<1> QED BY <1>1, FiresWithin DEF Fire

LEMMA RestsWith ==
    ASSUME ChangeTyped, events # <<>>, NEW left, Follows(Later, left), state' = state,
           events' = left, JobsFollow(jobs, jobs')
    PROVE  Trace(1) /\ state' \in ChangeStates /\ JobsFollow(jobs, jobs')
BY RestOfQueue, StayTraced

LEMMA GoesOn ==
    ASSUME ChangeTyped, events # <<>>, state' = state, events' = Later, JobsFollow(jobs, jobs')
    PROVE  Trace(1) /\ state' \in ChangeStates /\ JobsFollow(jobs, jobs')
<1>1. Follows(Later, Later)
  BY RestOfQueue, FollowsItself DEF Rest
<1> QED BY <1>1, RestsWith

LEMMA InvokesOne ==
    ASSUME ChangeTyped, events # <<>>, NEW job \in ChangeJobs, Invoke(Later, job)
    PROVE  Trace(1) /\ state' \in ChangeStates /\ JobsFollow(jobs, jobs')
<1>1. jobs' = jobs \o <<job>> /\ <<job>> \in Seq(ChangeJobs) /\ jobs \in Seq(ChangeJobs)
  BY DEF Invoke, ChangeTyped
<1>2. JobsFollow(jobs, jobs')
  BY <1>1, JobsMore
<1> QED BY <1>2, GoesOn DEF Invoke
-----------------------------------------------------------------------------
(* run() of the states of CompositeStatePace *)

MainStep(d) ==
    /\ Trace(d) /\ Drops(d) /\ state' \in ChangeStates /\ JobsFollow(jobs, jobs')
    /\ Finished => armed' = armed /\ Len(jobs') = Len(jobs)
    /\ error => error'
    /\ renewed' = renewed
    /\ pw' \in {pw, NoPasswords} \/ state \notin Cleared
    /\ d = 1 /\ Head(events) = Run("Aborted") => pw' = NoPasswords
    /\ \A r \in Readers : session'[r] \in Cards => session'[r] = session[r]
    /\ d = 1 /\ Finished =>
           \A r \in Readers : Opens(Head(events), r) => session'[r] \notin Cards

\* What is left of the queues is still there afterwards.
Onward(d) == ChangeInv' /\ Trace(d) /\ JobsFollow(jobs, jobs')

LEMMA MainKeeps ==
    ASSUME ChangeInv, DataTyped', NEW d \in {0, 1}, MainStep(d) PROVE Onward(d)
<1>1. ChangeTyped'
  BY DEF MainStep, Trace, JobsFollow, ChangeTyped
<1>2. ChangedInv'
  BY ChangedKeeps DEF ChangeInv, MainStep
<1>3. ForgottenInv'
  BY ForgottenKeeps DEF ChangeInv, MainStep
<1>4. LastRun'
  BY LastKeeps DEF ChangeInv, MainStep
<1>5. ClosedInv'
  BY ClosedKeeps DEF ChangeInv, MainStep
<1> QED BY <1>1, <1>2, <1>3, <1>4, <1>5 DEF ChangeInv, MainStep, Onward

LEMMA SessionsClose ==
    ASSUME DataTyped, NEW rs, session' = Disconnected(rs), NEW r \in Readers,
           session'[r] \in Cards
    PROVE  r \notin rs /\ session'[r] = session[r]
BY PaceAssumption DEF Disconnected

LEMMA RunTraced ==
    ASSUME ChangeTyped, DataTyped, ChangedInv, RunStep
    PROVE  Trace(1) /\ state' \in ChangeStates /\ JobsFollow(jobs, jobs')
<1>0. /\ events # <<>> /\ (conn # NoConn => conn.reader \in Readers)
      /\ jobs \in Seq(ChangeJobs) /\ JobsFollow(jobs, jobs)
      /\ Later \in Seq(ChangeEvents) /\ Rest(Later, 1)
  <2>1. events # <<>>
    BY DEF RunStep, MaintainAborts, MaintainAfterWrongPassword, MaintainAfterCardVanished,
       MaintainContinues, ClearPacePasswordsOnError, ClearPacePasswordsBeforeDestroy,
       ClearPasswords, SelectReader, ConnectCard, UpdateRetryCounter, RunUpdate,
       VerifyRetryCounter, PreparePace, EnterPacePassword, EstablishAborts,
       EstablishPaceChannel, UnfortunateCardPosition, DestroyPace, RunDestroy, Running
  <2> QED BY <2>1, RestOfQueue, JobsFollowItself DEF ChangeTyped, DataTyped, Connections, Rest
<1> USE DEF Within, ChangeStates, Inner, Left, Outer, Concluding
<1>1. CASE MaintainAborts
  BY <1>0, <1>1, MovesWithin DEF MaintainAborts
<1>2. CASE MaintainAfterWrongPassword
  BY <1>0, <1>2, MovesWithin DEF MaintainAfterWrongPassword
<1>3. CASE MaintainAfterCardVanished
  BY <1>0, <1>3, AfterResetFollows, FiresWithin DEF MaintainAfterCardVanished, Fire
<1>4. CASE MaintainContinues
  BY <1>0, <1>4, MovesWithin DEF MaintainContinues
<1>5. CASE ClearPacePasswordsOnError
  <2>1. error /\ error' = error
    BY <1>5 DEF ClearPacePasswordsOnError, ClearPasswords, Running, ChangedInv, Due, ChangeTyped
  <2>2. CASE state \in Inner /\ Enter(Later, jobs, "Aborted")
    BY <1>0, <2>1, <2>2, EnterTraced, FollowsItself DEF Lawful, Enter, Cleared
  <2>3. CASE UNCHANGED <<state, jobs>> /\ events' = Later
    BY <1>0, <2>3, GoesOn
  <2> QED BY <1>5, <2>2, <2>3 DEF ClearPacePasswordsOnError, Leave
<1>6. CASE ClearPacePasswordsBeforeDestroy
  BY <1>0, <1>6, MovesWithin DEF ClearPacePasswordsBeforeDestroy
<1>7. CASE SelectReader
  <2>1. CASE state = "SelectReader" /\ Enter(Later, jobs, "ConnectCard")
    BY <1>0, <2>1, EnterTraced, FollowsItself DEF Lawful, Enter, Cleared
  <2>2. CASE UNCHANGED <<state, jobs>> /\ events' = Later
    BY <1>0, <2>2, GoesOn
  <2> QED BY <1>7, <2>1, <2>2 DEF SelectReader
<1>8. CASE ConnectCard
  BY <1>0, <1>8, GoesOn, ConnectJobsFollow DEF ConnectCard
<1>9. CASE UpdateRetryCounter
  <2>1. CASE conn = NoConn
    BY <1>0, <1>9, <2>1, MovesWithin DEF UpdateRetryCounter, RunUpdate
  <2>2. CASE conn # NoConn
    <3>1. Job("update", conn.reader, "PIN", NoCard) \in ChangeJobs
      BY <1>0, <2>2, ChangeJobTyped DEF Replies, Ops, PaceTypes, Types, Secrets
    <3> QED BY <1>0, <1>9, <2>2, <3>1, InvokesOne DEF UpdateRetryCounter, RunUpdate
  <2> QED BY <2>1, <2>2
<1>10. CASE VerifyRetryCounter
  BY <1>0, <1>10, MovesWithin DEF VerifyRetryCounter
<1>11. CASE PreparePace
  BY <1>0, <1>11, MovesWithin DEF AfterPreparePace, PreparePace
<1>12. CASE EnterPacePassword
  BY <1>0, <1>12, MovesWithin DEF EnterPacePassword
<1>13. CASE EstablishAborts
  BY <1>0, <1>13, MovesWithin DEF EstablishAborts
<1>14. CASE EstablishPaceChannel
  <2>1. CASE conn = NoConn \/ LacksPassword
    BY <1>0, <1>14, <2>1, MovesWithin DEF EstablishPaceChannel
  <2>2. CASE ~(conn = NoConn \/ LacksPassword)
    <3>1. Password(pwType) \in Secrets /\ pwType \in PaceTypes
      BY DEF Password, DataTyped, Secrets
    <3>2. Job("pace", conn.reader, pwType, Password(pwType)) \in ChangeJobs
      BY <1>0, <2>2, <3>1, ChangeJobTyped DEF Replies, Ops
    <3> QED BY <1>0, <1>14, <2>2, <3>2, InvokesOne DEF EstablishPaceChannel
  <2> QED BY <2>1, <2>2
<1>15. CASE UnfortunateCardPosition
  BY <1>0, <1>15, MovesWithin DEF UnfortunateCardPosition
<1>16. CASE DestroyPace
  <2>1. Job("destroy", conn.reader, "PIN", NoCard) \in ChangeJobs
    BY <1>0, <1>16, ChangeJobTyped DEF DestroyPace, RunDestroy, Replies, Ops, PaceTypes, Types,
       Secrets
  <2> QED BY <1>0, <1>16, <2>1, InvokesOne DEF DestroyPace, RunDestroy
<1> QED
  BY <1>1, <1>2, <1>3, <1>4, <1>5, <1>6, <1>7, <1>8, <1>9, <1>10, <1>11, <1>12, <1>13,
     <1>14, <1>15, <1>16 DEF RunStep

LEMMA RunKeepsAside ==
    ASSUME RunStep
    PROVE  /\ events # <<>> /\ \E s \in Inner : Head(events) = Run(s)
           /\ error => error'
           /\ renewed' = renewed /\ pw' \in {pw, NoPasswords}
           /\ session' = session \/ \E rs : session' = Disconnected(rs)
<1> USE DEF rest, readerSide, kept, context, Running, Inner
<1>1. CASE MaintainAborts \/ MaintainAfterWrongPassword \/ MaintainContinues
  BY <1>1 DEF MaintainAborts, MaintainAfterWrongPassword, MaintainContinues
<1>2. CASE MaintainAfterCardVanished
  BY <1>2 DEF MaintainAfterCardVanished, ResetCardConnection
<1>3. CASE ClearPacePasswordsOnError \/ ClearPacePasswordsBeforeDestroy
  BY <1>3 DEF ClearPacePasswordsOnError, ClearPacePasswordsBeforeDestroy, ClearPasswords
<1>4. CASE SelectReader \/ ConnectCard \/ UpdateRetryCounter \/ VerifyRetryCounter
  BY <1>4 DEF SelectReader, ConnectCard, UpdateRetryCounter, RunUpdate, VerifyRetryCounter
<1>5. CASE PreparePace \/ EnterPacePassword \/ EstablishAborts
  BY <1>5 DEF PreparePace, EnterPacePassword, EstablishAborts
<1>6. CASE EstablishPaceChannel \/ UnfortunateCardPosition \/ DestroyPace
  BY <1>6 DEF EstablishPaceChannel, UnfortunateCardPosition, DestroyPace, RunDestroy
<1> QED BY <1>1, <1>2, <1>3, <1>4, <1>5, <1>6 DEF RunStep

LEMMA RunMain == ASSUME ChangeInv, RunStep PROVE MainStep(1)
<1>1. Trace(1) /\ state' \in ChangeStates /\ JobsFollow(jobs, jobs')
  BY RunTraced DEF ChangeInv
<1>2. PICK s \in Inner : Head(events) = Run(s)
  BY RunKeepsAside
<1>3. /\ Run(s) # Run("CleanUpReaderManager") /\ Run(s) # Run("Final")
      /\ Run(s) # Run("Aborted") /\ Run(s).type = "run"
  BY DEF Run, Inner
<1>4. ~Finished
  BY <1>2, <1>3, RunKeepsAside DEF ChangeInv, ChangeTyped, ClosedInv, Unwaited
<1>5. \A r \in Readers : session'[r] \in Cards => session'[r] = session[r]
  BY RunKeepsAside, SessionsClose DEF ChangeInv
<1> QED BY <1>1, <1>2, <1>3, <1>4, <1>5, RunKeepsAside DEF MainStep, Drops
-----------------------------------------------------------------------------
(* Results of its commands, and news *)

LEMMA ResultTraced ==
    ASSUME ChangeTyped, DataTyped, ResultStep
    PROVE  Trace(1) /\ state' \in ChangeStates /\ JobsFollow(jobs, jobs')
<1>0. /\ events # <<>>
      /\ jobs \in Seq(ChangeJobs) /\ JobsFollow(jobs, jobs)
      /\ Later \in Seq(ChangeEvents) /\ Rest(Later, 1) /\ Follows(Later, Later)
      /\ Follows(Later, AfterReset(Later)) /\ Follows(Later, Unsubscribed(Later))
  <2>1. events # <<>>
    BY DEF ResultStep, ConnectSucceeds, ConnectFails, ConnectForgotten, UpdateDone, Updated,
       DestroyDone, Destroyed, PaceForgotten, PaceSucceeds, PaceRefused, PaceInvalidPin,
       PaceFails, PaceVanished, NewsArrives, Arrives
  <2>2. Later \in Seq(ChangeEvents) /\ Rest(Later, 1)
    BY <2>1, RestOfQueue DEF Rest
  <2> QED
    BY <2>1, <2>2, JobsFollowItself, FollowsItself, AfterResetFollows, UnsubscribedFollows
       DEF ChangeTyped
<1> USE DEF Within, ChangeStates, Inner, Left, Outer, Concluding
<1>1. CASE ConnectSucceeds
  <2>1. CASE UNCHANGED <<state, armed, jobs>> /\ events' = Unsubscribed(Later)
    BY <1>0, <2>1, RestsWith
  <2>2. ASSUME NEW next \in {"MaintainCardConnection", "UpdateRetryCounter"},
               Fire(Unsubscribed(Later), "ConnectCard", next)
        PROVE  Trace(1) /\ state' \in ChangeStates /\ JobsFollow(jobs, jobs')
    BY <1>0, <2>2, FiresWithin DEF Fire
  <2> QED BY <1>1, <2>1, <2>2 DEF ConnectSucceeds
<1>2. CASE ConnectFails
  BY <1>0, <1>2, MovesWithin DEF ConnectFails
<1>3. CASE ConnectForgotten \/ PaceForgotten
  BY <1>0, <1>3, GoesOn DEF ConnectForgotten, PaceForgotten, machine
<1>4. CASE UpdateDone
  <2>1. CASE Fire(Later, "UpdateRetryCounter", "VerifyRetryCounter")
    BY <1>0, <2>1, MovesWithin
  <2>2. CASE UNCHANGED machine /\ events' = Later
    BY <1>0, <2>2, GoesOn DEF machine
  <2>3. CASE Fire(AfterReset(Later), "UpdateRetryCounter", "MaintainCardConnection")
    BY <1>0, <2>3, FiresWithin DEF Fire
  <2> QED BY <1>4, <2>1, <2>2, <2>3 DEF UpdateDone, Updated
<1>5. CASE DestroyDone
  BY <1>0, <1>5, MovesWithin, GoesOn DEF machine, DestroyDone, Destroyed
<1>6. CASE PaceSucceeds
  <2>1. CASE state \in Inner /\ Enter(Later, jobs, "Established")
    BY <1>0, <2>1, EnterTraced DEF Lawful, Enter, Cleared
  <2>2. CASE UNCHANGED <<state, armed, jobs>> /\ events' = Later
    BY <1>0, <2>2, GoesOn
  <2>3. ASSUME NEW next \in {"ClearPacePasswordsBeforeDestroy", "MaintainCardConnection"},
               Fire(Later, "EstablishPaceChannel", next)
        PROVE  Trace(1) /\ state' \in ChangeStates /\ JobsFollow(jobs, jobs')
    BY <1>0, <2>3, MovesWithin
  <2> QED BY <1>6, <2>1, <2>2, <2>3 DEF PaceSucceeds, Leave
<1>7. CASE PaceRefused
  BY <1>0, <1>7, MovesWithin DEF PaceRefused
<1>8. CASE PaceInvalidPin
  BY <1>0, <1>8, MovesWithin DEF PaceInvalidPin
<1>9. CASE PaceFails
  BY <1>0, <1>9, MovesWithin DEF PaceFails
<1>10. CASE PaceVanished
  <2>1. PICK next \in {"UnfortunateCardPosition", "MaintainCardConnection"} :
            Fire(AfterReset(Later), "EstablishPaceChannel", next)
    BY <1>10 DEF PaceVanished
  <2> QED BY <1>0, <2>1, FiresWithin DEF Fire
<1>11. CASE NewsArrives
  <2>1. PICK js : /\ JobsFollow(jobs, js)
                  /\ \/ state = "SelectReader" /\ Enter(Later, js, "ConnectCard")
                     \/ jobs' = js /\ events' = Later /\ UNCHANGED state
    <3>1. PICK name : LET js == jobs \o (IF "ConnectCard" \in armed /\ Arrived.type = "inserted"
                                         THEN ConnectJobs(name, cache') ELSE <<>>)
                      IN  \/ state = "SelectReader" /\ Enter(Later, js, "ConnectCard")
                          \/ jobs' = js /\ events' = Later /\ UNCHANGED state
      BY <1>11 DEF NewsArrives
    <3>2. <<>> \in Seq(ChangeJobs)
      OBVIOUS
    <3> QED BY <1>0, <3>1, <3>2, ConnectJobsFollow, JobsMore
  <2>2. CASE state = "SelectReader" /\ Enter(Later, js, "ConnectCard")
    BY <1>0, <2>1, <2>2, EnterTraced DEF Lawful, Enter, Cleared
  <2>3. CASE jobs' = js /\ events' = Later /\ UNCHANGED state
    BY <1>0, <2>1, <2>3, GoesOn
  <2> QED BY <2>1, <2>2, <2>3
<1> QED
  BY <1>1, <1>2, <1>3, <1>4, <1>5, <1>6, <1>7, <1>8, <1>9, <1>10, <1>11 DEF ResultStep

LEMMA ResultKeepsAside ==
    ASSUME ResultStep
    PROVE  /\ events # <<>> /\ Head(events).type \in NewsTypes \cup Ops
           /\ error => error'
           /\ renewed' = renewed /\ pw' \in {pw, NoPasswords}
           /\ session' = session \/ \E rs : session' = Disconnected(rs)
           /\ Head(events).type = "connect" =>
                  \/ IsAwaited
                  \/ Head(events).code = "OK" => session' = Disconnected({Head(events).reader})
<1> USE DEF rest, readerSide, kept, context, link, Arrives, Arrived, Ops, NewsTypes,
        ResetCardConnection
<1>1. CASE ConnectSucceeds
  BY <1>1 DEF ConnectSucceeds
<1>7. CASE ConnectFails
  BY <1>7 DEF ConnectFails
<1>2. CASE ConnectForgotten
  BY <1>2 DEF ConnectForgotten
<1>3. CASE UpdateDone \/ DestroyDone
  BY <1>3 DEF UpdateDone, Updated, DestroyDone, Destroyed
<1>4. CASE PaceForgotten \/ PaceSucceeds \/ PaceRefused
  BY <1>4 DEF PaceForgotten, PaceSucceeds, PaceRefused
<1>5. CASE PaceInvalidPin \/ PaceFails \/ PaceVanished
  BY <1>5 DEF PaceInvalidPin, PaceFails, PaceVanished
<1>6. CASE NewsArrives
  BY <1>6 DEF NewsArrives
<1> QED BY <1>1, <1>2, <1>3, <1>4, <1>5, <1>6, <1>7 DEF ResultStep

\* When the workflow is over, a result or news changes nothing.
LEMMA ResultAtEnd ==
    ASSUME ChangeTyped, ResultStep, state = "Final", Unwaited
    PROVE  armed' = armed /\ Len(jobs') = Len(jobs) /\ ~IsAwaited
<1>0. /\ events # <<>> /\ Head(events) = events[1] /\ 1 \in DOMAIN events
      /\ jobs \in Seq(ChangeJobs)
  BY ResultKeepsAside DEF ChangeTyped
<1>1. ~IsAwaited /\ armed = {} /\ (Arrived.type \in Ops => ~Arrived.wanted)
  BY <1>0 DEF IsAwaited, Unwaited, Replies, Ops, Arrived
<1>2. CASE UNCHANGED machine
  BY <1>1, <1>2 DEF machine
<1>3. CASE NewsArrives
  BY <1>0, <1>1, <1>3 DEF NewsArrives
<1>4. ~PaceSucceeds /\ ~PaceRefused /\ ~PaceInvalidPin /\ ~PaceFails /\ ~PaceVanished
  BY <1>1 DEF PaceSucceeds, PaceRefused, PaceInvalidPin, PaceFails, PaceVanished, Arrives,
     Arrived, Ops
<1>5. CASE UpdateDone \/ DestroyDone
  BY <1>1, <1>2, <1>5 DEF UpdateDone, Updated, DestroyDone, Destroyed, Arrives, Arrived, Ops
<1>6. CASE ConnectForgotten \/ PaceForgotten
  BY <1>2, <1>6 DEF ConnectForgotten, PaceForgotten
<1> QED BY <1>1, <1>3, <1>4, <1>5, <1>6 DEF ResultStep, ConnectSucceeds, ConnectFails

LEMMA ResultMain == ASSUME ChangeInv, ResultStep PROVE MainStep(1)
<1>1. Trace(1) /\ state' \in ChangeStates /\ JobsFollow(jobs, jobs')
  BY ResultTraced DEF ChangeInv
<1>2. Head(events).type # "run"
  BY ResultKeepsAside DEF NewsTypes, Ops
<1>3. \A s : Head(events) # Run(s)
  BY <1>2 DEF Run
<1>4. Finished => armed' = armed /\ Len(jobs') = Len(jobs) /\ ~IsAwaited
  BY ResultAtEnd DEF ChangeInv, ClosedInv, Finished
<1>5. \A r \in Readers : session'[r] \in Cards => session'[r] = session[r]
  BY ResultKeepsAside, SessionsClose DEF ChangeInv
<1>6. ASSUME Finished, NEW r \in Readers, Opens(Head(events), r) PROVE session'[r] \notin Cards
  BY <1>4, <1>6, ResultKeepsAside, SessionsClose DEF Opens, ChangeInv
<1> QED BY <1>1, <1>3, <1>4, <1>5, <1>6, ResultKeepsAside DEF MainStep, Drops
-----------------------------------------------------------------------------
(* The states around CompositeStatePace *)

LEMMA OuterTraced ==
    ASSUME ChangeInv,
           \/ PrepareChangePin \/ EnterNewPacePin \/ SetEidPin \/ SetEidPinDone
           \/ ClearPasswordsFinal \/ OuterCommands
    PROVE  Trace(1) /\ state' \in ChangeStates /\ JobsFollow(jobs, jobs')
<1>0. /\ events # <<>> /\ (conn # NoConn => conn.reader \in Readers)
      /\ jobs \in Seq(ChangeJobs) /\ JobsFollow(jobs, jobs)
      /\ Later \in Seq(ChangeEvents) /\ Rest(Later, 1) /\ Follows(Later, Later)
      /\ Follows(Later, AfterReset(Later)) /\ ChangeTyped
  <2>1. events # <<>>
    BY DEF PrepareChangePin, EnterNewPacePin, SetEidPin, SetEidPinDone, ClearPasswordsFinal,
       ClearPasswords, OuterCommands, RunDestroy, RunUpdate, Destroyed, Updated, Running, Arrives
  <2>2. Later \in Seq(ChangeEvents) /\ Rest(Later, 1) /\ ChangeTyped /\ DataTyped
    BY <2>1, RestOfQueue DEF Rest, ChangeInv
  <2> QED
    BY <2>1, <2>2, JobsFollowItself, FollowsItself, AfterResetFollows
       DEF ChangeTyped, DataTyped, Connections
<1> USE DEF Within, ChangeStates, Inner, Left, Outer, Concluding
<1>1. CASE PrepareChangePin
  BY <1>0, <1>1, MovesWithin DEF PrepareChangePin
<1>2. CASE EnterNewPacePin
  BY <1>0, <1>2, MovesWithin DEF EnterNewPacePin
<1>3. CASE SetEidPin
  <2>1. Job("setPin", conn.reader, "PIN", pw["NEW"]) \in ChangeJobs
    BY <1>0, <1>3, ChangeJobTyped DEF SetEidPin, Replies, PaceTypes, Types, DataTyped, ChangeInv
  <2> QED BY <1>0, <1>3, <2>1, InvokesOne DEF SetEidPin
<1>4. CASE SetEidPinDone
  <2>1. CASE UNCHANGED <<machine, lastPace, error>> /\ events' = Later
    BY <1>0, <2>1, GoesOn DEF machine
  <2>2. CASE Fire(Later, "ChangePin", AfterSetEidPin(Arrived.code)) /\ Arrived.wanted
    <3> DEFINE next == AfterSetEidPin(Arrived.code)
    <3>1. next \in {"DestroyPaceFinal", "Aborted", "MaintainCardConnection"}
      BY DEF AfterSetEidPin
    <3>2. next = "DestroyPaceFinal" => renewed # {}
      <4>1. events[1] = Arrived /\ 1 \in DOMAIN events
        BY <1>0 DEF Arrived, ChangeTyped
      <4>2. next = "DestroyPaceFinal" => Arrived.code = "OK"
        BY DEF AfterSetEidPin
      <4> QED BY <1>4, <4>1, <4>2 DEF SetEidPinDone, Arrives, Arrived, ChangeInv, ChangedInv
    <3>3. next = "Aborted" => error'
      BY <1>4, <2>2 DEF AfterSetEidPin, SetEidPinDone
    <3> HIDE DEF next
    <3>4. state = "ChangePin" /\ state' = next => Lawful
      BY <3>1, <3>2, <3>3 DEF Lawful, Cleared
    <3>5. FireWith(Later, jobs, "ChangePin", next) /\ next \in ChangeStates
      BY <2>2, <3>1 DEF Fire, next
    <3> QED BY <1>0, <3>4, <3>5, FireTraced
  <2> QED BY <1>4, <2>1, <2>2 DEF SetEidPinDone
<1>5. CASE ClearPasswordsFinal
  BY <1>0, <1>5, FireTraced DEF Lawful, Cleared, ClearPasswordsFinal, Fire
<1>6. CASE RunDestroy("DestroyPaceFinal")
  <2>1. Job("destroy", conn.reader, "PIN", NoCard) \in ChangeJobs
    BY <1>0, <1>6, ChangeJobTyped DEF RunDestroy, Replies, Ops, PaceTypes, Types, Secrets
  <2> QED BY <1>0, <1>6, <2>1, InvokesOne DEF RunDestroy
<1>7. state = "UpdateRetryCounterFinal" /\ state' = "CleanUpReaderManager" => Lawful
  BY DEF Lawful, Cleared
<1>8. CASE RunUpdate("UpdateRetryCounterFinal", "CleanUpReaderManager")
  <2>1. CASE conn = NoConn
    BY <1>0, <1>7, <1>8, <2>1, FireTraced DEF RunUpdate, Fire
  <2>2. CASE conn # NoConn
    <3>1. Job("update", conn.reader, "PIN", NoCard) \in ChangeJobs
      BY <1>0, <2>2, ChangeJobTyped DEF Replies, Ops, PaceTypes, Types, Secrets
    <3> QED BY <1>0, <1>8, <2>2, <3>1, InvokesOne DEF RunUpdate
  <2> QED BY <2>1, <2>2
<1>9. CASE Destroyed("DestroyPaceFinal", "Aborted")
  <2>1. state = "DestroyPaceFinal" /\ state' = "Aborted" => Lawful
    BY DEF Lawful, Cleared
  <2>2. CASE UNCHANGED machine /\ events' = Later
    BY <1>0, <2>2, GoesOn DEF machine
  <2> QED BY <1>0, <1>9, <2>1, <2>2, FireTraced DEF Destroyed, Fire
<1>10. CASE Updated("UpdateRetryCounterFinal", "CleanUpReaderManager", "CleanUpReaderManager")
  BY <1>0, <1>7, <1>10, GoesOn, FireTraced DEF machine, Updated, Fire
<1> QED BY <1>1, <1>2, <1>3, <1>4, <1>5, <1>6, <1>8, <1>9, <1>10 DEF OuterCommands

LEMMA OuterMain ==
    ASSUME ChangeInv,
           \/ PrepareChangePin \/ EnterNewPacePin \/ SetEidPin \/ SetEidPinDone
           \/ ClearPasswordsFinal \/ OuterCommands
    PROVE  MainStep(1) /\ DataTyped'
<1> USE DEF rest, readerSide, kept, context, Arrives, Arrived, Running
<1>0. DataTyped
  BY DEF ChangeInv
<1>1. CASE PrepareChangePin \/ EnterNewPacePin \/ SetEidPin
  <2>1. /\ events # <<>>
        /\ Head(events) \in {Run("Established"), Run("EnterNewPacePin"), Run("ChangePin")}
        /\ UNCHANGED <<error, renewed, pw, pwType, conn, info, session, slot, counter>>
    BY <1>1 DEF PrepareChangePin, EnterNewPacePin, SetEidPin
  <2>2. /\ Head(events) \notin {Run("CleanUpReaderManager"), Run("Final"), Run("Aborted")}
        /\ Head(events).type = "run"
    BY <2>1 DEF Run
  <2>3. ~Finished
    BY <2>1, <2>2 DEF ChangeInv, ChangeTyped, ClosedInv, Unwaited
  <2> QED BY <1>0, <1>1, <2>1, <2>2, <2>3, OuterTraced, DataKept DEF MainStep, Drops
<1>2. CASE SetEidPinDone
  <2>1. /\ events # <<>> /\ Head(events).type = "setPin"
        /\ UNCHANGED <<renewed, pw, pwType, conn, info, session, slot, counter>>
        /\ error => error'
    BY <1>2 DEF SetEidPinDone
  <2>2. \A s : Head(events) # Run(s)
    BY <2>1 DEF Run
  <2>3. Finished => UNCHANGED machine
    BY <1>2, <2>1 DEF ChangeInv, ChangeTyped, ClosedInv, Unwaited, SetEidPinDone, Replies
  <2>4. Finished => armed' = armed /\ Len(jobs') = Len(jobs)
    BY <2>3 DEF machine
  <2>5. \A r : ~Opens(Head(events), r)
    BY <2>1 DEF Opens
  <2> QED BY <1>0, <1>2, <2>1, <2>2, <2>4, <2>5, OuterTraced, DataKept DEF MainStep, Drops
<1>3. CASE ClearPasswordsFinal
  <2>1. /\ events # <<>> /\ Head(events) = Run("Aborted") /\ pw' = NoPasswords
        /\ UNCHANGED <<error, renewed, pwType, conn, info, session, slot, counter>>
    BY <1>3 DEF ClearPasswordsFinal, ClearPasswords
  <2>2. /\ Head(events) \notin {Run("CleanUpReaderManager"), Run("Final")}
        /\ Head(events).type = "run"
    BY <2>1 DEF Run
  <2>3. ~Finished
    BY <2>1, <2>2 DEF ChangeInv, ChangeTyped, ClosedInv, Unwaited
  <2>4. DataTyped'
    BY <1>0, <2>1, NoPasswordsTyped DEF DataTyped
  <2> QED BY <1>3, <2>1, <2>2, <2>3, <2>4, OuterTraced DEF MainStep, Drops
<1>4. CASE OuterCommands
  <2>1. /\ events # <<>> /\ UNCHANGED <<error, renewed, pw>>
        /\ \/ /\ Head(events) \in {Run("DestroyPaceFinal"), Run("UpdateRetryCounterFinal")}
              /\ session' = session
           \/ /\ Head(events).type \in {"update", "destroy"} /\ state # "Final"
              /\ session' = session \/ \E rs : session' = Disconnected(rs)
    BY <1>4 DEF OuterCommands, RunDestroy, RunUpdate, AnswersOuterState, Destroyed, Updated,
       ResetCardConnection
  <2>2. /\ Head(events) \notin {Run("CleanUpReaderManager"), Run("Final"), Run("Aborted")}
        /\ Head(events).type = "run" \/ state # "Final"
    BY <2>1 DEF Run
  <2>3. ~Finished
    BY <2>1, <2>2 DEF ChangeInv, ChangeTyped, ClosedInv, Unwaited, Finished
  <2>4. DataTyped'
    BY <1>0, <1>4, DataKept, ResetTyped
       DEF OuterCommands, RunDestroy, RunUpdate, Destroyed, Updated
  <2>5. \A r \in Readers : session'[r] \in Cards => session'[r] = session[r]
    BY <1>0, <2>1, SessionsClose
  <2> QED BY <1>4, <2>1, <2>2, <2>3, <2>4, <2>5, OuterTraced DEF MainStep, Drops
<1> QED BY <1>1, <1>2, <1>3, <1>4

\* The scan is stopped: at once, or by a job.
LEMMA CleanUpKeeps == ASSUME ChangeInv, CleanUpReaderManager PROVE Onward(1)
<1>0. /\ events # <<>> /\ Head(events) = Run("CleanUpReaderManager")
      /\ ChangeTyped /\ DataTyped /\ jobs \in Seq(ChangeJobs)
      /\ UNCHANGED <<error, renewed, pw, pwType, slot, counter>> /\ conn' = NoConn
  BY DEF CleanUpReaderManager, Running, ChangeInv, ChangeTyped, rest, context
<1>1. /\ Later \in Seq(ChangeEvents) /\ Rest(Later, 1) /\ Follows(Later, Later)
      /\ Follows(Later, Unsubscribed(Later))
      /\ 1 \in DOMAIN events /\ events[1] = Head(events)
      /\ Due(events, "CleanUpReaderManager")
  BY <1>0, RestOfQueue, FollowsItself, UnsubscribedFollows DEF Rest, ChangeTyped, Due
<1>2. /\ StopScan \in ChangeJobs /\ StopScan.op = "stopScan"
      /\ Append(jobs, StopScan) \in Seq(ChangeJobs)
      /\ JobsFollow(jobs, Append(jobs, StopScan)) /\ JobsFollow(jobs, jobs)
  <2>1. StopScan \in ChangeJobs /\ StopScan.op = "stopScan"
    BY DEF StopScan, Job, ChangeJobs, PaceTypes, Types, Secrets
  <2>2. /\ Append(jobs, StopScan) = jobs \o <<StopScan>> /\ <<StopScan>> \in Seq(ChangeJobs)
        /\ Append(jobs, StopScan) \in Seq(ChangeJobs)
    BY <1>0, <2>1
  <2>3. JobsFollow(jobs, jobs \o <<StopScan>>) /\ JobsFollow(jobs, jobs)
    BY <1>0, <2>2, JobsMore, JobsFollowItself
  <2> QED BY <2>1, <2>2, <2>3
<1>3. state = "CleanUpReaderManager" /\ state' = "Final" => Lawful
  BY DEF Lawful, Cleared, Concluding
<1>4. /\ Trace(1) /\ state' \in ChangeStates /\ JobsFollow(jobs, jobs')
      /\ state' # "CleanUpReaderManager"
  <2>1. "Final" \in ChangeStates
    BY DEF ChangeStates, Outer
  <2>2. CASE conn = NoConn
    <3>1. FireWith(Later, Append(jobs, StopScan), "CleanUpReaderManager", "Final")
      BY <2>2 DEF CleanUpReaderManager
    <3> QED BY <1>0, <1>1, <1>2, <1>3, <2>1, <3>1, FireTraced DEF FireWith, Enter
  <2>3. CASE conn # NoConn
    <3>1. FireWith(Unsubscribed(Later), jobs, "CleanUpReaderManager", "Final")
      BY <2>3 DEF CleanUpReaderManager, Fire
    <3> QED BY <1>0, <1>1, <1>2, <1>3, <2>1, <3>1, FireTraced DEF FireWith, Enter
  <2> QED BY <2>2, <2>3
<1>5. Run("CleanUpReaderManager") # Run("Final") /\ Run("CleanUpReaderManager") # Run("Aborted")
      /\ "Final" \notin WaitsForUser
  BY DEF Run, WaitsForUser
<1>6. DataTyped'
  BY <1>0 DEF CleanUpReaderManager, readerSide, DataTyped, Connections, ScanStopped, Counters,
     Secrets
<1>7. ChangedInv' /\ ForgottenInv'
  BY <1>0, <1>4, <1>5, ChangedKeeps, ForgottenKeeps DEF ChangeInv
<1>8. state' = "Final" => Due(events', "Final")
  <2>1. CASE state # "Final"
    BY <1>4, <1>5, <2>1 DEF Trace
  <2>2. CASE state = "Final"
    <3>1. PICK k \in DOMAIN events : events[k] = Run("Final")
      BY <1>1, <2>2 DEF ChangeInv, LastRun, Due
    <3>2. k > 1
      BY <1>0, <1>1, <1>5, <3>1 DEF ChangeTyped
    <3> QED BY <1>0, <1>4, <3>1, <3>2, TracedOn DEF Due
  <2> QED BY <2>1, <2>2
<1>9. LastRun'
  BY <1>0, <1>4, <1>8, LastOrdered DEF ChangeInv, LastRun
<1>10. \A r \in Readers : session'[r] \in Cards => ClosedLater(r)'
  <2>1. CASE conn = NoConn
    <3> DEFINE js == Append(jobs, StopScan)
    <3>1. Len(js) \in 1..Len(js) /\ js[Len(js)].op = "stopScan" /\ js \in Seq(ChangeJobs)
      BY <1>0, <1>2
    <3>2. JobsFollow(js, jobs')
      BY <2>1, <3>1, JobsFollowItself, JobsForgotten DEF CleanUpReaderManager, FireWith, Enter
    <3>3. Len(js) \in DOMAIN jobs' /\ jobs'[Len(js)].op = "stopScan"
      <4> HIDE DEF js
      <4> QED BY <3>1, <3>2 DEF JobsFollow
    <3> QED BY <3>3 DEF ClosedLater
  <2>2. CASE conn # NoConn
    BY <2>2, PaceAssumption DEF CleanUpReaderManager, ScanStopped
  <2> QED BY <2>1, <2>2
<1>11. ClosedInv'
  BY <1>8, <1>10 DEF ClosedInv, Finished
<1>12. ChangeTyped'
  BY <1>4 DEF Trace, JobsFollow, ChangeTyped
<1> QED BY <1>4, <1>6, <1>7, <1>9, <1>11, <1>12 DEF ChangeInv, Onward

LEMMA FinalKeeps == ASSUME ChangeInv, FinalStateRuns PROVE Onward(1)
<1>0. /\ events # <<>> /\ Head(events) = Run("Final") /\ ChangeTyped /\ DataTyped
      /\ UNCHANGED <<state, error, renewed, pw, pwType, conn, info, session, slot, counter>>
      /\ armed' = {}
  BY DEF FinalStateRuns, Running, ChangeInv, kept, rest, readerSide, context
<1>1. /\ Later \in Seq(ChangeEvents) /\ Rest(Later, 1) /\ Follows(Later, Later)
      /\ 1 \in DOMAIN events /\ events[1] = Head(events) /\ Due(events, "Final")
  BY <1>0, RestOfQueue, FollowsItself DEF Rest, ChangeTyped, Due
<1>2. \A e \in ChangeEvents : e.type \in Replies =>
          /\ [e EXCEPT !.wanted = FALSE] \in ChangeEvents
          /\ Carries(e, [e EXCEPT !.wanted = FALSE]) /\ ~[e EXCEPT !.wanted = FALSE].wanted
  BY DEF ChangeEvents, NewsTypes, Replies, Ops, Carries
<1>3. \A e \in ChangeEvents : Carries(e, e)
  BY DEF Carries
<1>4. /\ Len(Later) \in Nat /\ DOMAIN Later = 1..Len(Later)
      /\ \A i \in 1..Len(Later) : Later[i] \in ChangeEvents
  BY <1>1
<1>5. /\ DOMAIN events' = 1..Len(Later) /\ events' = [i \in 1..Len(Later) |-> events'[i]]
      /\ \A i \in 1..Len(Later) :
            events'[i] = IF Later[i].type \in Replies THEN [Later[i] EXCEPT !.wanted = FALSE]
                         ELSE Later[i]
  BY <1>4 DEF FinalStateRuns, Replies
<1>6. \A i \in 1..Len(Later) : /\ events'[i] \in ChangeEvents /\ Carries(Later[i], events'[i])
                               /\ events'[i].type \in Replies => ~events'[i].wanted
  <2> SUFFICES ASSUME NEW i \in 1..Len(Later)
               PROVE  /\ events'[i] \in ChangeEvents /\ Carries(Later[i], events'[i])
                      /\ events'[i].type \in Replies => ~events'[i].wanted
    OBVIOUS
  <2>1. CASE Later[i].type \in Replies
    BY <1>2, <1>4, <1>5, <2>1
  <2>2. CASE Later[i].type \notin Replies
    BY <1>3, <1>4, <1>5, <2>2
  <2> QED BY <2>1, <2>2
<1>7. events' \in Seq(ChangeEvents) /\ Len(events') = Len(Later)
  BY <1>4, <1>5, <1>6
<1>8. Trace(1) /\ state' \in ChangeStates
  BY <1>0, <1>1, <1>6, <1>7, FollowsCarried, StayTraced
<1>9. \A i \in DOMAIN events' : events'[i].type # "run"
  <2> SUFFICES ASSUME NEW i \in DOMAIN events' PROVE events'[i].type # "run"
    OBVIOUS
  <2>1. i \in 1..Len(Later) /\ i + 1 \in DOMAIN events /\ Later[i] = events[i + 1] /\ 1 < i + 1
    BY <1>1, <1>5 DEF Rest
  <2>2. events[i + 1].type # "run"
    BY <1>0, <1>1, <2>1 DEF ChangeInv, LastRun
  <2> QED BY <1>6, <2>1, <2>2 DEF Carries
<1>10. \A s : ~Due(events', s)
  BY <1>9 DEF Due, Run
<1>11. state = "Final" /\ ~Due(events, "CleanUpReaderManager")
  BY <1>0, <1>1 DEF ChangeTyped, ChangeInv, LastRun, Due, Run
<1>12. /\ jobs' \in Seq(ChangeJobs) /\ \A i \in DOMAIN jobs' : ~jobs'[i].wanted
       /\ JobsFollow(jobs, jobs')
       /\ \A i \in DOMAIN jobs : i \in DOMAIN jobs' /\ jobs'[i].op = jobs[i].op
  <2>1. \A j \in ChangeJobs : /\ [j EXCEPT !.wanted = FALSE] \in ChangeJobs
                              /\ [j EXCEPT !.wanted = FALSE].op = j.op
                              /\ ~[j EXCEPT !.wanted = FALSE].wanted
    BY DEF ChangeJobs
  <2>2. /\ Len(jobs) \in Nat /\ DOMAIN jobs = 1..Len(jobs)
        /\ \A i \in DOMAIN jobs : jobs[i] \in ChangeJobs
        /\ jobs' = [i \in DOMAIN jobs |-> [jobs[i] EXCEPT !.wanted = FALSE]]
    BY <1>0 DEF FinalStateRuns, ChangeTyped
  <2>3. /\ DOMAIN jobs' = 1..Len(jobs) /\ jobs' = [i \in 1..Len(jobs) |-> jobs'[i]]
        /\ \A i \in 1..Len(jobs) : jobs'[i] = [jobs[i] EXCEPT !.wanted = FALSE]
    BY <2>2
  <2>4. \A i \in 1..Len(jobs) :
            jobs'[i] \in ChangeJobs /\ jobs'[i].op = jobs[i].op /\ ~jobs'[i].wanted
    BY <2>1, <2>2, <2>3
  <2>5. jobs' \in Seq(ChangeJobs)
    BY <2>2, <2>3, <2>4
  <2>6. JobsFollow(jobs, jobs')
    BY <2>2, <2>3, <2>4, <2>5 DEF JobsFollow
  <2> QED BY <2>2, <2>3, <2>4, <2>5, <2>6
<1>13. ChangedInv'
  BY <1>0, <1>8, ChangedKeeps DEF ChangeInv
<1>14. ForgottenInv'
  <2>1. Run("Final") # Run("Aborted")
    BY DEF Run
  <2> QED BY <1>0, <1>8, <2>1, ForgottenKeeps DEF ChangeInv
<1>15. LastRun'
  BY <1>0, <1>9, <1>10, <1>11 DEF LastRun
<1>16. ASSUME NEW r \in Readers, session'[r] \in Cards PROVE ClosedLater(r)'
  <2>1. ClosedLater(r)
    BY <1>0, <1>11, <1>16 DEF ChangeInv, ClosedInv, Cleaned
  <2>2. ASSUME NEW i \in DOMAIN jobs, jobs[i].op = "stopScan" PROVE ClosedLater(r)'
    BY <1>12, <2>2 DEF ClosedLater
  <2>3. ASSUME NEW j \in DOMAIN events, Opens(events[j], r),
               \A i \in DOMAIN events : events[i] = Run("Final") => i < j
        PROVE  ClosedLater(r)'
    <3>1. j > 1
      BY <1>0, <1>1, <2>3
    <3>2. j - 1 \in DOMAIN events' /\ Opens(events'[j - 1], r)
      BY <1>8, <2>3, <3>1 DEF Trace, Carries, Opens, Replies, Ops
    <3>3. \A i \in DOMAIN events' : events'[i] # Run("Final")
      BY <1>10 DEF Due
    <3> QED BY <3>2, <3>3 DEF ClosedLater
  <2> QED BY <2>1, <2>2, <2>3 DEF ClosedLater
<1>17. Unwaited'
  BY <1>0, <1>5, <1>6, <1>9, <1>12 DEF Unwaited
<1>18. DataTyped' /\ ChangeTyped'
  BY <1>0, <1>7, <1>8, <1>12, DataKept DEF ChangeTyped
<1> QED
  BY <1>8, <1>12, <1>13, <1>14, <1>15, <1>16, <1>17, <1>18 DEF ChangeInv, ClosedInv, Onward
-----------------------------------------------------------------------------
(* The reader thread *)

LEMMA ChangeCommandTyped ==
    ASSUME ChangeTyped, jobs # <<>>
    PROVE  /\ Command \in ChangeJobs /\ Tail(jobs) \in Seq(ChangeJobs)
           /\ 1 \in DOMAIN jobs /\ jobs[1] = Command
           /\ \A i \in DOMAIN Tail(jobs) : i + 1 \in DOMAIN jobs /\ Tail(jobs)[i] = jobs[i + 1]
           /\ \A k \in DOMAIN jobs : k = 1 \/ (k - 1 \in DOMAIN Tail(jobs)
                                              /\ Tail(jobs)[k - 1] = jobs[k])
BY DEF Command, ChangeTyped

\* The result of the first command takes the place of the command.
LEMMA AnswerFinds ==
    ASSUME ChangeTyped, FindInv, jobs # <<>>, Command.op \in Replies, jobs' = Tail(jobs),
           UNCHANGED <<state, conn, error>>,
           NEW done, done.type = Command.op, done.wanted = Command.wanted,
           \A i \in DOMAIN events :
               i \in DOMAIN events' /\ events'[i] = events[i] /\ i < Len(events'),
           \A i \in DOMAIN events' : \/ i \in DOMAIN events /\ events'[i] = events[i]
                                     \/ events'[i].type \in NewsTypes
                                     \/ i = Len(events') /\ events'[i] = done
    PROVE  FindInv'
<1>1. /\ 1 \in DOMAIN jobs /\ jobs[1] = Command
      /\ \A k \in DOMAIN jobs' : k + 1 \in DOMAIN jobs /\ jobs'[k] = jobs[k + 1] /\ k \in Nat /\ k > 0
  BY ChangeCommandTyped
<1>2. /\ Resets(done) <=> Command.op = "update" /\ Command.wanted
      /\ Paced(done) <=> PaceJob(Command)
      /\ Core(done) <=> Command.op \in Serial
      /\ Core(done) => (Belongs(done, state) <=> state \in Waiting[Command.op])
      /\ \A s : done # Run(s)
  BY DEF Resets, Paced, PaceJob, Core, Belongs, Run, Replies, Ops, Serial, CoreOps
<1>3. ASSUME NEW i \in DOMAIN events', i \notin DOMAIN events
      PROVE  \/ i = Len(events') /\ events'[i] = done
             \/ /\ ~Resets(events'[i]) /\ ~Paced(events'[i]) /\ ~Core(events'[i])
                /\ \A s : events'[i] # Run(s)
  BY <1>3 DEF NewsTypes, Resets, Paced, Core, Serial, CoreOps, Run
<1>4. NoResets => NoResets'
  BY <1>1, <1>2, <1>3 DEF NoResets
<1>5. Paces' => Paces
  BY <1>1, <1>2, <1>3 DEF Paces
<1>6. OnePace => OnePace'
  <2> SUFFICES ASSUME OnePace PROVE OnePace'
    OBVIOUS
  <2>1. \A i \in DOMAIN events' : Paced(events'[i]) =>
            \/ i \in DOMAIN events /\ Paced(events[i])
            \/ i = Len(events') /\ PaceJob(jobs[1])
    BY <1>1, <1>2, <1>3
  <2> QED BY <1>1, <2>1 DEF OnePace
<1>7. OneAtATime => OneAtATime'
  <2> SUFFICES ASSUME OneAtATime PROVE OneAtATime'
    OBVIOUS
  <2>1. \A i \in DOMAIN events' : Core(events'[i]) =>
            /\ Belongs(events'[i], state)
            /\ \/ i \in DOMAIN events /\ Core(events[i])
               \/ i = Len(events') /\ jobs[1].op \in Serial
    BY <1>1, <1>2, <1>3 DEF OneAtATime
  <2> QED BY <1>1, <2>1 DEF OneAtATime
<1>8. InTime'
  <2> SUFFICES ASSUME NEW k \in DOMAIN events',
                      events'[k] \in {Run("ChangePin"), Run("DestroyPaceFinal")}
               PROVE  /\ conn # NoConn
                      /\ \A i \in 1..(k - 1) : ~Resets(events'[i]) /\ ~Paced(events'[i])
    BY DEF InTime
  <2>1. k \in DOMAIN events /\ events[k] = events'[k]
    BY <1>2, <1>3
  <2>2. \A i \in 1..(k - 1) : i \in DOMAIN events
    BY <2>1 DEF ChangeTyped
  <2> QED BY <2>1, <2>2 DEF FindInv, InTime
<1> QED BY <1>4, <1>5, <1>6, <1>7, <1>8 DEF FindInv, KeepsConn, Opening

\* A step of the reader thread keeps the invariants.
Kept == ChangeInv' /\ state' = state /\ (FindInv => FindInv')
\* A command is done: news may precede its result, which is the last event.
LEMMA AnswerKeeps ==
    ASSUME ChangeInv, DataTyped', jobs # <<>>, Command.op \in Replies,
           NEW news \in Seq(ChangeEvents), \A i \in DOMAIN news : news[i].type \in NewsTypes,
           NEW code \in Codes, Report(news, code), renewed \subseteq renewed',
           Command.op = "setPin" /\ code = "OK" => renewed' # {},
           \A r \in Readers : session'[r] \in Cards =>
               \/ session'[r] = session[r]
               \/ Command.op = "connect" /\ Command.reader = r /\ code = "OK"
    PROVE  Kept
<1> DEFINE done == Done(Command.op, Command.reader, Command.password, code, Command.wanted)
           told == events \o news
<1>0. /\ ChangeTyped /\ events \in Seq(ChangeEvents) /\ Command \in ChangeJobs
      /\ jobs' = Tail(jobs) /\ UNCHANGED <<state, armed, error, pw, conn>>
  BY ChangeCommandTyped DEF ChangeInv, ChangeTyped, Report, mainSide, context, link
<1>1. /\ done \in ChangeEvents /\ done.type = Command.op /\ done.code = code
      /\ done.reader = Command.reader /\ done.wanted = Command.wanted
  BY <1>0 DEF Replies, Ops, ChangeJobs, Done, ChangeEvents
<1>2. /\ told \in Seq(ChangeEvents) /\ Len(told) \in Nat
      /\ \A i \in DOMAIN events : i \in DOMAIN told /\ told[i] = events[i]
      /\ \A i \in DOMAIN told : \/ i \in DOMAIN events
                                \/ told[i].type \in NewsTypes
  <2>1. /\ told \in Seq(ChangeEvents) /\ Len(told) = Len(events) + Len(news)
        /\ Len(events) \in Nat /\ Len(news) \in Nat
        /\ \A i \in 1..Len(told) :
              told[i] = IF i <= Len(events) THEN events[i] ELSE news[i - Len(events)]
    BY <1>0
  <2>2. ASSUME NEW i \in DOMAIN told, i \notin DOMAIN events PROVE told[i].type \in NewsTypes
    BY <1>0, <2>1, <2>2
  <2> QED BY <1>0, <2>1, <2>2
<1>3. events' = Append(told, done)
  <2>1. events' = told \o <<done>>
    BY DEF Report
  <2> HIDE DEF told, done
  <2> QED BY <1>1, <1>2, <2>1
<1>4. /\ events' \in Seq(ChangeEvents) /\ Len(events') \in DOMAIN events'
      /\ events'[Len(events')] = done
      /\ \A i \in DOMAIN told : i \in DOMAIN events' /\ events'[i] = told[i] /\ i < Len(events')
      /\ \A i \in DOMAIN events' : i \in DOMAIN told \/ i = Len(events')
  <2> HIDE DEF told, done
  <2> QED BY <1>1, <1>2, <1>3
<1> HIDE DEF told, done
<1>5. \A i \in DOMAIN events : i \in DOMAIN events' /\ events'[i] = events[i] /\ i < Len(events')
  BY <1>2, <1>4
<1>6. \A i \in DOMAIN events' : \/ i \in DOMAIN events /\ events'[i] = events[i]
                                \/ events'[i].type \in NewsTypes
                                \/ i = Len(events') /\ events'[i] = done
  BY <1>2, <1>4
<1>7. \A s, i : i \in DOMAIN events' /\ events'[i] = Run(s) <=> i \in DOMAIN events /\ events[i] = Run(s)
  BY <1>1, <1>5, <1>6 DEF Run, NewsTypes, Replies, Ops
<1>8. \A s : Due(events', s) <=> Due(events, s)
  BY <1>7 DEF Due
<1>9. ChangedInv'
  <2>1. ASSUME NEW i \in DOMAIN events', events'[i].type = "setPin", events'[i].code = "OK"
        PROVE  renewed' # {}
    BY <1>1, <1>6, <2>1 DEF NewsTypes, ChangeInv, ChangedInv
  <2> QED BY <1>0, <1>8, <2>1 DEF ChangeInv, ChangedInv
<1>10. ForgottenInv'
  <2>1. ASSUME NEW j \in DOMAIN events', events'[j] = Run("Final"), pw # NoPasswords
        PROVE  \E i \in 1..(j - 1) : events'[i] = Run("Aborted")
    <3>1. j \in DOMAIN events /\ events[j] = Run("Final")
      BY <1>7, <2>1
    <3>2. PICK i \in 1..(j - 1) : events[i] = Run("Aborted")
      BY <2>1, <3>1 DEF ChangeInv, ForgottenInv
    <3>3. i \in DOMAIN events
      BY <1>0, <3>1, <3>2
    <3> QED BY <1>5, <3>2, <3>3
  <2> QED BY <1>0, <1>8, <2>1 DEF ChangeInv, ForgottenInv
<1>11. LastRun'
  <2>1. ASSUME NEW i \in DOMAIN events', NEW j \in DOMAIN events',
               events'[i] = Run("Final"), i < j, events'[j].type = "run"
        PROVE  FALSE
    <3>1. i \in DOMAIN events /\ events[i] = Run("Final")
      BY <1>7, <2>1
    <3>2. j \in DOMAIN events /\ events[j] = events'[j]
      BY <1>1, <1>6, <2>1 DEF NewsTypes, Replies, Ops
    <3> QED BY <2>1, <3>1, <3>2 DEF ChangeInv, LastRun
  <2> QED BY <1>0, <1>8, <2>1 DEF ChangeInv, LastRun
<1>12. /\ \A i \in DOMAIN jobs' : i + 1 \in DOMAIN jobs /\ jobs'[i] = jobs[i + 1]
       /\ \A k \in DOMAIN jobs : jobs[k] = Command
                                 \/ (k - 1 \in DOMAIN jobs' /\ jobs'[k - 1] = jobs[k])
       /\ \E k \in DOMAIN jobs : jobs[k] = Command
  BY <1>0, ChangeCommandTyped
<1>13. ASSUME Cleaned', NEW r \in Readers, session'[r] \in Cards PROVE ClosedLater(r)'
  <2>1. CASE session'[r] = session[r]
    <3>1. ClosedLater(r)
      BY <1>0, <1>8, <1>13, <2>1 DEF ChangeInv, ClosedInv, Cleaned
    <3>2. ASSUME NEW k \in DOMAIN jobs, jobs[k].op = "stopScan" PROVE ClosedLater(r)'
      BY <1>12, <3>2 DEF ClosedLater, Replies, Ops
    <3>3. ASSUME NEW j \in DOMAIN events, Opens(events[j], r),
                 \A i \in DOMAIN events : events[i] = Run("Final") => i < j
          PROVE  ClosedLater(r)'
      BY <1>5, <1>7, <3>3 DEF ClosedLater
    <3> QED BY <3>1, <3>2, <3>3 DEF ClosedLater
  <2>2. CASE Command.op = "connect" /\ Command.reader = r /\ code = "OK"
    BY <1>1, <1>4, <1>5, <1>7, <2>2 DEF Opens, ClosedLater
  <2> QED BY <1>13, <2>1, <2>2
<1>14. ASSUME Finished' PROVE Unwaited'
  <2>1. Unwaited
    BY <1>0, <1>8, <1>14 DEF ChangeInv, ClosedInv, Finished
  <2>2. ~done.wanted /\ done.type # "run"
    BY <1>1, <1>12, <2>1 DEF Unwaited, Replies, Ops
  <2>3. \A i \in DOMAIN events' :
            events'[i].type # "run" /\ (events'[i].type \in Replies => ~events'[i].wanted)
    BY <1>6, <2>1, <2>2 DEF Unwaited, NewsTypes, Replies, Ops
  <2> QED BY <1>0, <1>12, <2>1, <2>3 DEF Unwaited
<1>15. ChangeTyped'
  BY <1>0, <1>4, ChangeCommandTyped DEF ChangeTyped
<1>16. FindInv => FindInv'
  BY <1>0, <1>1, <1>5, <1>6, AnswerFinds
<1> QED BY <1>0, <1>9, <1>10, <1>11, <1>13, <1>14, <1>15, <1>16 DEF ChangeInv, ClosedInv, Kept

LEMMA ChangeArrivalFits == ASSUME ChangeTyped PROVE ArrivedFits /\ CommandFits
<1>1. events # <<>> => Arrived \in ChangeEvents
  BY RestOfQueue DEF Arrived
<1>2. ArrivedFits
  BY <1>1 DEF ArrivedFits, ChangeEvents, NewsTypes, Ops, Replies
<1>3. jobs # <<>> => Command \in ChangeJobs
  BY ChangeCommandTyped
<1>4. CommandFits
  BY <1>3 DEF CommandFits, ChangeJobs, Ops
<1> QED BY <1>2, <1>4

LEMMA ReaderThreadInChange == ASSUME ChangeInv, ReaderThread PROVE Kept
<1>0. /\ ChangeTyped /\ DataTyped
      /\ <<>> \in Seq(ChangeEvents) /\ \A i \in DOMAIN <<>> : <<>>[i].type \in NewsTypes
      /\ {"OK", "COMMAND_FAILED", "CARD_NOT_FOUND"} \subseteq Codes
  BY DEF ChangeInv, Codes, Unrecoverable
<1>1. /\ jobs # <<>> /\ Command.op \in Ops /\ Command.op \in Replies /\ renewed' = renewed
      /\ Command.op # "setPin"
  BY DEF ReaderThread, ExecuteConnect, ExecuteUpdate, ExecuteDestroy, ExecutePace,
     ExecutePaceInVain, ReachesCard, Executing, Command, Ops, Replies, world
<1>2. DataTyped' /\ Command.reader \in Readers
  BY <1>0, <1>1, ReaderThreadData, ChangeArrivalFits DEF CommandFits
<1>3. CASE ExecuteConnect
  <2>1. PICK code \in Codes :
            /\ Report(<<>>, code)
            /\ \/ code = "OK" /\ \A r \in Readers : r # Command.reader => session'[r] = session[r]
               \/ session' = session
    BY <1>0, <1>3 DEF ExecuteConnect, DataTyped
  <2>2. Command.op = "connect"
    BY <1>3 DEF ExecuteConnect, Executing, Command
  <2> QED BY <1>0, <1>1, <1>2, <2>1, <2>2, AnswerKeeps
<1>4. CASE ExecuteUpdate
  <2> DEFINE r == Command.reader
             tries == counter[session[r]]
             news == <<News("retryCounter", r, session[r], tries, Subscribed(r))>>
  <2>1. Alive(r) => tries \in Counters /\ session[r] \in Secrets
    BY <1>0 DEF Alive, DataTyped, Counters, Secrets
  <2>2. Alive(r) => /\ News("retryCounter", r, session[r], tries, Subscribed(r)) \in ChangeEvents
                    /\ News("retryCounter", r, session[r], tries, Subscribed(r)).type \in NewsTypes
    BY <1>2, <2>1 DEF News, ChangeEvents, NewsTypes, Subscribed
  <2>3. Alive(r) => news \in Seq(ChangeEvents) /\ \A i \in DOMAIN news : news[i].type \in NewsTypes
    BY <2>2
  <2>4. PICK told \in Seq(ChangeEvents), code \in Codes :
            Report(told, code) /\ \A i \in DOMAIN told : told[i].type \in NewsTypes
    BY <1>0, <1>4, <2>3 DEF ExecuteUpdate
  <2>5. session' = session
    BY <1>4 DEF ExecuteUpdate
  <2> QED BY <1>1, <1>2, <2>4, <2>5, AnswerKeeps
<1>5. CASE ExecuteDestroy \/ ExecutePaceInVain
  <2>1. \A r : NotAsked(r) \subseteq Codes
    BY DEF NotAsked, Codes, WrongPassword, Unrecoverable
  <2>2. PICK code \in Codes : Report(<<>>, code) /\ session' = session
    BY <1>0, <1>5, <2>1 DEF ExecuteDestroy, ExecutePaceInVain, readerSide
  <2> QED BY <1>0, <1>1, <1>2, <2>2, AnswerKeeps
<1>6. CASE ExecutePace
  <2> DEFINE r == Command.reader
  <2>1. Alive(r) /\ session' = session
    BY <1>6 DEF ExecutePace, ReachesCard
  <2>2. PICK secret : LET verdict == Judged(r, Command.password, secret)
                      IN  \/ Report(<<>>, verdict.code)
                          \/ \E code \in {"CARD_NOT_FOUND", "COMMAND_FAILED"} : Report(<<>>, code)
    BY <1>6 DEF ExecutePace
  <2>3. Judged(r, Command.password, secret).code \in Codes
    BY <1>0, <1>2, <2>1, JudgedTyped
  <2>4. PICK code \in Codes : Report(<<>>, code)
    BY <1>0, <2>2, <2>3
  <2> QED BY <1>0, <1>1, <1>2, <2>1, <2>4, AnswerKeeps
<1> QED BY <1>3, <1>4, <1>5, <1>6 DEF ReaderThread

LEMMA SetPinKeeps == ASSUME ChangeInv, ExecuteSetPin \/ ExecuteSetPinInVain PROVE Kept
<1>0. /\ ChangeTyped /\ DataTyped
      /\ <<>> \in Seq(ChangeEvents) /\ \A i \in DOMAIN <<>> : <<>>[i].type \in NewsTypes
  BY DEF ChangeInv
<1>1. jobs # <<>> /\ Command.op = "setPin" /\ Command.op \in Replies
  BY DEF ExecuteSetPin, ExecuteSetPinInVain, Executing, Command, Replies
<1>2. /\ UNCHANGED <<info, session, slot, counter>>
      /\ \E code \in Codes : /\ Report(<<>>, code)
                             /\ \/ renewed' = renewed \cup {session[Command.reader]}
                                \/ renewed' = renewed /\ code # "OK"
  BY DEF ExecuteSetPin, readerSide, Codes, Unrecoverable, NotChanged, WrongPassword,
     ExecuteSetPinInVain, world
<1>3. PICK code \in Codes : /\ Report(<<>>, code)
                            /\ \/ renewed' = renewed \cup {session[Command.reader]}
                               \/ renewed' = renewed /\ code # "OK"
  BY <1>2
<1>4. DataTyped'
  BY <1>0, <1>2, <1>3, DataKept DEF Report, mainSide, context, link
<1> QED BY <1>0, <1>1, <1>2, <1>3, <1>4, AnswerKeeps

LEMMA StopScanKeeps == ASSUME ChangeInv, ExecuteStopScan PROVE Kept
<1>0. /\ ChangeTyped /\ DataTyped /\ jobs # <<>> /\ ScanStopped /\ jobs' = Tail(jobs)
      /\ UNCHANGED <<state, armed, events, error, pw, pwType, conn, renewed, slot, counter>>
  BY DEF ExecuteStopScan, Executing, ChangeInv, context, link, world
<1>1. DataTyped'
  BY <1>0 DEF ScanStopped, DataTyped, Counters, Secrets
<1>2. ChangeTyped' /\ \A i \in DOMAIN jobs' : /\ i + 1 \in DOMAIN jobs /\ jobs'[i] = jobs[i + 1]
                                           /\ i \in Nat
  BY <1>0, ChangeCommandTyped DEF ChangeTyped
<1>3. ChangedInv' /\ ForgottenInv' /\ LastRun'
  BY <1>0 DEF ChangeInv, ChangedInv, ForgottenInv, LastRun
<1>4. \A r \in Readers : session'[r] \notin Cards
  BY <1>0, PaceAssumption DEF ScanStopped
<1>5. ClosedInv'
  BY <1>0, <1>2, <1>4 DEF ChangeInv, ClosedInv, Finished, Unwaited
<1>6. FindInv => FindInv'
  BY <1>0, <1>2 DEF FindInv, KeepsConn, Opening, InTime, OneAtATime, NoResets, Paces, OnePace
<1> QED BY <1>0, <1>1, <1>2, <1>3, <1>5, <1>6 DEF ChangeInv, Kept
-----------------------------------------------------------------------------
(* Readers are polled, cards are moved, and the user acts or cancels. *)

\* A step that reads no event.
LEMMA AsideKeeps ==
    ASSUME ChangeInv, DataTyped', Trace(0), state' \in ChangeStates, JobsFollow(jobs, jobs'),
           Finished => armed' = armed /\ Len(jobs') = Len(jobs),
           error => error', renewed' = renewed, pw' = pw \/ state \notin Cleared,
           \A r \in Readers : session'[r] \in Cards => session'[r] = session[r]
    PROVE  Onward(0)
<1>1. Drops(0)
  BY DEF Drops
<1>2. MainStep(0)
  BY <1>1 DEF MainStep
<1> QED BY <1>2, MainKeeps

LEMMA EventsStay == ASSUME ChangeTyped PROVE Rest(events, 0) /\ JobsFollow(jobs, jobs)
BY RestOfQueue, JobsFollowItself DEF ChangeTyped

LEMMA CardsMove ==
    ASSUME ChangeInv, NEW r \in Readers, NEW c \in Cards, TakeCard(r) \/ PutCard(r, c)
    PROVE  Onward(0)
<1>0. ChangeTyped /\ DataTyped
  BY DEF ChangeInv
<1>1. /\ UNCHANGED <<state, armed, jobs, events, error, renewed, pw>>
      /\ \A o \in Readers : session'[o] \in Cards => session'[o] = session[o]
  BY <1>0, PaceAssumption
  DEF TakeCard, PutCard, machineSide, machine, context, link, reader, readerSide, DataTyped
<1>2. DataTyped'
  BY <1>0, EnvironmentData DEF Environment
<1>3. Trace(0) /\ state' \in ChangeStates
  BY <1>0, <1>1, EventsStay, StayTraced, FollowsItself DEF ChangeTyped
<1> QED BY <1>0, <1>1, <1>2, <1>3, EventsStay, AsideKeeps

LEMMA PollInChange == ASSUME ChangeInv, NEW r \in Readers, Poll(r) PROVE Onward(0)
<1>0. ChangeTyped /\ DataTyped
  BY DEF ChangeInv
<1>1. /\ UNCHANGED <<state, armed, jobs, error, renewed, pw>>
      /\ \A o \in Readers : session'[o] \in Cards => session'[o] = session[o]
  BY <1>0, PaceAssumption DEF Poll, machineSide, machine, context, link, world, DataTyped
<1>2. Follows(events, events')
  BY <1>0, FollowsItself, PolledFollows DEF Subscribed, ChangeTyped, Poll
<1>3. DataTyped'
  BY <1>0, PollData
<1>4. Trace(0) /\ state' \in ChangeStates
  BY <1>0, <1>1, <1>2, EventsStay, StayTraced
<1> QED BY <1>0, <1>1, <1>3, <1>4, EventsStay, AsideKeeps

LEMMA ApprovalFollows ==
    ASSUME ChangeTyped, state \in WaitsForUser
    PROVE  Follows(events, Append(events, Run(state)))
<1>1. /\ events \in Seq(ChangeEvents) /\ <<Run(state)>> \in Seq(ChangeEvents)
      /\ \A i \in DOMAIN <<Run(state)>> : Joins(<<Run(state)>>[i])
  BY ChangeRun DEF ChangeTyped, Joins
<1>2. Follows(events, events \o <<Run(state)>>)
  BY <1>1, FollowsItself, FollowsMore
<1>3. Append(events, Run(state)) = events \o <<Run(state)>>
  BY <1>1
<1> QED BY <1>2, <1>3

LEMMA UserApproves ==
    ASSUME ChangeInv, UserEntersPassword \/ UserMovesCard \/ UserEntersNewPin
    PROVE  Onward(0)
<1>0. ChangeTyped /\ DataTyped
  BY DEF ChangeInv
<1> USE DEF untouched, rest, readerSide, kept
<1>1. /\ state \in WaitsForUser /\ events' = Append(events, Run(state))
      /\ UNCHANGED <<state, armed, jobs, error, renewed, session>>
      /\ state \notin Cleared /\ state # "Final"
  BY DEF UserEntersPassword, UserMovesCard, UserEntersNewPin, Approve, WaitsForUser, Cleared,
     Concluding
<1>2. DataTyped'
  BY <1>0, EnvironmentData DEF Environment, UserEntersNewPin, DataTyped, Secrets
<1>3. Trace(0) /\ state' \in ChangeStates
  BY <1>0, <1>1, EventsStay, ApprovalFollows, StayTraced
<1> QED BY <1>0, <1>1, <1>2, <1>3, EventsStay, AsideKeeps DEF Finished

LEMMA ReadersChanged == ASSUME ChangeInv, UserChangesReaders PROVE Onward(0)
<1>0. ChangeTyped /\ DataTyped
  BY DEF ChangeInv
<1>1. /\ state \in {"SelectReader", "ConnectCard"} /\ Enter(events, jobs, "SelectReader")
      /\ state' = "SelectReader"
      /\ UNCHANGED <<error, renewed, pw, session>>
  BY DEF UserChangesReaders, Enter, readerSide, context
<1>2. DataTyped'
  BY <1>0, EnvironmentData DEF Environment
<1>3. Lawful /\ "SelectReader" \in ChangeStates /\ Follows(events, events)
  BY <1>0, <1>1, FollowsItself DEF Lawful, Concluding, Cleared, ChangeStates, Inner, ChangeTyped
<1>4. Trace(0) /\ state' \in ChangeStates /\ JobsFollow(jobs, jobs')
  BY <1>0, <1>1, <1>3, EventsStay, EnterTraced
<1> QED BY <1>0, <1>1, <1>2, <1>4, AsideKeeps DEF Finished

LEMMA CancelInChange ==
    ASSUME ChangeInv, NEW kill \in BOOLEAN, NEW target \in ChangeStates, Cancel(kill, target),
           target # state, state # "Final", target \in Cleared => state \in Cleared \/ target = "Aborted",
           target = "Final" => state = "CleanUpReaderManager"
    PROVE  Onward(0)
<1>0. ChangeTyped /\ DataTyped
  BY DEF ChangeInv
<1>1. /\ state' = target /\ error' = TRUE /\ UNCHANGED <<renewed, pw, session>>
      /\ UNCHANGED <<pwType, conn, info, slot, counter>>
  BY DEF Cancel, Enter, readerSide, world, link
<1>2. PICK queue : Enter(queue, jobs, target) /\ Follows(events, queue)
  BY <1>0, FollowsItself, ApprovalFollows DEF ChangeTyped, Cancel
<1>3. DataTyped'
  BY <1>0, <1>1, DataKept
<1>4. Lawful
  BY <1>1 DEF Lawful
<1>5. Trace(0) /\ state' \in ChangeStates /\ JobsFollow(jobs, jobs')
  BY <1>0, <1>2, <1>4, EventsStay, EnterTraced
<1> QED BY <1>0, <1>1, <1>3, <1>5, AsideKeeps DEF Finished

LEMMA CancelsInChange ==
    ASSUME ChangeInv, NEW kill \in BOOLEAN, UserCancels(kill) \/ UserCancelsOutside(kill)
    PROVE  Onward(0)
<1>1. CASE UserCancels(kill)
  <2>1. /\ AbortTarget \in ChangeStates /\ AbortTarget \notin Cleared \ {"Aborted"}
        /\ state # "Final" /\ AbortTarget # "Final" /\ AbortTarget # state
    BY <1>1 DEF UserCancels, AbortTarget, ChangeStates, Inner, Left, Cleared, Concluding
  <2> QED BY <1>1, <2>1, CancelInChange DEF UserCancels
<1>2. CASE UserCancelsOutside(kill)
  <2>1. state # "Final" /\ state \in Left \cup Outer
    BY <1>2 DEF UserCancelsOutside
  <2>2. /\ AbortTargetOutside \in ChangeStates
        /\ AbortTargetOutside \in Cleared => state \in Cleared \/ AbortTargetOutside = "Aborted"
        /\ AbortTargetOutside = "Final" => state = "CleanUpReaderManager"
        /\ AbortTargetOutside # state
    BY <2>1 DEF AbortTargetOutside, ChangeStates, Inner, Left, Outer, Cleared, Concluding
  <2> QED BY <1>2, <2>1, <2>2, CancelInChange DEF UserCancelsOutside
<1> QED BY <1>1, <1>2
-----------------------------------------------------------------------------
(* The invariant of a PIN change *)

LEMMA InitChange == Init => ChangeInv
<1> SUFFICES ASSUME Init PROVE ChangeInv
  OBVIOUS
<1> DEFINE s == "MaintainCardConnection"
<1>1. s \in ChangeStates /\ s \notin Concluding /\ s # "Final" /\ s # "CleanUpReaderManager"
  BY DEF ChangeStates, Inner, Concluding
<1>2. /\ events = <<Run(s)>> /\ state = s /\ jobs = <<>> /\ Run(s) \in ChangeEvents
  BY <1>1, ChangeRun DEF Init
<1>3. /\ events \in Seq(ChangeEvents) /\ jobs \in Seq(ChangeJobs)
      /\ DOMAIN events = {1} /\ events[1] = Run(s)
  BY <1>2
<1>4. ChangeTyped
  BY <1>1, <1>2, <1>3 DEF ChangeTyped
<1>5. DataTyped
  BY InitPace DEF PaceIInv
<1>6. Run(s).type = "run" /\ \A other : other # s => Run(s) # Run(other)
  BY DEF Run
<1>7. \A other : other # s => ~Due(events, other)
  BY <1>3, <1>6 DEF Due
<1>8. ChangedInv
  BY <1>1, <1>2, <1>3, <1>6, <1>7 DEF ChangedInv
<1>9. ForgottenInv
  BY <1>1, <1>2, <1>3, <1>6 DEF ForgottenInv, Cleared
<1>10. LastRun
  BY <1>1, <1>2, <1>3, <1>6, <1>7 DEF LastRun
<1>11. ClosedInv
  BY <1>1, <1>2 DEF ClosedInv, Cleaned, Finished
<1> QED BY <1>4, <1>5, <1>8, <1>9, <1>10, <1>11 DEF ChangeInv

Beside ==
    \/ Environment \/ UserEntersNewPin \/ UNCHANGED vars
    \/ \E r \in Readers : Poll(r)
    \/ \E kill \in BOOLEAN : UserCancelsOutside(kill)
LEMMA MainOnward == ASSUME ChangeInv, ChangeMainThread PROVE Onward(1)
<1>0. ChangeTyped /\ DataTyped
  BY DEF ChangeInv
<1>1. CASE RunStep
  BY <1>0, <1>1, RunMain, RunData, MainKeeps
<1>2. CASE ResultStep
  BY <1>0, <1>2, ResultMain, ResultData, ChangeArrivalFits, MainKeeps
<1>3. CASE \/ PrepareChangePin \/ EnterNewPacePin \/ SetEidPin \/ SetEidPinDone
           \/ ClearPasswordsFinal \/ OuterCommands
  BY <1>3, OuterMain, MainKeeps
<1>4. CASE CleanUpReaderManager \/ FinalStateRuns
  BY <1>4, CleanUpKeeps, FinalKeeps
<1> QED BY <1>1, <1>2, <1>3, <1>4 DEF ChangeMainThread, MainThread

LEMMA BesideOnward == ASSUME ChangeInv, Beside PROVE Onward(0)
<1>0. ChangeTyped /\ DataTyped
  BY DEF ChangeInv
<1>1. ASSUME NEW r \in Readers, TakeCard(r) PROVE Onward(0)
  <2>1. PICK c : c \in Cards
    BY <1>0, <1>1, PaceAssumption DEF TakeCard, DataTyped, Secrets
  <2> QED BY <1>1, <2>1, CardsMove
<1>2. CASE Environment
  BY <1>1, <1>2, CardsMove, UserApproves, ReadersChanged, CancelsInChange DEF Environment
<1>3. CASE UNCHANGED vars
  <2>1. UNCHANGED <<state, events, jobs, armed, error, renewed, pw, session, conn, info>>
        /\ UNCHANGED <<pwType, slot, counter>>
    BY <1>3 DEF vars, machine, context, link, reader, world, readerSide
  <2>2. DataTyped' /\ Trace(0) /\ state' \in ChangeStates
    BY <1>0, <2>1, DataKept, EventsStay, StayTraced, FollowsItself DEF ChangeTyped
  <2> QED BY <1>0, <2>1, <2>2, EventsStay, AsideKeeps
<1> QED BY <1>2, <1>3, PollInChange, UserApproves, CancelsInChange DEF Beside

LEMMA ThreadInChange == ASSUME ChangeInv, ChangeReaderThread PROVE Kept
BY ReaderThreadInChange, SetPinKeeps, StopScanKeeps DEF ChangeReaderThread

LEMMA StepChange == ChangeInv /\ [ChangeNext]_vars => ChangeInv'
BY MainOnward, BesideOnward, ThreadInChange DEF ChangeNext, Beside, Onward, Kept

\* The queue, the passwords and the connections of a PIN change stay in the
\* relation the comments above state, in every reachable state.
THEOREM ChangeInvariant == ChangeSpec => []ChangeInv
BY InitChange, StepChange, PTL DEF ChangeSpec

\* A PIN change that ends without an error has changed the PIN of a card, even
\* when cards are exchanged and the command is refused in between.
THEOREM SuccessChangesPin == ChangeSpec => []SuccessMeansChanged
<1>1. ChangeInv => SuccessMeansChanged
  BY DEF ChangeInv, ChangedInv, SuccessMeansChanged, Concluding
<1> QED BY <1>1, ChangeInvariant, PTL

\* However a PIN change ends, no password is left when its final state runs, and
\* no card is held once its queues have been read.
THEOREM ChangeEndsClean == ChangeSpec => []EndIsClean
<1>1. ASSUME ChangeInv, Running("Final") PROVE pw = NoPasswords
  BY <1>1 DEF Running, ChangeInv, ChangeTyped, ForgottenInv
<1>2. ASSUME ChangeInv, state = "Final", events = <<>>, jobs = <<>>, NEW r \in Readers
      PROVE  session[r] \notin Cards
  BY <1>2 DEF ChangeInv, ClosedInv, Cleaned, ClosedLater, Due
<1>3. ChangeInv => EndIsClean
  BY <1>1, <1>2 DEF EndIsClean
<1> QED BY <1>3, ChangeInvariant, PTL
-----------------------------------------------------------------------------
(* The connection a PIN change works on *)

\* An event with which the connection may be given up.
Disconnects ==
    \/ Resets(Head(events)) \/ (Paced(Head(events)) /\ (state' \in Changing => state \in Changing))
    \/ Head(events) = Run("MaintainCardConnection") /\ ~error
\* What a step may do to the connection, to the commands and to the state.
Finds(d) ==
    /\ d = 1 => events # <<>>
    /\ error => error'
    /\ conn # NoConn /\ conn' = NoConn => d = 1 /\ Disconnects
    /\ \A k \in DOMAIN jobs' : k > Len(jobs) /\ jobs'[k].op \in Serial =>
           /\ d = 1 /\ k = Len(jobs') /\ state' = state /\ conn' = conn /\ conn # NoConn
           /\ Head(events).type = "run" /\ Head(events).state \in Waiting[jobs'[k].op]
           /\ jobs'[k].op = "pace" => ~error
    /\ state' # state =>
           /\ state \in Cleared => state' \in Cleared
           /\ state' \in Changing => state \in Changing \/ (d = 1 /\ Paced(Head(events)) /\ state \in Inner)
           /\ state \in PaceStates /\ state' \in Inner =>
                  state' \in PaceStates \/ (d = 1 /\ (Paced(Head(events)) \/ (~error /\ Core(Head(events)))))
           /\ ~error' => (d = 1 /\ Core(Head(events))) \/ state \in Idle

\* Where the events and the jobs after a step come from.
Old(d, i) ==
    /\ i + d \in DOMAIN events /\ i + d > d /\ i \in Nat
    /\ Resets(events'[i]) => Resets(events[i + d])
    /\ Paced(events'[i]) => Paced(events[i + d])
    /\ Core(events'[i]) => Core(events[i + d])
    /\ \A s : Belongs(events[i + d], s) => Belongs(events'[i], s)
    /\ events'[i].type = "run" => events'[i] = events[i + d]
Last(i) == i = Len(events') /\ events'[i] = Run(state') /\ state' # state
OldJob(k) ==
    k \in DOMAIN jobs /\ jobs'[k].op = jobs[k].op /\ (jobs'[k].wanted => jobs[k].wanted)
NewJob(d, k) ==
    /\ d = 1 /\ k = Len(jobs') /\ state' = state /\ conn' = conn /\ conn # NoConn
    /\ Head(events).type = "run" /\ Head(events).state \in Waiting[jobs'[k].op]
    /\ Core(Head(events)) /\ (jobs'[k].op = "pace" => ~error)

LEMMA TraceFinds ==
    ASSUME ChangeTyped, NEW d \in {0, 1}, Trace(d), JobsFollow(jobs, jobs'), Finds(d)
    PROVE  /\ \A i \in DOMAIN events' :
                  \/ Old(d, i) \/ Last(i)
                  \/ ~Resets(events'[i]) /\ ~Paced(events'[i]) /\ ~Core(events'[i])
           /\ \A k \in DOMAIN jobs' : OldJob(k) \/ jobs'[k].op \notin Serial \/ NewJob(d, k)
           /\ d = 1 => 1 \in DOMAIN events /\ events[1] = Head(events)
<1>1. ASSUME NEW i \in DOMAIN events'
      PROVE  \/ Old(d, i) \/ Last(i)
             \/ ~Resets(events'[i]) /\ ~Paced(events'[i]) /\ ~Core(events'[i])
  <2>0. i \in Nat /\ i > 0
    BY DEF Trace
  <2>1. CASE i + d \in DOMAIN events /\ Carries(events[i + d], events'[i])
    BY <2>0, <2>1 DEF Old, Carries, Resets, Paced, Core, Belongs, Replies, Ops, Serial, CoreOps
  <2>2. CASE Joins(events'[i])
    BY <2>2 DEF Joins, NewsTypes, Resets, Paced, Core, Serial, CoreOps, Run, WaitsForUser, Idle,
       Updating
  <2>3. CASE Lawful /\ i = Len(events') /\ events'[i] = Run(state')
    BY <2>3 DEF Last, Lawful, Resets, Paced, Core, Serial, CoreOps, Run, Idle, Updating
  <2> QED BY <2>1, <2>2, <2>3 DEF Trace
<1>2. ASSUME NEW k \in DOMAIN jobs'
      PROVE  OldJob(k) \/ jobs'[k].op \notin Serial \/ NewJob(d, k)
  <2>1. CASE k <= Len(jobs)
    BY <2>1 DEF OldJob, JobsFollow, ChangeTyped
  <2>2. CASE k > Len(jobs) /\ jobs'[k].op \in Serial
    BY <2>2 DEF NewJob, Finds, Core, Waiting, Serial, CoreOps, Idle, WaitsForUser
  <2> QED BY <2>1, <2>2 DEF JobsFollow, ChangeTyped
<1>3. d = 1 => 1 \in DOMAIN events /\ events[1] = Head(events)
  BY DEF Finds, ChangeTyped
<1> QED BY <1>1, <1>2, <1>3

LEMMA StepFinds ==
    ASSUME ChangeTyped, FindInv, NEW d \in {0, 1}, Trace(d), JobsFollow(jobs, jobs'), Finds(d),
           state' \in ChangeStates
    PROVE  FindInv'
<1> DEFINE e == Head(events)
<1>1. \A i \in DOMAIN events' :
          \/ Old(d, i) \/ Last(i)
          \/ ~Resets(events'[i]) /\ ~Paced(events'[i]) /\ ~Core(events'[i])
  BY TraceFinds
<1>2. \A k \in DOMAIN jobs' : OldJob(k) \/ jobs'[k].op \notin Serial \/ NewJob(d, k)
  BY TraceFinds
<1>3. d = 1 => 1 \in DOMAIN events /\ events[1] = e
  BY TraceFinds
\* Without an error, the event that is read was all there was under way.
<1>4. ASSUME ~error, d = 1, Core(e)
      PROVE  /\ Belongs(e, state) /\ \A i \in DOMAIN events : Core(events[i]) => i = 1
             /\ \A k \in DOMAIN jobs : jobs[k].op \notin Serial
  BY <1>3, <1>4 DEF FindInv, OneAtATime
<1>5. Run(state').type = "run" /\ Run(state').state = state'
  BY DEF Run
<1>6. ~error' => OneAtATime'
  <2> SUFFICES ASSUME ~error' PROVE OneAtATime'
    OBVIOUS
  <2>1. ~error /\ OneAtATime
    BY DEF Finds, FindInv
  <2>2. ASSUME state' # state
        PROVE  /\ \A i \in DOMAIN events' : Core(events'[i]) => Last(i)
               /\ \A k \in DOMAIN jobs' : jobs'[k].op \notin Serial
    <3>1. (d = 1 /\ Core(e)) \/ state \in Idle
      BY <2>2 DEF Finds, Disconnects, e
    <3>2. CASE d = 1 /\ Core(e)
      BY <1>1, <1>2, <1>4, <2>1, <2>2, <3>2 DEF Old, OldJob, NewJob
    <3>3. CASE state \in Idle
      <4>1. \A op \in Serial : state \notin Waiting[op]
        BY <3>3 DEF Idle, Serial, CoreOps, Waiting, WaitsForUser
      <4>2. \A i \in DOMAIN events : ~Core(events[i])
        BY <2>1, <3>3, <4>1 DEF OneAtATime, Core, Belongs, Serial, CoreOps
      <4>3. \A k \in DOMAIN jobs : jobs[k].op \notin Serial
        BY <2>1, <4>1 DEF OneAtATime
      <4> QED BY <1>1, <1>2, <2>2, <4>2, <4>3 DEF Old, OldJob, NewJob
    <3> QED BY <3>1, <3>2, <3>3
  <2>3. CASE state' # state
    BY <1>5, <2>2, <2>3 DEF OneAtATime, Last, Belongs
  <2>4. CASE state' = state /\ \E k \in DOMAIN jobs' : jobs'[k].op \in Serial /\ NewJob(d, k)
    <3>1. d = 1 /\ Core(e) /\ e.type = "run"
      BY <2>4 DEF NewJob
    <3>2. e.state = state
      BY <1>4, <2>1, <3>1 DEF Belongs
    <3>3. \A k \in DOMAIN jobs' : jobs'[k].op \in Serial => NewJob(d, k)
      BY <1>2, <1>4, <2>1, <3>1 DEF OldJob
    <3>4. \A i \in DOMAIN events' : ~Core(events'[i])
      BY <1>1, <1>4, <2>1, <2>4, <3>1 DEF Old, Last
    <3> QED BY <2>4, <3>2, <3>3, <3>4 DEF OneAtATime, NewJob
  <2>5. CASE state' = state /\ ~\E k \in DOMAIN jobs' : jobs'[k].op \in Serial /\ NewJob(d, k)
    BY <1>1, <1>2, <2>1, <2>5 DEF Last, OneAtATime, Old, OldJob
  <2> QED BY <2>3, <2>4, <2>5
\* Nothing new takes the connection away, as nothing that is read did.
<1>7. ASSUME d = 1 => ~Resets(e), NoResets, state' # state => state' \notin Updating
      PROVE  NoResets'
  <2>1. \A k \in DOMAIN jobs' : NewJob(d, k) => jobs'[k].op # "update"
    BY <1>7 DEF NewJob, Waiting, Resets, Updating
  <2>2. \A i \in DOMAIN events' : ~Resets(events'[i])
    BY <1>1, <1>5, <1>7 DEF Old, Last, NoResets, Resets
  <2> QED BY <1>2, <1>7, <2>1, <2>2 DEF NoResets, OldJob, Serial, CoreOps
\* A PACE is begun alone.
<1>8. ASSUME NEW k \in DOMAIN jobs', PaceJob(jobs'[k]), ~OldJob(k)
      PROVE  state = "EstablishPaceChannel" /\ ~error /\ NewJob(d, k) /\ state' = state
  <2>1. NewJob(d, k) /\ ~error
    BY <1>2, <1>8 DEF PaceJob, Serial, CoreOps, NewJob
  <2>2. e.state = "EstablishPaceChannel" /\ d = 1 /\ Core(e) /\ e.type = "run"
    BY <1>8, <2>1 DEF NewJob, PaceJob, Waiting
  <2> QED BY <1>4, <2>1, <2>2 DEF NewJob, Belongs
<1>9. ASSUME ~Paces, Paces' PROVE \E k \in DOMAIN jobs' : PaceJob(jobs'[k]) /\ ~OldJob(k)
  BY <1>1, <1>5, <1>9 DEF Paces, Old, OldJob, Last, Paced, PaceJob
<1>10. KeepsConn'
  <2> SUFFICES ASSUME state' \in Changing PROVE conn' # NoConn /\ NoResets' /\ ~Paces'
    BY DEF KeepsConn
  <2>1. \A k \in DOMAIN jobs' : PaceJob(jobs'[k]) => OldJob(k)
    BY <1>8 DEF Changing
  <2>2. state' \notin Updating
    BY DEF Changing, Updating
  <2>3. CASE state \in Changing
    <3>1. conn # NoConn /\ NoResets /\ ~Paces
      BY <2>3 DEF KeepsConn, FindInv
    <3>2. d = 1 => ~Resets(e) /\ ~Paced(e)
      BY <1>3, <3>1 DEF NoResets, Paces
    <3>3. ~(d = 1 /\ e = Run("MaintainCardConnection") /\ ~error)
      BY <1>4, <2>3 DEF Run, Core, Idle, WaitsForUser, Belongs, Changing
    <3> QED BY <1>7, <1>9, <2>1, <2>2, <3>1, <3>2, <3>3 DEF Finds, Disconnects, e
  <2>4. CASE state \notin Changing
    <3>1. d = 1 /\ Paced(e) /\ state \in Inner /\ state' # state
      BY <2>4 DEF Finds, Disconnects, e
    <3>2. conn # NoConn /\ NoResets /\ OnePace
      BY <1>3, <3>1 DEF FindInv, Opening, Paces
    <3>3. ~Resets(e) /\ e # Run("MaintainCardConnection")
      BY <3>1 DEF Paced, Resets, Run
    <3>4. ~Paces'
      <4>1. \A i \in DOMAIN events' : ~Paced(events'[i])
        BY <1>1, <1>3, <1>5, <3>1, <3>2 DEF Old, Last, OnePace, Paced
      <4>2. \A k \in DOMAIN jobs' : ~PaceJob(jobs'[k])
        BY <1>3, <2>1, <3>1, <3>2 DEF OldJob, OnePace, PaceJob
      <4> QED BY <4>1, <4>2 DEF Paces
    <3> QED BY <1>7, <2>2, <2>4, <3>1, <3>2, <3>3, <3>4 DEF Finds, Disconnects, e
  <2> QED BY <2>3, <2>4
<1>11. Opening'
  <2> SUFFICES ASSUME state' \in Inner, Paces'
               PROVE  state' \in PaceStates /\ conn' # NoConn /\ NoResets' /\ OnePace'
    BY DEF Opening
  <2>1. CASE \E k \in DOMAIN jobs' : PaceJob(jobs'[k]) /\ ~OldJob(k)
    <3>1. PICK k \in DOMAIN jobs' : PaceJob(jobs'[k]) /\ ~OldJob(k)
      BY <2>1
    <3>2. state = "EstablishPaceChannel" /\ ~error /\ NewJob(d, k) /\ state' = state
      BY <1>8, <3>1
    <3>3. d = 1 /\ Core(e) /\ e.type = "run" /\ e.state = state /\ conn' # NoConn
      BY <1>4, <3>2 DEF NewJob, Belongs
    <3>4. /\ \A i \in DOMAIN events : Core(events[i]) => i = 1
          /\ \A n \in DOMAIN jobs : jobs[n].op \notin Serial
      BY <1>4, <3>2, <3>3
    <3>5. \A i \in DOMAIN events' : ~Core(events'[i]) /\ ~Resets(events'[i]) /\ ~Paced(events'[i])
      BY <1>1, <3>2, <3>3, <3>4
      DEF Old, Last, Core, Resets, Paced, Serial, CoreOps, Updating, Idle, WaitsForUser
    <3>6. \A n \in DOMAIN jobs' : jobs'[n].op \in Serial => NewJob(d, n) /\ n = k
      BY <1>2, <3>2, <3>4 DEF OldJob, NewJob
    <3>7. jobs'[k].op = "pace"
      BY <3>1 DEF PaceJob
    <3> QED BY <3>2, <3>3, <3>5, <3>6, <3>7 DEF PaceStates, NoResets, OnePace, Serial, CoreOps, PaceJob
  <2>2. CASE \A k \in DOMAIN jobs' : PaceJob(jobs'[k]) => OldJob(k)
    <3>1. Paces
      BY <1>9, <2>2
    <3>2. state \in Inner
      BY <3>1 DEF FindInv, KeepsConn, Finds, Inner, Changing, Cleared, Concluding, ChangeTyped,
         ChangeStates, Left, Outer
    <3>3. state \in PaceStates /\ conn # NoConn /\ NoResets /\ OnePace
      BY <3>1, <3>2 DEF FindInv, Opening
    <3>4. d = 1 => ~Resets(e)
      BY <1>3, <3>3 DEF NoResets
    <3>5. d = 1 => ~Paced(e)
      <4> SUFFICES ASSUME d = 1, Paced(e) PROVE FALSE
        OBVIOUS
      <4>1. \A i \in DOMAIN events' : ~Paced(events'[i])
        BY <1>1, <1>3, <1>5, <3>3 DEF Old, Last, OnePace, Paced
      <4>2. \A k \in DOMAIN jobs' : ~PaceJob(jobs'[k])
        BY <1>3, <2>2, <3>3 DEF OldJob, OnePace, PaceJob
      <4> QED BY <4>1, <4>2 DEF Paces
    <3>6. ~(d = 1 /\ ~error /\ Core(e))
      <4> SUFFICES ASSUME d = 1, ~error, Core(e) PROVE FALSE
        OBVIOUS
      <4>1. \A i \in DOMAIN events : ~Paced(events[i])
        BY <1>3, <1>4, <3>5 DEF Paced, Core, Serial, CoreOps
      <4>2. \A k \in DOMAIN jobs : ~PaceJob(jobs[k])
        BY <1>4 DEF PaceJob, Serial, CoreOps
      <4> QED BY <3>1, <4>1, <4>2 DEF Paces
    <3>7. conn' # NoConn
      <4>1. Core(Run("MaintainCardConnection"))
        BY DEF Core, Run, Idle, WaitsForUser
      <4> QED BY <3>3, <3>4, <3>5, <3>6, <4>1 DEF Finds, Disconnects, e
    <3>8. state' \in PaceStates
      BY <3>3, <3>5, <3>6 DEF Finds, Disconnects, e
    <3>9. NoResets'
      BY <1>7, <3>3, <3>4, <3>8 DEF PaceStates, Updating
    <3>10. OnePace'
      <4>1. \A i \in DOMAIN events' : Paced(events'[i]) => Old(d, i)
        BY <1>1, <1>5 DEF Last, Paced
      <4> QED BY <2>2, <3>3, <4>1 DEF OnePace, Old, OldJob, PaceJob
    <3> QED BY <3>7, <3>8, <3>9, <3>10
  <2> QED BY <2>1, <2>2
<1>12. InTime'
  <2> SUFFICES ASSUME NEW k \in DOMAIN events',
                      events'[k] \in {Run("ChangePin"), Run("DestroyPaceFinal")}
               PROVE  /\ conn' # NoConn
                      /\ \A i \in 1..(k - 1) : ~Resets(events'[i]) /\ ~Paced(events'[i])
    BY DEF InTime
  <2>0. /\ events'[k].type = "run" /\ Core(events'[k]) /\ DOMAIN events' = 1..Len(events')
        /\ Len(events') \in Nat
    BY DEF Run, Core, Idle, WaitsForUser, Trace
  <2>1. CASE Last(k)
    <3>1. state' \in Changing
      BY <1>5, <2>1 DEF Last, Run, Changing
    <3> QED BY <1>10, <2>0, <3>1 DEF KeepsConn, NoResets, Paces
  <2>2. CASE Old(d, k)
    <3>1. k + d \in DOMAIN events /\ events[k + d] = events'[k] /\ k + d > d
      BY <2>0, <2>2 DEF Old
    <3>2. conn # NoConn /\ \A i \in 1..((k + d) - 1) : ~Resets(events[i]) /\ ~Paced(events[i])
      BY <3>1 DEF FindInv, InTime
    <3>3. d = 1 => ~Resets(e) /\ ~Paced(e)
      BY <1>3, <2>0, <3>2
    <3>4. ~(d = 1 /\ ~error /\ e = Run("MaintainCardConnection"))
      BY <1>4, <2>0, <3>1 DEF Core, Run, Idle, WaitsForUser
    <3>5. ASSUME NEW i \in 1..(k - 1) PROVE ~Resets(events'[i]) /\ ~Paced(events'[i])
      BY <1>1, <2>0, <3>2 DEF Old, Last
    <3> QED BY <3>2, <3>3, <3>4, <3>5 DEF Finds, Disconnects, e
  <2> QED BY <1>1, <2>0, <2>1, <2>2
<1> QED BY <1>6, <1>10, <1>11, <1>12 DEF FindInv

\* Commands that are not given from the run() of the state that waits for them.
Minor(js) == js \in Seq(ChangeJobs) /\ \A k \in DOMAIN js : k > Len(jobs) => js[k].op \notin Serial
LEMMA MinorJobs ==
    ASSUME ChangeTyped
    PROVE  /\ Minor(jobs)
           /\ \A job \in ChangeJobs : job.op \notin Serial => Minor(Append(jobs, job))
           /\ \A name, known : Minor(jobs \o ConnectJobs(name, known)) /\ Minor(jobs \o <<>>)
<1>1. jobs \in Seq(ChangeJobs) /\ Minor(jobs)
  BY DEF ChangeTyped, Minor
<1>2. \A job \in ChangeJobs : job.op \notin Serial => Minor(Append(jobs, job)) /\ Minor(jobs \o <<job>>)
  BY <1>1 DEF Minor
<1>3. \A r \in Readers : /\ Job("connect", r, "PIN", NoCard) \in ChangeJobs
                         /\ Job("connect", r, "PIN", NoCard).op \notin Serial
  BY ChangeJobTyped DEF Job, Serial, CoreOps, Replies, Ops, PaceTypes, Types, Secrets
<1>4. jobs \o <<>> = jobs
  BY <1>1
<1> QED BY <1>1, <1>2, <1>3, <1>4 DEF ConnectJobs

LEMMA MinorFinds ==
    ASSUME NEW js, Minor(js), jobs' = js \/ jobs' = Forgotten(js, state)
    PROVE  \A k \in DOMAIN jobs' : k > Len(jobs) => jobs'[k].op \notin Serial
<1>1. JobsFollow(js, Forgotten(js, state)) /\ Len(Forgotten(js, state)) = Len(js)
  BY JobsFollowItself, JobsForgotten DEF Minor
<1> QED BY <1>1 DEF Minor, JobsFollow

\* A step that gives no such command.
LEMMA MoveFinds ==
    ASSUME events # <<>>, NEW q, NEW js, Minor(js), NEW s, NEW next, FireWith(q, js, s, next),
           conn # NoConn /\ conn' = NoConn => Disconnects, error => error',
           s \in Cleared => next \in Cleared,
           next \in Changing => s \in Changing \/ (Paced(Head(events)) /\ s \in Inner),
           s \in PaceStates => \/ next \in PaceStates \cup Left \cup Outer
                               \/ (~error /\ Core(Head(events))) \/ Paced(Head(events)),
           ~error' => s \in Idle \/ Core(Head(events))
    PROVE  Finds(1)
<1>1. \A k \in DOMAIN jobs' : k > Len(jobs) => jobs'[k].op \notin Serial
  BY MinorFinds DEF FireWith, Enter
<1>2. (Left \cup Outer) \cap Inner = {}
  BY DEF Left, Outer, Inner
<1> QED BY <1>1, <1>2 DEF Finds, FireWith, Enter

LEMMA StayFinds ==
    ASSUME events # <<>>, Minor(jobs'), state' = state,
           conn # NoConn /\ conn' = NoConn => Disconnects, error => error'
    PROVE  Finds(1)
BY DEF Finds, Minor

\* A command of the state that waits for its result.
LEMMA InvokeFinds ==
    ASSUME ChangeTyped, events # <<>>, NEW s, Head(events) = Run(s), NEW job, s \in Waiting[job.op],
           Invoke(Later, job), conn # NoConn, job.op = "pace" => ~error, UNCHANGED <<conn, error>>
    PROVE  Finds(1)
<1>1. Run(s).type = "run" /\ Run(s).state = s
  BY DEF Run
<1>2. jobs \in Seq(ChangeJobs) /\ jobs' = jobs \o <<job>> /\ Len(jobs') = Len(jobs) + 1
      /\ \A k \in DOMAIN jobs' : k > Len(jobs) => k = Len(jobs') /\ jobs'[k] = job
  BY DEF ChangeTyped, Invoke
<1> QED BY <1>1, <1>2 DEF Finds, Invoke

LEMMA RunsFind == ASSUME ChangeTyped, RunStep PROVE Finds(1)
<1> USE DEF Running, Fire, kept, context, rest, Core, Run, PaceStates, Changing, Cleared, Concluding, Idle,
        WaitsForUser
<1>0. events # <<>> /\ Minor(jobs) /\ Serial = CoreOps \cup {"setPin"}
  BY MinorJobs, RunKeepsAside DEF Serial
<1>1. CASE MaintainAborts
  BY <1>0, <1>1, MoveFinds DEF MaintainAborts
<1>2. CASE MaintainAfterWrongPassword \/ MaintainContinues
  BY <1>0, <1>2, MoveFinds DEF MaintainAfterWrongPassword, MaintainContinues, IsBeyondRepair
<1>3. CASE MaintainAfterCardVanished
  BY <1>0, <1>3, MoveFinds DEF MaintainAfterCardVanished, IsBeyondRepair, Disconnects
<1>4. CASE ClearPacePasswordsOnError
  <2>1. CASE state \in Inner /\ Enter(Later, jobs, "Aborted")
    <3>1. FireWith(Later, jobs, state, "Aborted") /\ Core(Head(events))
      BY <1>0, <1>4, <2>1 DEF ClearPacePasswordsOnError, ClearPasswords, FireWith, CoreOps
    <3>2. conn' = conn /\ error' = error
      BY <1>4 DEF ClearPacePasswordsOnError, ClearPasswords
    <3>3. "Aborted" \in Cleared /\ "Aborted" \notin Changing /\ "Aborted" \in Left
      BY DEF Left
    <3> HIDE DEF Core, Cleared, Changing, PaceStates
    <3> QED BY <1>0, <3>1, <3>2, <3>3, MoveFinds
  <2>2. CASE UNCHANGED <<state, jobs>>
    BY <1>0, <1>4, <2>2, StayFinds DEF ClearPacePasswordsOnError, ClearPasswords
  <2> QED BY <1>4, <2>1, <2>2 DEF ClearPacePasswordsOnError, Leave
<1>5. CASE ClearPacePasswordsBeforeDestroy
  BY <1>0, <1>5, MoveFinds DEF ClearPacePasswordsBeforeDestroy, ClearPasswords
<1>6. CASE SelectReader
  BY <1>0, <1>6, MoveFinds, StayFinds DEF SelectReader, FireWith
<1>7. CASE ConnectCard
  BY <1>0, <1>7, MinorJobs, StayFinds DEF ConnectCard
<1>8. CASE UpdateRetryCounter
  BY <1>0, <1>8, MoveFinds, InvokeFinds DEF UpdateRetryCounter, RunUpdate, Job, Waiting
<1>9. CASE VerifyRetryCounter
  BY <1>0, <1>9, MoveFinds DEF VerifyRetryCounter
<1>10. CASE PreparePace
  BY <1>0, <1>10, MoveFinds DEF PreparePace, AfterPreparePace
<1>11. CASE EnterPacePassword \/ EstablishAborts \/ UnfortunateCardPosition
  BY <1>0, <1>11, MoveFinds DEF EnterPacePassword, EstablishAborts, UnfortunateCardPosition
<1>12. CASE EstablishPaceChannel
  BY <1>0, <1>12, MoveFinds, InvokeFinds DEF EstablishPaceChannel, Job, Waiting
<1>13. CASE DestroyPace
  BY <1>0, <1>13, InvokeFinds DEF DestroyPace, RunDestroy, Job, Waiting
<1> QED
  BY <1>1, <1>2, <1>3, <1>4, <1>5, <1>6, <1>7, <1>8, <1>9, <1>10, <1>11, <1>12, <1>13 DEF RunStep

LEMMA ResultsFind == ASSUME ChangeTyped, DataTyped, ResultStep PROVE Finds(1)
<1> USE DEF Fire, kept, context, rest, machine, Core, Run, PaceStates, Changing, Cleared, Concluding, Idle,
        WaitsForUser, Arrives, Arrived, NewsTypes
<1>0. events # <<>> /\ Minor(jobs) /\ Serial = CoreOps \cup {"setPin"} /\ CoreOps = {"update", "pace", "destroy"}
  BY MinorJobs, ResultKeepsAside DEF Serial, CoreOps
<1>1. CASE ConnectSucceeds
  <2>1. Arrived.reader \in Readers
    BY <1>0, <1>1, ChangeArrivalFits DEF ConnectSucceeds, ArrivedFits, Ops
  <2>2. conn' # NoConn
    BY <1>1, <2>1, PaceAssumption DEF ConnectSucceeds, NoConn
  <2>3. CASE UNCHANGED <<state, jobs>>
    BY <1>0, <1>1, <2>2, <2>3, StayFinds DEF ConnectSucceeds
  <2>4. ASSUME NEW next \in {"MaintainCardConnection", "UpdateRetryCounter"},
               FireWith(Unsubscribed(Later), jobs, "ConnectCard", next)
        PROVE  Finds(1)
    BY <1>0, <1>1, <2>2, <2>4, MoveFinds DEF ConnectSucceeds
  <2> QED BY <1>1, <2>3, <2>4 DEF ConnectSucceeds
<1>2. CASE ConnectFails
  BY <1>0, <1>2, MoveFinds DEF ConnectFails
<1>3. CASE ConnectForgotten
  BY <1>0, <1>3, StayFinds DEF ConnectForgotten, link
<1>4. CASE UpdateDone
  BY <1>0, <1>4, MoveFinds, StayFinds DEF UpdateDone, Updated, Disconnects, Resets
<1>5. CASE DestroyDone
  BY <1>0, <1>5, MoveFinds, StayFinds DEF DestroyDone, Destroyed
<1>6. conn # NoConn => PaceFlags # NoConn
  BY FlagsKeepReader
<1>7. CASE PaceForgotten
  BY <1>0, <1>6, <1>7, StayFinds DEF PaceForgotten
<1>8. CASE PaceSucceeds
  <2>1. Paced(Head(events)) /\ Core(Head(events)) /\ error' = error /\ (conn # NoConn => conn' # NoConn)
    BY <1>0, <1>6, <1>8 DEF PaceSucceeds, Paced
  <2>2. CASE state \in Inner /\ Enter(Later, jobs, "Established")
    <3>1. FireWith(Later, jobs, state, "Established")
      BY <2>2 DEF FireWith
    <3>2. "Established" \in Left /\ state \notin Cleared
      BY <2>2 DEF Left, Inner
    <3> HIDE DEF Core, Cleared, Changing, PaceStates
    <3> QED BY <1>0, <2>1, <2>2, <3>1, <3>2, MoveFinds
  <2>3. CASE UNCHANGED <<state, armed, jobs>>
    BY <1>0, <2>1, <2>3, StayFinds
  <2>4. ASSUME NEW next \in {"ClearPacePasswordsBeforeDestroy", "MaintainCardConnection"},
               Fire(Later, "EstablishPaceChannel", next)
        PROVE  Finds(1)
    BY <1>0, <2>1, <2>4, MoveFinds
  <2> QED BY <1>8, <2>2, <2>3, <2>4 DEF PaceSucceeds, Leave
<1>9. CASE PaceRefused \/ PaceInvalidPin \/ PaceFails
  BY <1>0, <1>6, <1>9, MoveFinds DEF PaceRefused, PaceInvalidPin, PaceFails, Paced
<1>10. CASE PaceVanished
  <2>1. PICK next \in {"UnfortunateCardPosition", "MaintainCardConnection"} :
            Fire(AfterReset(Later), "EstablishPaceChannel", next)
    BY <1>10 DEF PaceVanished
  <2>2. Paced(Head(events)) /\ Core(Head(events)) /\ error' = error
    BY <1>0, <1>10 DEF PaceVanished, Paced
  <2>3. Disconnects
    BY <2>1, <2>2 DEF Disconnects, FireWith, Enter
  <2> QED BY <1>0, <2>1, <2>2, <2>3, MoveFinds
<1>11. CASE NewsArrives
  <2>1. PICK js : Minor(js) /\ \/ state = "SelectReader" /\ Enter(Later, js, "ConnectCard")
                               \/ jobs' = js /\ UNCHANGED state
    <3>1. PICK name : LET js == jobs \o (IF "ConnectCard" \in armed /\ Arrived.type = "inserted"
                                         THEN ConnectJobs(name, cache') ELSE <<>>)
                      IN  \/ state = "SelectReader" /\ Enter(Later, js, "ConnectCard")
                          \/ jobs' = js /\ UNCHANGED state
      BY <1>11 DEF NewsArrives
    <3> QED BY <3>1, MinorJobs
  <2>2. (conn # NoConn => conn' # NoConn) /\ error' = error
    <3>1. ASSUME conn # NoConn, NEW n PROVE [conn EXCEPT !.counter = n] # NoConn
      BY <3>1, PaceAssumption DEF DataTyped, Connections, NoConn
    <3> QED BY <1>11, <3>1 DEF NewsArrives, NewsTaken
  <2>3. CASE state = "SelectReader" /\ Enter(Later, js, "ConnectCard")
    BY <1>0, <2>1, <2>2, <2>3, MoveFinds DEF FireWith
  <2> QED BY <1>0, <2>1, <2>2, <2>3, StayFinds
<1> QED
  BY <1>1, <1>2, <1>3, <1>4, <1>5, <1>7, <1>8, <1>9, <1>10, <1>11 DEF ResultStep

LEMMA OuterFinds ==
    ASSUME ChangeTyped,
           \/ PrepareChangePin \/ EnterNewPacePin \/ SetEidPin \/ SetEidPinDone
           \/ ClearPasswordsFinal \/ OuterCommands \/ CleanUpReaderManager \/ FinalStateRuns
    PROVE  Finds(1)
<1> USE DEF Running, Fire, kept, context, rest, machine, Core, Run, PaceStates, Changing, Cleared, Concluding,
        Idle, WaitsForUser, Arrives, Arrived
<1>0. events # <<>> /\ Minor(jobs) /\ Serial = CoreOps \cup {"setPin"} /\ CoreOps = {"update", "pace", "destroy"}
  BY MinorJobs DEF Serial, CoreOps, PrepareChangePin, EnterNewPacePin, SetEidPin, SetEidPinDone,
     ClearPasswordsFinal, ClearPasswords, OuterCommands, RunDestroy, RunUpdate, Destroyed, Updated,
     CleanUpReaderManager, FinalStateRuns
<1>1. CASE PrepareChangePin \/ EnterNewPacePin
  BY <1>0, <1>1, MoveFinds DEF PrepareChangePin, EnterNewPacePin
<1>2. CASE SetEidPin
  BY <1>0, <1>2, InvokeFinds DEF SetEidPin, Job, Waiting
<1>3. CASE SetEidPinDone
  BY <1>0, <1>3, MoveFinds, StayFinds DEF AfterSetEidPin, SetEidPinDone
<1>4. CASE ClearPasswordsFinal
  BY <1>0, <1>4, MoveFinds DEF ClearPasswordsFinal, ClearPasswords
<1>5. CASE RunDestroy("DestroyPaceFinal") \/ Destroyed("DestroyPaceFinal", "Aborted")
  BY <1>0, <1>5, MoveFinds, StayFinds, InvokeFinds DEF RunDestroy, Destroyed, Job, Waiting
<1>6. CASE RunUpdate("UpdateRetryCounterFinal", "CleanUpReaderManager")
  BY <1>0, <1>6, MoveFinds, InvokeFinds DEF RunUpdate, Job, Waiting
<1>7. CASE Updated("UpdateRetryCounterFinal", "CleanUpReaderManager", "CleanUpReaderManager")
  BY <1>0, <1>7, MoveFinds, StayFinds DEF Updated, Disconnects, Resets
<1>8. CASE CleanUpReaderManager
  <2>1. PICK q, js : Minor(js) /\ FireWith(q, js, "CleanUpReaderManager", "Final")
    BY <1>0, <1>8, MinorJobs DEF CleanUpReaderManager, StopScan, Job, ChangeJobs, PaceTypes, Types, Secrets
  <2>2. Disconnects
    BY <1>8 DEF CleanUpReaderManager, Disconnects, Resets, Updating
  <2> QED BY <1>0, <1>8, <2>1, <2>2, MoveFinds DEF CleanUpReaderManager
<1>9. CASE FinalStateRuns
  BY <1>9 DEF FinalStateRuns, Finds, ChangeTyped
<1> QED BY <1>1, <1>2, <1>3, <1>4, <1>5, <1>6, <1>7, <1>8, <1>9 DEF OuterCommands

LEMMA BesideFinds == ASSUME ChangeTyped, Beside PROVE Finds(0)
<1>0. Minor(jobs)
  BY MinorJobs
<1>1. ASSUME JobsKept, state' # state => state \in Idle \/ error', conn' = conn, error => error',
             state' # state => /\ state' \notin Changing
                               /\ state \in Cleared => state' \in Cleared
                               /\ state \in PaceStates => state' \in PaceStates \cup Left
      PROVE  Finds(0)
  BY <1>0, <1>1, MinorFinds DEF Left, Inner, Finds, JobsKept
<1> USE DEF JobsKept, Enter, Changing, Cleared, Concluding, PaceStates, Left, Inner, Outer
<1>2. ASSUME NEW kill \in BOOLEAN, UserCancels(kill) \/ UserCancelsOutside(kill) PROVE Finds(0)
  BY <1>1, <1>2 DEF UserCancels, UserCancelsOutside, Cancel, AbortTarget, AbortTargetOutside, link
<1>3. CASE UserChangesReaders
  BY <1>1, <1>3 DEF UserChangesReaders, Idle, link, context
<1>4. CASE UNCHANGED <<state, jobs, conn, error>>
  BY <1>1, <1>4
<1> QED
  BY <1>2, <1>3, <1>4 DEF Beside, Environment, TakeCard, PutCard, UserEntersPassword, UserMovesCard,
     UserEntersNewPin, Poll, vars, machineSide, machine, context, link, untouched, kept, rest

LEMMA InitFinds == Init => FindInv
<1> SUFFICES ASSUME Init PROVE FindInv
  OBVIOUS
<1>1. /\ events = <<Run("MaintainCardConnection")>> /\ jobs = <<>>
      /\ state = "MaintainCardConnection" /\ DOMAIN events = {1} /\ DOMAIN jobs = {}
  BY DEF Init
<1>2. /\ Run("MaintainCardConnection").type = "run"
      /\ Run("MaintainCardConnection").state = "MaintainCardConnection"
      /\ \A s : s # "MaintainCardConnection" => events[1] # Run(s)
  BY <1>1 DEF Run
<1>3. KeepsConn /\ Opening
  BY <1>1, <1>2 DEF KeepsConn, Opening, Changing, Paces, Paced
<1>4. InTime
  BY <1>1, <1>2 DEF InTime
<1>5. OneAtATime
  BY <1>1, <1>2 DEF OneAtATime, Belongs
<1> QED BY <1>3, <1>4, <1>5 DEF FindInv

LEMMA StepFound == ChangeInv /\ FindInv /\ [ChangeNext]_vars => FindInv'
<1> SUFFICES ASSUME ChangeInv, FindInv, [ChangeNext]_vars PROVE FindInv'
  OBVIOUS
<1>0. ChangeTyped /\ DataTyped /\ state' \in ChangeStates
  BY StepChange DEF ChangeInv, ChangeTyped
<1>1. CASE ChangeMainThread
  <2>1. Trace(1) /\ JobsFollow(jobs, jobs')
    BY <1>1, MainOnward DEF Onward
  <2>2. Finds(1)
    BY <1>0, <1>1, RunsFind, ResultsFind, OuterFinds DEF ChangeMainThread, MainThread
  <2> QED BY <1>0, <2>1, <2>2, StepFinds
<1>2. CASE ChangeReaderThread
  BY <1>2, ThreadInChange DEF Kept
<1>3. CASE Beside
  BY <1>0, <1>3, BesideOnward, BesideFinds, StepFinds DEF Onward
<1> QED BY <1>1, <1>2, <1>3 DEF ChangeNext, Beside

\* What is under way in a PIN change never takes its connection away, whatever
\* is cancelled and whatever types of readers the user chooses.
THEOREM ConnectionIsKept == ChangeSpec => []FindInv
<1>1. ChangeInv /\ FindInv /\ [ChangeNext]_vars => FindInv'
  BY StepFound
<1> QED BY <1>1, InitFinds, ChangeInvariant, PTL DEF ChangeSpec

\* The run() calls that change the PIN and destroy its channel find the
\* connection they use without a check.
THEOREM ChangeFindsItsCard == ChangeSpec => []ChangeFindsCard
<1>1. ChangeInv /\ FindInv => ChangeFindsCard
  <2> SUFFICES ASSUME ChangeInv, FindInv, Running("ChangePin") \/ Running("DestroyPaceFinal")
               PROVE  conn # NoConn
    BY DEF ChangeFindsCard
  <2>1. 1 \in DOMAIN events /\ events[1] \in {Run("ChangePin"), Run("DestroyPaceFinal")}
    BY DEF Running, ChangeInv, ChangeTyped
  <2> QED BY <2>1 DEF FindInv, InTime
<1> QED BY <1>1, ChangeInvariant, ConnectionIsKept, PTL

\* In a PIN change, too, the composite state is left for success only with a
\* card that has accepted its password, here whatever the types of the readers.
THEOREM ChangeEstablishedByCard == ChangeSpec => EstablishedByCard
<1> DEFINE Opened == state' = "Established" /\ state # "Established"
                        => conn' # NoConn /\ (conn'.pin \/ (CanAllowed /\ conn'.can))
<1>1. ChangeInv /\ FindInv /\ [ChangeNext]_vars => Opened
  <2> SUFFICES ASSUME ChangeInv, FindInv, [ChangeNext]_vars, state' = "Established",
                      state # "Established"
               PROVE  conn' # NoConn /\ (conn'.pin \/ (CanAllowed /\ conn'.can))
    OBVIOUS
  <2>1. ~(PrepareChangePin \/ EnterNewPacePin \/ SetEidPin \/ SetEidPinDone
          \/ ClearPasswordsFinal \/ OuterCommands \/ CleanUpReaderManager \/ FinalStateRuns)
    BY DEF PrepareChangePin, EnterNewPacePin, SetEidPin, SetEidPinDone, AfterSetEidPin,
       ClearPasswordsFinal, OuterCommands, RunDestroy, RunUpdate, Destroyed, Updated,
       CleanUpReaderManager, FinalStateRuns, Fire, FireWith, Enter, Invoke, machine
  <2>2. ~ChangeReaderThread
    BY ThreadInChange DEF Kept
  <2>3. ~(UserEntersNewPin \/ UNCHANGED vars) /\ (\A r \in Readers : ~Poll(r))
        /\ \A kill \in BOOLEAN : ~UserCancelsOutside(kill)
    BY DEF UserEntersNewPin, Approve, untouched, rest, UserCancelsOutside, Cancel, Enter,
       AbortTargetOutside, Poll, machineSide, machine, vars
  <2>4. PaceSucceeds
    BY <2>1, <2>2, <2>3, OnlyPaceEstablishes DEF ChangeNext, ChangeMainThread, MainThread
  <2>5. Paced(Head(events)) /\ 1 \in DOMAIN events /\ events[1] = Head(events) /\ state \in Inner
    BY <2>4 DEF PaceSucceeds, Arrives, Arrived, Paced, ChangeInv, ChangeTyped, Leave, Fire, FireWith,
       Enter
  <2>6. conn # NoConn
    BY <2>5 DEF FindInv, Opening, Paces
  <2> QED BY <2>4, <2>6, OpenedByCard DEF ChangeInv
<1> QED BY <1>1, ChangeInvariant, ConnectionIsKept, PTL DEF ChangeSpec, EstablishedByCard
=============================================================================
