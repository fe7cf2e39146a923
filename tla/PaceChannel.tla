----------------------------- MODULE PaceChannel -----------------------------
(***************************************************************************)
(* The state machine that opens a PACE channel to an ID card:              *)
(* src/workflows/base/states/CompositeStatePace.cpp and the states it      *)
(* consists of, with the parts of WorkflowContext, CardConnection, Reader  *)
(* and the card commands they work on.                                     *)
(*                                                                         *)
(* Two threads take part.  The main thread works off one event queue       *)
(* ("events"): the run() of an approved state (a queued signal), news of   *)
(* the readers and results of card commands.  The reader thread executes   *)
(* card commands ("jobs") and posts what comes of them.  The main thread   *)
(* works with copies: the ReaderManager's cache and the ReaderInfo of the  *)
(* CardConnection, both as old as the last event it has processed.         *)
(*                                                                         *)
(* A card stands for itself and for its CAN, PUK and first PIN: entering   *)
(* the secret of another card is entering a wrong one.                     *)
(*                                                                         *)
(* The workflow around it begins to run its own states when "state" is     *)
(* Established or Aborted: see ChangePin for one that comes back.          *)
(***************************************************************************)
EXTENDS Integers, Sequences, FiniteSetsExt

CONSTANTS
    Readers,            \* numbered in the order of their names
    Cards, NoCard, NoReader,
    BasicReaders,       \* readers without a keypad
    TransportCards,     \* cards whose PIN is still the transport PIN (5 digits)
    Deactivated,        \* cards whose online function is deactivated
    CanAllowed,         \* WorkflowContext::isCanAllowedMode
    IsAuth,             \* the context is an AuthContext
    UsedAsSDK,          \* VolatileSettings::isUsedAsSDK
    TypesFixed,         \* the user cannot change the types of readers to use
    RepositionLimit,    \* 10 in isNpaRepositioningRequired
    InitialTries,       \* retry counters the cards start with
    MaxMoves,           \* bound: cards moved, types of readers changed
    MaxFailures,        \* bound: failures of the communication with a card
    MaxCancels          \* bound: cancellations by the user

ASSUME PaceAssumption ==
    /\ Readers \subseteq Nat /\ BasicReaders \subseteq Readers
    /\ TransportCards \subseteq Cards /\ Deactivated \subseteq Cards
    /\ {NoCard, "dead"} \cap Cards = {} /\ NoReader \notin Readers
    /\ {CanAllowed, IsAuth, UsedAsSDK, TypesFixed} \subseteq BOOLEAN
    /\ InitialTries \subseteq 0..3
    /\ RepositionLimit \in Nat \ {0}
    /\ {MaxMoves, MaxFailures, MaxCancels} \subseteq Nat

NoConn   == [reader |-> NoReader]
Unknown  == -1                        \* UNDEFINED_RETRY_COUNTER
Tries    == 0..3
Counters == {Unknown} \cup Tries
Secrets  == Cards \cup {NoCard}       \* a card or a secret, or none
Types    == {"CAN", "PIN", "PUK"}
\* The context of a PIN change remembers a new PIN too.
NoPasswords == [t \in Types \cup {"NEW"} |-> NoCard]

Inner == {"MaintainCardConnection", "ClearPacePasswordsOnError", "SelectReader",
          "ConnectCard", "UpdateRetryCounter", "VerifyRetryCounter",
          "PreparePace", "UnfortunateCardPosition", "EnterPacePassword",
          "EstablishPaceChannel", "ClearPacePasswordsBeforeDestroy",
          "DestroyPace"}
Left == {"Established", "Aborted"}

\* Every user interface approves a state as soon as it is entered, but for
\* those in which it asks the user for something.
WaitsForUser == {"EnterPacePassword", "UnfortunateCardPosition", "EnterNewPacePin"}

WrongPassword == {"INVALID_CAN", "INVALID_PIN", "INVALID_PIN_2",
                  "INVALID_PIN_3", "INVALID_PUK", "PIN_NOT_BLOCKED",
                  "PIN_BLOCKED", "NEW_PIN_MISMATCH", "NEW_PIN_INVALID_LENGTH"}
Unrecoverable == {"CANCELLATION_BY_USER", "PUK_INOPERATIVE",
                  "NO_ACTIVE_PIN_SET", "COMMAND_FAILED"}
\* CARD_NOT_FOUND stands for RETRY_ALLOWED too, and COMMAND_FAILED for the
\* other errors nothing can be done about.
Codes == {"OK", "OK_PUK", "CARD_NOT_FOUND"} \cup WrongPassword \cup Unrecoverable

Run(s) == [type |-> "run", state |-> s]
News(t, r, c, i, s) ==
    [type |-> t, reader |-> r, card |-> c, counter |-> i, subscribed |-> s]
Done(o, r, p, c, w) ==
    [type |-> o, reader |-> r, password |-> p, code |-> c, wanted |-> w]
Job(o, r, p, s) ==
    [op |-> o, reader |-> r, password |-> p, secret |-> s, wanted |-> TRUE]

NewsTypes == {"inserted", "removed", "retryCounter"}
Ops       == {"connect", "update", "pace", "destroy"}
Connections == {NoConn} \cup
    [reader : Readers, counter : Counters, can : BOOLEAN, pin : BOOLEAN]

VARIABLES
    state,              \* the active state
    armed,              \* states connected to the signals of the ReaderManager
    events,             \* event queue of the main thread
    jobs,               \* commands the reader thread has yet to execute
    pw,                 \* mCan, mPin, mPuk, mNewPin of the context
    pwType,             \* mEstablishPaceChannelType, or "UNKNOWN"
    expected,           \* mExpectedReader: its name and retry counter
    lastPace,           \* mLastPaceResult
    error,              \* mStatus is an error
    killed,             \* mWorkflowKilled
    conn,               \* mCardConnection
    readerName,         \* mReaderName
    vanished,           \* mCardVanishedDuringPacePinCount
    cache,              \* ReaderManager's cache: the card of each reader
    seen,               \* the Reader has noticed a card
    info,               \* retry counter in the ReaderInfo of each Reader
    session,            \* what the connection to each reader's card leads to
    opened,             \* the password each reader's card has accepted last
    slot,               \* the card that lies on each reader
    counter,            \* retry counter of each card
    pin,                \* PIN of each card
    renewed,            \* observes which cards have accepted a new PIN (ChangePin)
    moves, failures, cancels

machine == <<state, armed, jobs>>
context == <<pw, pwType, expected, lastPace, error>>
link    == <<conn, readerName, vanished>>
reader  == <<seen, info, session, opened>>
world   == <<slot, counter, pin, renewed, moves, failures>>
vars == <<machine, events, context, killed, link, cache, reader, world, cancels>>

Password(type) == IF type \in Types THEN pw[type] ELSE NoCard

Init ==
    /\ state = "MaintainCardConnection" /\ armed = {}
    /\ events = <<Run("MaintainCardConnection")>> /\ jobs = <<>>
    /\ pw = NoPasswords /\ pwType = "UNKNOWN"
    /\ expected = [reader |-> NoReader, counter |-> Unknown]
    /\ lastPace = "OK" /\ error = FALSE /\ killed = FALSE
    /\ conn = NoConn /\ readerName = NoReader /\ vanished = 0
    /\ slot \in [Readers -> Secrets] /\ counter \in [Cards -> InitialTries]
    /\ pin = [c \in Cards |-> c] /\ renewed = {}
    /\ \A r, q \in Readers : slot[r] = slot[q] => r = q \/ slot[r] = NoCard
    /\ cache = slot /\ seen = [r \in Readers |-> slot[r] # NoCard]
    /\ info = [r \in Readers |-> IF slot[r] = NoCard THEN Unknown ELSE counter[slot[r]]]
    /\ session = [r \in Readers |-> NoCard] /\ opened = [r \in Readers |-> "none"]
    /\ moves = 0 /\ failures = 0 /\ cancels = 0
-----------------------------------------------------------------------------
(* The state machine *)

\* The states that wait for the result of a command.
Waiting == [connect |-> {"ConnectCard"},
            update  |-> {"UpdateRetryCounter", "UpdateRetryCounterFinal"},
            pace    |-> {"EstablishPaceChannel"},
            destroy |-> {"DestroyPace", "DestroyPaceFinal"},
            setPin  |-> {"ChangePin"},
            stopScan |-> {}]

\* AbstractState::onExit disconnects the state from the commands it still
\* waits for.  Results of card commands that are in the event queue already
\* are delivered nevertheless.  The result of a connect is passed on by an
\* object of the main thread and is not.
Forgotten(js, s) ==
    [i \in DOMAIN js |-> IF s \in Waiting[js[i].op] THEN [js[i] EXCEPT !.wanted = FALSE]
                         ELSE js[i]]
Undelivered(queue, s) ==
    [i \in DOMAIN queue |->
        IF queue[i].type = "connect" /\ s = "ConnectCard"
        THEN [queue[i] EXCEPT !.wanted = FALSE] ELSE queue[i]]

MutEnter(queue, js, s) ==              \* faulty: a killed workflow asks the user
    /\ state' = s
    /\ armed' = armed \ {state}
    /\ jobs' = Forgotten(js, state)
    /\ events' = Undelivered(queue, state) \o
                     (IF s \in WaitsForUser THEN <<>> ELSE <<Run(s)>>)

\* A state is entered: its run() follows in an event of its own.  "queue" and
\* "js" are what the queues hold by then.
Enter(queue, js, s) ==
    LET left == Undelivered(queue, state)
    IN  /\ state' = s
        /\ armed' = armed \ {state}
        /\ jobs' = Forgotten(js, state)
        /\ events' = IF s \in WaitsForUser /\ ~killed THEN left
                     ELSE Append(left, Run(s))

MutFireWith(queue, js, s, next) == Enter(queue, js, next)  \* faulty: of any state

\* A state signals its end: without effect when it is not the active one.
FireWith(queue, js, s, next) ==
    IF state = s THEN Enter(queue, js, next)
    ELSE UNCHANGED <<state, armed>> /\ jobs' = js /\ events' = queue
Fire(queue, s, next) == FireWith(queue, jobs, s, next)

\* A signal of the composite state itself: it is active with any inner state.
Leave(queue, next) ==
    IF state \in Inner THEN Enter(queue, jobs, next)
    ELSE UNCHANGED <<state, armed, jobs>> /\ events' = queue

\* run() invokes a card command and waits for its result.
Invoke(queue, job) ==
    /\ jobs' = Append(jobs, job)
    /\ events' = queue
    /\ UNCHANGED <<state, armed>>

\* run() of state s is the next event.
Running(s) == events # <<>> /\ Head(events) = Run(s)
Later == Tail(events)

\* PCSC readers notice cards when they are polled.  A card exchanged between
\* two polls goes unnoticed.
MutNoticed(r) == ~seen[r] /\ slot[r] # NoCard    \* faulty: removals are missed
Noticed(r) == seen[r] # (slot[r] # NoCard)
Subscribed(r) == conn # NoConn /\ conn.reader = r
PolledNews(r, subscribed) ==
    IF ~Noticed(r) THEN <<>>
    ELSE IF slot[r] # NoCard
    THEN <<News("inserted", r, slot[r], counter[slot[r]], subscribed)>>
    ELSE <<News("removed", r, NoCard, Unknown, subscribed)>>
PolledInfo(r) == IF slot[r] = NoCard THEN Unknown ELSE counter[slot[r]]

\* News the CardConnection does not live to receive.
Unsubscribed(queue) ==
    [i \in DOMAIN queue |->
        IF queue[i].type \in NewsTypes THEN [queue[i] EXCEPT !.subscribed = FALSE]
        ELSE queue[i]]

\* ~CardConnectionWorker disconnects the card of its reader.
Disconnected(rs) == [r \in Readers |-> IF r \in rs THEN NoCard ELSE session[r]]
Closed(rs) == [r \in Readers |-> IF r \in rs THEN "none" ELSE opened[r]]
Held == IF conn = NoConn THEN {} ELSE {conn.reader}

\* WorkflowContext::resetCardConnection drops the connection and has the
\* reader polled, which blocks until the reader thread has done its jobs.
PolledReaders == {r \in {readerName} \cap Readers : Noticed(r)}
ResetCardConnection ==
    /\ jobs = <<>>
    /\ conn' = NoConn
    /\ session' = Disconnected(Held \cup PolledReaders)
    /\ opened' = Closed(Held \cup PolledReaders)
    /\ seen' = [r \in Readers |-> IF r \in PolledReaders THEN slot[r] # NoCard ELSE seen[r]]
    /\ info' = [r \in Readers |-> IF r \in PolledReaders THEN PolledInfo(r) ELSE info[r]]
AfterReset(queue) ==
    Unsubscribed(queue) \o
        (IF readerName \in Readers THEN PolledNews(readerName, FALSE) ELSE <<>>)
-----------------------------------------------------------------------------
(* run() of the states.  "rest" is what no run() changes. *)

rest == <<killed, cache, slot, counter, pin, renewed, moves, failures, cancels>>
readerSide == <<seen, info, session, opened>>
kept == <<rest, readerSide, vanished>>

\* StateMaintainCardConnection::run, one action per branch.
MutIsBeyondRepair == lastPace \in Unrecoverable  \* faulty: the error is not looked at
IsBeyondRepair == error \/ lastPace \in Unrecoverable

MaintainAborts ==
    /\ Running("MaintainCardConnection") /\ IsBeyondRepair
    /\ error' = TRUE
    /\ Fire(Later, "MaintainCardConnection", "ClearPacePasswordsOnError")
    /\ UNCHANGED <<kept, pw, pwType, expected, lastPace, conn, readerName>>

\* Faulty: the retry counter is not fetched again.
MutMaintainAfterWrongPassword ==
    /\ Running("MaintainCardConnection") /\ ~IsBeyondRepair
    /\ lastPace \in WrongPassword
    /\ pw' = NoPasswords /\ lastPace' = "OK"
    /\ Fire(Later, "MaintainCardConnection",
            IF conn # NoConn THEN "VerifyRetryCounter" ELSE "SelectReader")
    /\ UNCHANGED <<kept, pwType, expected, error, conn, readerName>>

MaintainAfterWrongPassword ==
    /\ Running("MaintainCardConnection") /\ ~IsBeyondRepair
    /\ lastPace \in WrongPassword
    /\ pw' = NoPasswords
    /\ Fire(Later, "MaintainCardConnection",
            IF conn # NoConn THEN "UpdateRetryCounter" ELSE "SelectReader")
    /\ UNCHANGED <<kept, pwType, expected, lastPace, error, conn, readerName>>

MaintainAfterCardVanished ==
    /\ Running("MaintainCardConnection") /\ ~IsBeyondRepair
    /\ lastPace = "CARD_NOT_FOUND"
    /\ lastPace' = "OK"
    /\ ResetCardConnection
    /\ Fire(AfterReset(Later), "MaintainCardConnection", "SelectReader")
    /\ UNCHANGED <<rest, pw, pwType, expected, error, readerName, vanished>>

MaintainContinues ==
    /\ Running("MaintainCardConnection") /\ ~IsBeyondRepair
    /\ lastPace \in {"OK", "OK_PUK"}
    /\ lastPace' = "OK"
    /\ Fire(Later, "MaintainCardConnection",
            IF lastPace = "OK_PUK" THEN "UpdateRetryCounter"
            ELSE IF conn = NoConn THEN "SelectReader" ELSE "VerifyRetryCounter")
    /\ UNCHANGED <<kept, pw, pwType, expected, error, conn, readerName>>

\* StateClearPacePasswords::run
ClearPasswords(s) ==
    /\ Running(s)
    /\ pw' = NoPasswords
    /\ UNCHANGED <<kept, pwType, expected, lastPace, error, conn, readerName>>
ClearPacePasswordsOnError ==
    ClearPasswords("ClearPacePasswordsOnError") /\ Leave(Later, "Aborted")
ClearPacePasswordsBeforeDestroy ==
    /\ ClearPasswords("ClearPacePasswordsBeforeDestroy")
    /\ Fire(Later, "ClearPacePasswordsBeforeDestroy", "DestroyPace")

\* StateSelectReader::onReaderInfoChanged takes the first reader with a card;
\* the cache is ordered by name.
Selectable(known) == {r \in Readers : known[r] # NoCard}
First(known) == Min(Selectable(known))
SelectReader ==
    /\ Running("SelectReader")
    /\ IF Selectable(cache) = {}
       THEN /\ armed' = armed \cup {"SelectReader"} /\ events' = Later
            /\ UNCHANGED <<state, jobs, readerName>>
       ELSE /\ readerName' = First(cache)
            /\ IF state = "SelectReader" THEN Enter(Later, jobs, "ConnectCard")
               ELSE /\ armed' = armed \cup {"SelectReader"} /\ events' = Later
                    /\ UNCHANGED <<state, jobs>>
    /\ UNCHANGED <<kept, context, conn>>

\* StateConnectCard::onCardInserted
ConnectJobs(name, known) ==
    IF name \in Readers /\ known[name] # NoCard
    THEN <<Job("connect", name, "PIN", NoCard)>> ELSE <<>>
ConnectCard ==
    /\ Running("ConnectCard")
    /\ armed' = armed \cup {"ConnectCard"}
    /\ jobs' = jobs \o ConnectJobs(readerName, cache)
    /\ events' = Later
    /\ UNCHANGED <<kept, state, context, conn, readerName>>

\* StateUpdateRetryCounter::run.  "s" is the state, "lost" where it aborts to.
RunUpdate(s, lost) ==
    /\ Running(s)
    /\ IF conn = NoConn
       THEN Fire(Later, s, lost)
       ELSE Invoke(Later, Job("update", conn.reader, "PIN", NoCard))
    /\ UNCHANGED <<kept, context, conn, readerName>>
UpdateRetryCounter == RunUpdate("UpdateRetryCounter", "MaintainCardConnection")

\* StateVerifyRetryCounter::run forgets the passwords when the reader or the
\* retry counter is not the one they were entered for.
CardIsExpected == expected.reader = readerName /\ expected.counter = conn.counter
VerifyRetryCounter ==
    /\ Running("VerifyRetryCounter")
    /\ IF conn = NoConn
       THEN /\ Fire(Later, "VerifyRetryCounter", "MaintainCardConnection")
            /\ UNCHANGED <<pw, expected>>
       ELSE /\ Fire(Later, "VerifyRetryCounter", "PreparePace")
            /\ pw' = IF CardIsExpected THEN pw ELSE NoPasswords
            /\ expected' = IF CardIsExpected /\ expected.counter # Unknown THEN expected
                           ELSE [reader |-> conn.reader, counter |-> conn.counter]
    /\ UNCHANGED <<kept, pwType, lastPace, error, conn, readerName>>

\* The password StatePreparePace::run requires.
MutRequiredPassword ==                 \* faulty: the last try is not guarded
    IF CanAllowed THEN "CAN" ELSE IF conn.counter = 0 THEN "PUK" ELSE "PIN"
RequiredPassword ==
    IF CanAllowed THEN "CAN"
    ELSE IF conn.counter = 0 THEN "PUK"
    ELSE IF conn.counter = 1 /\ ~conn.can THEN "CAN"
    ELSE "PIN"

\* Where StatePreparePace::run goes on with a connection.
MutAfterPreparePace ==                 \* faulty: looks for the wrong password
    IF pw["PIN"] = NoCard THEN "EnterPacePassword" ELSE "EstablishPaceChannel"
AfterPreparePace ==
    IF CanAllowed /\ conn.can THEN "MaintainCardConnection"
    ELSE IF Password(RequiredPassword) = NoCard THEN "EnterPacePassword"
    ELSE "EstablishPaceChannel"
PreparePace ==
    /\ Running("PreparePace")
    /\ IF conn = NoConn
       THEN /\ pwType' = "UNKNOWN"
            /\ Fire(Later, "PreparePace", "MaintainCardConnection")
       ELSE /\ pwType' = RequiredPassword
            /\ Fire(Later, "PreparePace", AfterPreparePace)
    /\ UNCHANGED <<kept, pw, expected, lastPace, error, conn, readerName>>

EnterPacePassword ==
    /\ Running("EnterPacePassword")
    /\ Fire(Later, "EnterPacePassword",
            IF error THEN "MaintainCardConnection" ELSE "EstablishPaceChannel")
    /\ UNCHANGED <<kept, context, conn, readerName>>

\* StateEstablishPaceChannel::run
IsTransportPin == IsAuth /\ pwType = "PIN" /\ pw["PIN"] \in TransportCards
LacksPassword == conn.reader \in BasicReaders /\ Password(pwType) = NoCard

EstablishAborts ==
    /\ Running("EstablishPaceChannel")
    /\ error \/ IsTransportPin
    /\ lastPace' = IF error THEN lastPace ELSE "NO_ACTIVE_PIN_SET"
    /\ error' = TRUE
    /\ Fire(Later, "EstablishPaceChannel", "MaintainCardConnection")
    /\ UNCHANGED <<kept, pw, pwType, expected, conn, readerName>>

\* Without a connection or a password it goes back.
EstablishPaceChannel ==
    /\ Running("EstablishPaceChannel") /\ ~error /\ ~IsTransportPin
    /\ IF conn = NoConn \/ LacksPassword
       THEN /\ pw' = IF conn = NoConn THEN pw ELSE NoPasswords
            /\ lastPace' = "OK"
            /\ Fire(Later, "EstablishPaceChannel", "MaintainCardConnection")
       ELSE /\ Invoke(Later, Job("pace", conn.reader, pwType, Password(pwType)))
            /\ UNCHANGED <<pw, lastPace>>
    /\ UNCHANGED <<kept, pwType, expected, error, conn, readerName>>

UnfortunateCardPosition ==
    /\ Running("UnfortunateCardPosition")
    /\ vanished' = 0
    /\ Fire(Later, "UnfortunateCardPosition", "MaintainCardConnection")
    /\ UNCHANGED <<rest, readerSide, context, conn, readerName>>

\* Without a connection the code would use a null pointer: see DestroyFindsCard.
RunDestroy(s) ==
    /\ Running(s) /\ conn # NoConn
    /\ Invoke(Later, Job("destroy", conn.reader, "PIN", NoCard))
    /\ UNCHANGED <<kept, context, conn, readerName>>
DestroyPace == RunDestroy("DestroyPace")

\* run() of the state of the surrounding workflow that comes next.
NextStateRuns ==
    /\ events # <<>> /\ Head(events) \in {Run(s) : s \in Left}
    /\ events' = Later
    /\ UNCHANGED <<machine, kept, context, conn, readerName>>

RunStep ==
    \/ MaintainAborts \/ MaintainAfterWrongPassword
    \/ MaintainAfterCardVanished \/ MaintainContinues
    \/ ClearPacePasswordsOnError \/ ClearPacePasswordsBeforeDestroy
    \/ SelectReader \/ ConnectCard \/ UpdateRetryCounter \/ VerifyRetryCounter
    \/ PreparePace \/ EnterPacePassword \/ EstablishAborts
    \/ EstablishPaceChannel \/ UnfortunateCardPosition \/ DestroyPace
-----------------------------------------------------------------------------
(* Results of commands and news of the readers reach the main thread. *)

Arrives(type) == events # <<>> /\ Head(events).type = type
Arrived == Head(events)

\* A connection tells every command that waits for one: the result of an old
\* command is taken for that of the command the state waits for.
IsAwaited ==
    \/ \E i \in DOMAIN events : events[i].type = "connect" /\ events[i].wanted
    \/ \E i \in DOMAIN jobs : jobs[i].op = "connect" /\ jobs[i].wanted

ConnectSucceeds ==
    /\ Arrives("connect") /\ IsAwaited /\ Arrived.code = "OK"
    /\ jobs = <<>>          \* the constructor of the CardConnection blocks
    /\ conn' = [reader |-> Arrived.reader, counter |-> info[Arrived.reader],
                can |-> FALSE, pin |-> FALSE]
    /\ session' = Disconnected(Held) /\ opened' = Closed(Held)
    /\ LET deactivated == readerName \in Readers /\ cache[readerName] \in Deactivated
                              /\ ~CanAllowed
           queue == Unsubscribed(Later)
       IN  /\ error' = (error \/ (deactivated /\ ~UsedAsSDK))
           /\ IF deactivated /\ UsedAsSDK
              THEN UNCHANGED <<state, armed, jobs>> /\ events' = queue
              ELSE Fire(queue, "ConnectCard", IF deactivated THEN "MaintainCardConnection"
                                              ELSE "UpdateRetryCounter")
    /\ UNCHANGED <<rest, seen, info, vanished, pw, pwType, expected, lastPace, readerName>>

ConnectFails ==
    /\ Arrives("connect") /\ IsAwaited /\ Arrived.code # "OK"
    /\ Fire(Later, "ConnectCard", "MaintainCardConnection")
    /\ UNCHANGED <<kept, context, conn, readerName>>

\* A connection nobody waits for any more is closed.
ConnectForgotten ==
    /\ Arrives("connect") /\ ~IsAwaited
    /\ events' = Later
    /\ LET closed == IF Arrived.code = "OK" THEN {Arrived.reader} ELSE {}
       IN  session' = Disconnected(closed) /\ opened' = Closed(closed)
    /\ UNCHANGED <<rest, machine, context, link, seen, info>>

\* StateUpdateRetryCounter::onUpdateRetryCounterDone
Updated(s, next, lost) ==
    /\ Arrives("update")
    /\ IF Arrived.code = "OK" \/ ~Arrived.wanted
       THEN /\ IF Arrived.wanted THEN Fire(Later, s, next)
               ELSE UNCHANGED machine /\ events' = Later
            /\ UNCHANGED <<readerSide, conn>>
       ELSE /\ ResetCardConnection
            /\ Fire(AfterReset(Later), s, lost)
    /\ UNCHANGED <<rest, context, vanished, readerName>>
UpdateDone ==
    Updated("UpdateRetryCounter", "VerifyRetryCounter", "MaintainCardConnection")

\* StateDestroyPace::onDestroyPaceDone
Destroyed(s, next) ==
    /\ Arrives("destroy")
    /\ IF Arrived.wanted THEN Fire(Later, s, next) ELSE UNCHANGED machine /\ events' = Later
    /\ UNCHANGED <<kept, context, conn, readerName>>
DestroyDone == Destroyed("DestroyPace", "MaintainCardConnection")

\* The CardConnection remembers which passwords the card has accepted.
MutFlagsDropped ==                     \* faulty: a wrong PIN ends the connection
    IF conn = NoConn \/ Arrived.code # "OK" THEN NoConn
    ELSE IF Arrived.password = "CAN" THEN [conn EXCEPT !.can = TRUE]
    ELSE [conn EXCEPT !.pin = Arrived.password = "PIN"]
PaceFlags ==
    LET ok == Arrived.code = "OK"
    IN  IF conn = NoConn \/ Arrived.password \notin {"CAN", "PIN"} THEN conn
        ELSE IF Arrived.password = "CAN" THEN [conn EXCEPT !.can = ok]
        ELSE [conn EXCEPT !.pin = ok, !.can = ok /\ conn.can]

PaceForgotten ==
    /\ Arrives("pace") /\ ~Arrived.wanted
    /\ conn' = PaceFlags
    /\ events' = Later
    /\ UNCHANGED <<kept, machine, context, readerName>>

\* StateEstablishPaceChannel::onEstablishConnectionDone, by return code.  The
\* signal of an established channel is that of the composite state and takes
\* effect whichever of the inner states is active.
MutOpensChannel(password) == password # "PUK"   \* faulty: any CAN will do
OpensChannel(password) == password = "PIN" \/ (password = "CAN" /\ CanAllowed)
PaceSucceeds ==
    /\ Arrives("pace") /\ Arrived.wanted /\ Arrived.code = "OK"
    /\ conn' = PaceFlags
    /\ vanished' = 0
    /\ LET password == Arrived.password
       IN  /\ lastPace' = IF password = "PUK" THEN "OK_PUK" ELSE "OK"
           /\ pw' = IF password = "PUK" THEN NoPasswords ELSE pw
           /\ expected' = [expected EXCEPT !.counter =
                              CASE password = "PIN" -> 3
                                [] password = "PUK" -> Unknown
                                [] OTHER            -> @]
           /\ IF OpensChannel(password)
              THEN Leave(Later, "Established")
              ELSE Fire(Later, "EstablishPaceChannel",
                        IF password = "PUK" THEN "ClearPacePasswordsBeforeDestroy"
                        ELSE "MaintainCardConnection")
    /\ UNCHANGED <<rest, readerSide, pwType, error, readerName>>

PaceRefused ==
    /\ Arrives("pace") /\ Arrived.wanted /\ Arrived.code \in Unrecoverable \ {"COMMAND_FAILED"}
    /\ conn' = PaceFlags
    /\ vanished' = 0
    /\ lastPace' = Arrived.code /\ error' = TRUE
    /\ Fire(Later, "EstablishPaceChannel", "MaintainCardConnection")
    /\ UNCHANGED <<rest, readerSide, pw, pwType, expected, readerName>>

\* The retry counter from before the attempt tells which attempt it was.
Attempt(before) ==
    CASE before = 2 -> "INVALID_PIN_2" [] before = 1 -> "INVALID_PIN_3"
      [] OTHER -> "INVALID_PIN"
PaceInvalidPin ==
    /\ Arrives("pace") /\ Arrived.wanted /\ Arrived.code = "INVALID_PIN"
    /\ conn # NoConn
    /\ conn' = PaceFlags
    /\ vanished' = 0
    /\ lastPace' = Attempt(conn.counter)
    /\ Fire(Later, "EstablishPaceChannel", "ClearPacePasswordsBeforeDestroy")
    /\ UNCHANGED <<rest, readerSide, pw, pwType, expected, error, readerName>>

\* Any other failure.  Whether the card vanished for the second time more than
\* four seconds ago is open.
RepositioningRequired(n) ==
    IF n >= RepositionLimit THEN {TRUE} ELSE IF n >= 3 THEN BOOLEAN ELSE {FALSE}
PaceFails ==
    /\ Arrives("pace") /\ Arrived.wanted
    /\ Arrived.code \in {"COMMAND_FAILED", "INVALID_CAN", "INVALID_PUK",
                         "PIN_NOT_BLOCKED", "PIN_BLOCKED"}
    /\ conn' = PaceFlags
    /\ vanished' = 0
    /\ lastPace' = Arrived.code
    /\ Fire(Later, "EstablishPaceChannel", "MaintainCardConnection")
    /\ UNCHANGED <<rest, readerSide, pw, pwType, expected, error, readerName>>

PaceVanished ==
    /\ Arrives("pace") /\ Arrived.wanted /\ Arrived.code = "CARD_NOT_FOUND"
    /\ ResetCardConnection
    /\ vanished' = vanished + 1
    /\ lastPace' = "CARD_NOT_FOUND"
    /\ \E reposition \in RepositioningRequired(vanished + 1) :
           Fire(AfterReset(Later), "EstablishPaceChannel",
                IF reposition THEN "UnfortunateCardPosition" ELSE "MaintainCardConnection")
    /\ UNCHANGED <<rest, pw, pwType, expected, error, readerName>>

\* News of a reader: the cache is brought up to date, the CardConnection takes
\* over its ReaderInfo, and the states that are connected select a reader and
\* connect its card.  Which of the two acts first depends on their history.
NewsTaken(e) ==
    /\ cache' = [cache EXCEPT ![e.reader] = e.card]
    /\ conn' = IF e.subscribed /\ Subscribed(e.reader)
               THEN [conn EXCEPT !.counter = e.counter] ELSE conn
NewsArrives ==
    LET e == Arrived
        selects == "SelectReader" \in armed /\ e.type # "retryCounter"
                       /\ Selectable(cache') # {}
        connects == "ConnectCard" \in armed /\ e.type = "inserted"
    IN  /\ events # <<>> /\ e.type \in NewsTypes
        /\ NewsTaken(e)
        /\ IF selects THEN readerName' = First(cache') ELSE UNCHANGED readerName
        /\ \E name \in {readerName, readerName'} :
               LET js == jobs \o (IF connects THEN ConnectJobs(name, cache') ELSE <<>>)
               IN  IF selects /\ state = "SelectReader" THEN Enter(Later, js, "ConnectCard")
                  ELSE /\ jobs' = js /\ events' = Later
                       /\ UNCHANGED <<state, armed>>
        /\ UNCHANGED <<killed, slot, counter, pin, renewed, moves, failures, cancels,
                       readerSide, context, vanished>>

ResultStep ==
    \/ ConnectSucceeds \/ ConnectFails \/ ConnectForgotten
    \/ UpdateDone \/ DestroyDone
    \/ PaceForgotten \/ PaceSucceeds \/ PaceRefused \/ PaceInvalidPin
    \/ PaceFails \/ PaceVanished \/ NewsArrives

MainThread == RunStep \/ ResultStep
-----------------------------------------------------------------------------
(* The reader thread executes the commands. *)

Executing(op) == jobs # <<>> /\ Head(jobs).op = op
Command == Head(jobs)
mainSide == <<state, armed, context, killed, link, cache, cancels>>

\* The command is done: its result is posted.
Report(news, code) ==
    /\ jobs' = Tail(jobs)
    /\ events' = events \o news \o
           <<Done(Command.op, Command.reader, Command.password, code, Command.wanted)>>
    /\ UNCHANGED mainSide

Succeeding == UNCHANGED failures
Failing    == failures < MaxFailures /\ failures' = failures + 1

\* Reader::createCardConnectionWorker
Connectable(r) == seen[r] /\ session[r] = NoCard /\ slot[r] # NoCard
ExecuteConnect ==
    /\ Executing("connect")
    /\ LET r == Command.reader
       IN  \/ /\ Connectable(r) /\ Succeeding
              /\ session' = [session EXCEPT ![r] = slot[r]]
              /\ Report(<<>>, "OK")
           \/ /\ IF Connectable(r) THEN Failing ELSE Succeeding
              /\ UNCHANGED session
              /\ Report(<<>>, "COMMAND_FAILED")
    /\ UNCHANGED <<seen, info, opened, slot, counter, pin, renewed, moves>>

\* Reader::updateRetryCounter
Alive(r) == session[r] \in Cards
ExecuteUpdate ==
    /\ Executing("update")
    /\ LET r == Command.reader
           tries == counter[session[r]]
           changed == info[r] # Unknown /\ info[r] # tries
       IN  \/ /\ Alive(r) /\ Succeeding
              /\ info' = [info EXCEPT ![r] = tries]
              /\ Report(IF changed
                        THEN <<News("retryCounter", r, session[r], tries, Subscribed(r))>>
                        ELSE <<>>, "OK")
           \/ /\ IF Alive(r) THEN Failing ELSE Succeeding
              /\ UNCHANGED info
              /\ Report(<<>>, "COMMAND_FAILED")
    /\ UNCHANGED <<seen, session, opened, slot, counter, pin, renewed, moves>>

ExecuteDestroy ==
    /\ Executing("destroy")
    /\ opened' = Closed({Command.reader})
    /\ Report(<<>>, "OK")
    /\ UNCHANGED <<seen, info, session, world>>

\* What the card makes of a password: the answer, the tries it has left, and
\* what it is open for.
Verdict(code, tries, accepted) == [code |-> code, tries |-> tries, accepted |-> accepted]
Judged(r, password, secret) ==
    LET c == session[r]
    IN  CASE password = "CAN" ->
                 IF secret = c THEN Verdict("OK", counter[c], "CAN")
                 ELSE Verdict("INVALID_CAN", counter[c], "none")
          [] password = "PUK" ->
                 IF secret = c THEN Verdict("OK", 3, "none")
                 ELSE Verdict("INVALID_PUK", counter[c], "none")
          [] OTHER ->
                 IF counter[c] = 0 \/ (counter[c] = 1 /\ opened[r] # "CAN")
                 THEN Verdict("PIN_BLOCKED", counter[c], "none")
                 ELSE IF secret = pin[c] THEN Verdict("OK", 3, "PIN")
                 ELSE Verdict("INVALID_PIN", counter[c] - 1, "none")

\* UnblockPinCommand is refused by what the Reader knows of the card.
PukNotNeeded(r) == Command.password = "PUK" /\ info[r] > 0

Judge(verdict) ==
    LET r == Command.reader
    IN  /\ counter' = [counter EXCEPT ![session[r]] = verdict.tries]
        /\ opened' = [opened EXCEPT ![r] = verdict.accepted]

\* With a keypad it is the user who enters the secret.
Entered == IF Command.reader \in BasicReaders THEN {Command.secret} ELSE Cards

ReachesCard == Executing("pace") /\ Alive(Command.reader) /\ ~PukNotNeeded(Command.reader)
ExecutePace ==
    /\ ReachesCard
    /\ \E secret \in Entered :
           LET verdict == Judged(Command.reader, Command.password, secret)
           IN  /\ Judge(verdict)
               /\ \/ Succeeding /\ Report(<<>>, verdict.code)
                  \/ /\ Failing
                     /\ \E code \in {"CARD_NOT_FOUND", "COMMAND_FAILED"} : Report(<<>>, code)
    /\ UNCHANGED <<seen, info, session, slot, pin, renewed, moves>>

\* The card is not asked, or answers that it cannot do what it is asked.
NotAsked(r) ==
    IF ~seen[r] \/ session[r] = NoCard THEN {"CARD_NOT_FOUND"}
    ELSE IF PukNotNeeded(r) THEN {"PIN_NOT_BLOCKED"}
    ELSE IF ~Alive(r) THEN {"CARD_NOT_FOUND", "COMMAND_FAILED"}
    ELSE (IF Command.password = "PUK" THEN {"PUK_INOPERATIVE"} ELSE {})
         \cup (IF r \in BasicReaders THEN {} ELSE {"CANCELLATION_BY_USER"})
         \cup (IF r \in BasicReaders \/ Command.password # "PIN" THEN {}
               ELSE {"NO_ACTIVE_PIN_SET"})
ExecutePaceInVain ==
    /\ Executing("pace")
    /\ \E code \in NotAsked(Command.reader) : Report(<<>>, code)
    /\ UNCHANGED <<readerSide, world>>

ReaderThread ==
    \/ ExecuteConnect \/ ExecuteUpdate \/ ExecuteDestroy
    \/ ExecutePace \/ ExecutePaceInVain
-----------------------------------------------------------------------------
(* Cards are moved and readers polled. *)

machineSide == <<machine, context, link, killed, cache, cancels>>

\* A session does not survive the removal of its card.
PutCard(r, c) ==
    /\ moves < MaxMoves /\ moves' = moves + 1
    /\ slot[r] = NoCard /\ \A other \in Readers : slot[other] # c
    /\ slot' = [slot EXCEPT ![r] = c]
    /\ UNCHANGED <<machineSide, events, reader, counter, pin, renewed, failures>>

TakeCard(r) ==
    /\ moves < MaxMoves /\ moves' = moves + 1
    /\ slot[r] # NoCard
    /\ slot' = [slot EXCEPT ![r] = NoCard]
    /\ session' = [session EXCEPT ![r] = IF @ = NoCard THEN NoCard ELSE "dead"]
    /\ opened' = Closed({r})
    /\ UNCHANGED <<machineSide, events, seen, info, counter, pin, renewed, failures>>

\* PcscReader::updateCard
Poll(r) ==
    /\ Noticed(r)
    /\ events' = events \o PolledNews(r, Subscribed(r))
    /\ seen' = [seen EXCEPT ![r] = slot[r] # NoCard]
    /\ info' = [info EXCEPT ![r] = PolledInfo(r)]
    /\ session' = [session EXCEPT ![r] = NoCard]
    /\ opened' = Closed({r})
    /\ UNCHANGED <<machineSide, world>>
-----------------------------------------------------------------------------
(* The user *)

IsApproved(s) == \E i \in DOMAIN events : events[i] = Run(s)
Approve(s) == events' = Append(events, Run(s))
untouched == <<kept, state, armed, jobs, pwType, expected, lastPace, error, conn, readerName>>

\* On a reader with a keypad the user enters the password there.
UserEntersPassword ==
    /\ state = "EnterPacePassword" /\ ~IsApproved(state) /\ conn # NoConn
    /\ IF conn.reader \in BasicReaders
       THEN \E c \in Cards : pw' = [pw EXCEPT ![pwType] = c]
       ELSE UNCHANGED pw
    /\ Approve(state)
    /\ UNCHANGED untouched

UserMovesCard ==
    /\ state = "UnfortunateCardPosition" /\ ~IsApproved(state)
    /\ Approve(state)
    /\ UNCHANGED <<untouched, pw>>

\* WorkflowContext::setReaderPlugInTypes
UserChangesReaders ==
    /\ state \in {"SelectReader", "ConnectCard"} /\ ~TypesFixed
    /\ moves < MaxMoves /\ moves' = moves + 1
    /\ Enter(events, jobs, "SelectReader")
    /\ UNCHANGED <<killed, cache, slot, counter, pin, renewed, failures, cancels,
                   readerSide, context, link>>

\* WorkflowContext::killWorkflow (kill) and fireCancelWorkflow, with
\* AbstractState::onUserCancelled and the transition it causes.
MutAbortTarget ==                      \* faulty: a cancelled workflow skips the clearing
    IF state \in {"MaintainCardConnection", "ClearPacePasswordsOnError", "DestroyPace"}
    THEN "Aborted" ELSE "MaintainCardConnection"
AbortTarget ==
    CASE state = "MaintainCardConnection"          -> "ClearPacePasswordsOnError"
      [] state = "ClearPacePasswordsOnError"       -> "Aborted"
      [] state = "ClearPacePasswordsBeforeDestroy" -> "DestroyPace"
      [] state = "DestroyPace"                     -> "Aborted"
      [] OTHER                                     -> "MaintainCardConnection"
Cancel(kill, target) ==
    /\ cancels < MaxCancels /\ cancels' = cancels + 1
    /\ killed' = (killed \/ kill)
    /\ error' = TRUE
    /\ lastPace' = IF state = "EstablishPaceChannel" THEN "CANCELLATION_BY_USER" ELSE lastPace
    /\ LET approved == state \notin WaitsForUser \/ IsApproved(state)
       IN  Enter(IF kill /\ ~approved THEN Append(events, Run(state)) ELSE events,
                 jobs, target)
    /\ UNCHANGED <<readerSide, world, link, cache, pw, pwType, expected>>
UserCancels(kill) == state \in Inner /\ Cancel(kill, AbortTarget)

Environment ==
    \/ \E r \in Readers : TakeCard(r) \/ \E c \in Cards : PutCard(r, c)
    \/ UserEntersPassword \/ UserMovesCard \/ UserChangesReaders
    \/ \E kill \in BOOLEAN : UserCancels(kill)

PaceStep == MainThread \/ ReaderThread \/ Environment \/ \E r \in Readers : Poll(r)
Next == PaceStep \/ NextStateRuns

Spec == Init /\ [][Next]_vars

\* The event loops run, and readers are polled by a timer.
FairSpec ==
    Spec /\ WF_vars(MainThread \/ NextStateRuns) /\ WF_vars(ReaderThread)
         /\ \A r \in Readers : WF_vars(Poll(r))
-----------------------------------------------------------------------------
(* Properties *)

\* No password outlives the composite state on the way of an error: the state
\* that reports the error to the server asserts it (StateGenericSendReceive),
\* and so does the destructor of the context.
PasswordsClearedOnAbort ==
    Running("Aborted") => pw = NoPasswords

\* Results and run() calls that rely on the connection find one:
\* StateDestroyPace::run and the case INVALID_PIN of
\* onEstablishConnectionDone use it without a check.
DestroyFindsCard ==
    /\ Running("DestroyPace") => conn # NoConn
    /\ Arrives("pace") /\ Arrived.wanted /\ Arrived.code = "INVALID_PIN" => conn # NoConn

\* "We hit an invalid state! PACE password is empty for basic reader."
\* (StateEstablishPaceChannel.cpp) is never reached.
PasswordIsThere ==
    Running("EstablishPaceChannel") /\ ~error /\ conn # NoConn => ~LacksPassword

\* A PIN only reaches a card whose number of tries the user has been told: the
\* card's counter is the one the password was entered for.
TriesAreKnown ==
    Executing("pace") /\ Command.password = "PIN" /\ ReachesCard
        => counter[session[Command.reader]] = expected.counter

\* The last try is only spent on a card that has accepted its CAN.
LastTryNeedsCan ==
    Executing("pace") /\ Command.password = "PIN" /\ ReachesCard
        => \/ counter[session[Command.reader]] \in {2, 3}
           \/ counter[session[Command.reader]] = 1 /\ opened[Command.reader] = "CAN"

\* The composite state is only left for success with a card that has accepted
\* its PIN (or its CAN where that is enough).
EstablishedByCard ==
    [][state' = "Established" /\ state # "Established"
           => conn' # NoConn /\ (conn'.pin \/ (CanAllowed /\ conn'.can))]_vars

\* "You can send this command in any state of a running workflow to abort it."
\* (docs/sdk/commands.rst, CANCEL): after a cancellation no channel counts.
CancelAborts ==
    [][state' = "Established" /\ state # "Established" => ~error]_vars

\* Once there is an error, the composite state is left.
ErrorEndsPace == error ~> state \in Left

\* The machine comes to rest: it does not go round in circles over a card that
\* has gone (ReaderManager.cpp:295).
Settles == []<>(events = <<>> /\ jobs = <<>>)
=============================================================================
