--------------------------- MODULE ReaderManager ---------------------------
(***************************************************************************)
(* The ReaderManager of the main thread, its worker on the reader thread   *)
(* with the PC/SC plug-in, the cache of ReaderInfos, and the creation of   *)
(* card connections.                                                       *)
(*                                                                         *)
(* Signals of the worker wait in "events", the queue of the main thread,   *)
(* calls to the worker in "jobs", the queue of the reader thread.  A       *)
(* blocking call stops the main thread until its job is done: the event    *)
(* that makes it stays at the head of the queue meanwhile.                 *)
(*                                                                         *)
(* A ReaderInfo is a number: 0 for an empty reader, and a new number for   *)
(* every card that is put in and for every change of its retry counter.    *)
(***************************************************************************)
EXTENDS Integers, FiniteSets, Sequences, SequencesExt, Queues

CONSTANTS
    Readers,            \* the names of readers
    MaxCommands,        \* calls of callCreateCardConnectionCommand
    MaxChanges,         \* changes of readers and cards, and failures
    MaxScans,           \* calls of startScan and stopScan
    None                \* no worker, no connection, no call

\* The calls of the worker that the main thread waits for
Calls == {"infos", "info", "update", "shutdown"}

ASSUME ReaderManagerAssumption ==
    /\ IsFiniteSet(Readers) /\ None \notin Readers \cup Nat \cup {<< >>}
    /\ None \notin [worker : Nat, info : Nat] \cup [call : Calls, reply : {None}]
    /\ {MaxCommands, MaxChanges, MaxScans} \subseteq Nat

Commands == 1..MaxCommands
Absent   == -1

VARIABLES
    plugged, slot,      \* readers that are plugged in, and the card in each
    changes, scans,
    scanning, enabled,  \* mScanRunning, mInfo.isEnabled() of the plug-in
    known, info,        \* mReaders, and mReaderInfo of each
    linked,             \* Card::isConnected of the card of each reader
    workers,            \* the CardConnectionWorkers that live: their mReader
    jobs,
    running,            \* mThread runs, mWorker is there
    blocked,            \* the blocking call of the main thread, and its result
    cache,              \* mReaderInfoCache
    events,
    status, target, wanted,     \* the CreateCardConnectionCommands
    conn                \* their CardConnections: worker and mReaderInfo

world      == <<plugged, slot>>
plugIn     == <<scanning, enabled, known, info, linked>>
commands   == <<status, target, wanted>>
vars == <<world, changes, scans, plugIn, workers, jobs, running, blocked, cache,
          events, commands, conn>>

Job(what, arg)        == [job |-> what, arg |-> arg]
Status                == [type |-> "status"]
News(kind, r, i, cs)  == [type |-> "news", kind |-> kind, reader |-> r, info |-> i,
                          told |-> cs]
Execute(c)            == [type |-> "execute", command |-> c]
Created(c, w)         == [type |-> "created", command |-> c, worker |-> w]
Delete(c)             == [type |-> "delete", command |-> c]

\* ReaderManager::init and ReaderManagerWorker::registerPlugIns
ReaderManagerInit ==
    /\ plugged = Readers /\ slot \in [Readers -> {0, 1}]
    /\ changes = 0 /\ scans = 0
    /\ scanning = FALSE /\ enabled = FALSE
    /\ known = {} /\ info = [r \in Readers |-> 0] /\ linked = [r \in Readers |-> FALSE]
    /\ workers = << >> /\ jobs = <<>>
    /\ running = TRUE /\ blocked = None
    /\ cache = [r \in Readers |-> Absent]
    /\ events = <<Status>>
    /\ status = [c \in Commands |-> "unused"] /\ target = [c \in Commands |-> None]
    /\ wanted = [c \in Commands |-> FALSE] /\ conn = [c \in Commands |-> None]

Changing == changes < MaxChanges /\ changes' = changes + 1
-----------------------------------------------------------------------------
(* Who holds a CardConnectionWorker: CardConnections, signals that are on   *)
(* their way, and commands.                                                 *)

Held(cn, es, js) ==
    {cn[c].worker : c \in {d \in Commands : cn[d] # None}}
    \cup {es[i].worker : i \in {k \in DOMAIN es : es[k].type = "created"}}
    \cup {js[i].arg : i \in {k \in DOMAIN js : js[k].job \in {"use", "destroy"}}}

\* The last reference has the worker deleted by its own thread.
Orphans(ws, cn, es, js) ==
    LET ids == DOMAIN ws \ Held(cn, es, js)
    IN  [i \in 1..Cardinality(ids) |-> Job("destroy", SetToSeq(ids)[i])]

\* What is queued after js and es, once conn is cn.
Leave(ws, cn, es, js) ==
    /\ workers' = ws /\ conn' = cn /\ events' = es
    /\ jobs' = js \o Orphans(ws, cn, es, js)

\* A CardConnection that is gone is not told any more.
Untold(es, c) ==
    [i \in DOMAIN es |-> IF es[i].type = "news" THEN [es[i] EXCEPT !.told = @ \ {c}] ELSE es[i]]

Told(r) == {c \in Commands : conn[c] # None /\ workers[conn[c].worker] = r}
-----------------------------------------------------------------------------
(* The reader thread: the PC/SC plug-in *)

\* Readers are removed or added one after the other.
Removals(rs) ==
    [i \in 1..Cardinality(rs) |-> News("removed", SetToSeq(rs)[i], 0, {})]
Additions(rs, infos) ==
    [i \in 1..Cardinality(rs) |-> News("added", SetToSeq(rs)[i], infos[SetToSeq(rs)[i]], {})]

\* CardInfoFactory connects the card it examines: the worker it uses for that is
\* deleted later (a worker of a reader that is gone has nothing to do any more).
Examinations(rs) ==
    [i \in 1..Cardinality(rs) |-> Job("release", SetToSeq(rs)[i])]
WithoutReleases(js, rs) ==
    Kept(js, {i \in DOMAIN js : js[i].job # "release" \/ js[i].arg \notin rs})

\* PcscReaderManagerPlugIn::removeReader, for the readers that are left
KeepOnly(rs) ==
    /\ known' = rs
    /\ info' = [r \in Readers |-> IF r \in rs THEN info[r] ELSE 0]
    /\ linked' = [r \in Readers |-> linked[r] /\ r \in rs]
    /\ workers' = [w \in DOMAIN workers |-> IF workers[w] \in rs THEN workers[w] ELSE None]

\* stopScan and startScan of the plug-in: the signals they emit
MutStopSignals == IF scanning THEN <<Status>> ELSE <<>>   \* faulty: the update of the
                                                         \* cache is left to the status
StopSignals == Removals(known) \o (IF scanning THEN <<Status>> ELSE <<>>)
StartSignals(ok, was) ==
    (IF enabled # ok THEN <<Status>> ELSE <<>>) \o (IF was THEN <<>> ELSE <<Status>>)

\* Whether SCardEstablishContext succeeds
Established(ok) == IF ok THEN UNCHANGED changes ELSE Changing

Running(what) == jobs # <<>> /\ Head(jobs).job = what /\ running

StartScan ==
    /\ Running("start")
    /\ \E ok \in BOOLEAN :
           /\ Established(ok) /\ enabled' = ok
           /\ events' = events \o StartSignals(ok, scanning)
    /\ scanning' = TRUE
    /\ jobs' = Tail(jobs)
    /\ UNCHANGED <<world, scans, known, info, linked, workers, running, blocked, cache,
                   commands, conn>>

StopScan ==
    /\ Running("stop")
    /\ scanning' = FALSE
    /\ KeepOnly({})
    /\ events' = events \o StopSignals
    /\ jobs' = WithoutReleases(Tail(jobs), Readers)
    /\ UNCHANGED <<world, changes, scans, enabled, running, blocked, cache, commands, conn>>

\* PcscReaderManagerPlugIn::updateReaders, called by a timer
UpdateReaders ==
    LET added == plugged \ known
    IN  /\ running /\ scanning /\ enabled /\ known # plugged
        /\ known' = plugged
        /\ info' = [r \in Readers |-> IF r \in added THEN slot[r]
                                      ELSE IF r \in plugged THEN info[r] ELSE 0]
        /\ linked' = [r \in Readers |-> IF r \in added THEN slot[r] # 0
                                        ELSE linked[r] /\ r \in plugged]
        /\ workers' = [w \in DOMAIN workers |->
                           IF workers[w] \in plugged THEN workers[w] ELSE None]
        /\ events' = events \o Removals(known \ plugged) \o Additions(added, slot)
        /\ jobs' = WithoutReleases(jobs, known \ plugged)
                       \o Examinations({r \in added : slot[r] # 0})
        /\ UNCHANGED <<world, changes, scans, scanning, enabled, running, blocked, cache,
                       commands, conn>>

\* The service of the system is lost: the plug-in stops and starts again.
RestartPlugIn ==
    /\ running /\ scanning /\ Changing
    /\ KeepOnly({})
    /\ \E ok \in BOOLEAN :
           enabled' = ok /\ events' = events \o StopSignals \o StartSignals(ok, FALSE)
    /\ jobs' = WithoutReleases(jobs, Readers)
    /\ UNCHANGED <<world, scans, scanning, running, blocked, cache, commands, conn>>

\* PcscReader::updateCard, called by a timer or by updateReaderInfo: a card
\* that was swapped since is not noticed.
Noticed(r) == r \in known /\ r \in plugged /\ (slot[r] # 0) # (info[r] # 0)
UpdateCard(r) ==
    /\ info' = [info EXCEPT ![r] = slot[r]]
    /\ linked' = [linked EXCEPT ![r] = slot[r] # 0]
    /\ events' = Append(events, News("changed", r, slot[r], Told(r)))
Examined(js, r) == IF slot[r] # 0 THEN Append(js, Job("release", r))
                   ELSE WithoutReleases(js, {r})
Poll(r) ==
    /\ running /\ Noticed(r) /\ UpdateCard(r)
    /\ jobs' = Examined(jobs, r)
    /\ UNCHANGED <<world, changes, scans, scanning, enabled, known, workers, running,
                   blocked, cache, commands, conn>>
-----------------------------------------------------------------------------
(* The reader thread: card connections and blocking calls *)

readers == <<world, scans, scanning, enabled, known>>
mainThread == <<running, cache, commands>>

\* ReaderManagerWorker::createCardConnectionWorker: every command that is
\* connected at that time is told of the worker, or that there is none.
Listening == {c \in Commands : status[c] \in {"waiting", "answered"}}
MutBroadcast(w) ==     \* faulty: a failure is not told
    IF w = None THEN <<>> ELSE Kept([c \in Commands |-> Created(c, w)], Listening)
Broadcast(w) == Kept([c \in Commands |-> Created(c, w)], Listening)
Fresh == CHOOSE w \in 1..(Cardinality(DOMAIN workers) + 1) : w \notin DOMAIN workers
With(w, r) == [v \in DOMAIN workers \cup {w} |-> IF v = w THEN r ELSE workers[v]]

\* Reader::createCardConnectionWorker
Connectable(r) == r \in known /\ info[r] # 0 /\ ~linked[r] /\ slot[r] # 0 /\ r \in plugged
CreateWorker ==
    LET r == Head(jobs).arg
    IN  /\ Running("create")
        /\ \/ /\ Connectable(r) /\ UNCHANGED changes
              /\ linked' = [linked EXCEPT ![r] = TRUE]
              /\ Leave(With(Fresh, r), conn, events \o Broadcast(Fresh), Tail(jobs))
           \/ /\ IF Connectable(r) THEN Changing ELSE UNCHANGED changes
              /\ UNCHANGED linked
              /\ Leave(workers, conn, events \o Broadcast(None), Tail(jobs))
        /\ UNCHANGED <<readers, info, mainThread, blocked>>

\* ~CardConnectionWorker: whatever card its reader holds is disconnected.
MutDisconnected(r) == linked       \* faulty: the card stays connected
Disconnected(r) == [linked EXCEPT ![r] = FALSE]
DestroyWorker ==
    LET w == Head(jobs).arg
    IN  /\ Running("destroy")
        /\ linked' = IF workers[w] = None THEN linked ELSE Disconnected(workers[w])
        /\ workers' = [v \in DOMAIN workers \ {w} |-> workers[v]]
        /\ jobs' = Tail(jobs)
        /\ UNCHANGED <<readers, changes, info, mainThread, blocked, events, conn>>
EndExamination ==
    /\ Running("release")
    /\ linked' = Disconnected(Head(jobs).arg)
    /\ jobs' = Tail(jobs)
    /\ UNCHANGED <<readers, changes, info, workers, mainThread, blocked, events, conn>>

\* A command that changes the retry counter (Reader::updateRetryCounter)
UseCard ==
    LET w == Head(jobs).arg
        r == workers[w]
        number == changes + 1
    IN  /\ Running("use")
        /\ \/ /\ r # None /\ linked[r] /\ slot[r] = info[r] /\ Changing
              /\ info' = [info EXCEPT ![r] = number + 1]
              /\ slot' = [slot EXCEPT ![r] = number + 1]
              /\ Leave(workers, conn,
                       Append(events, News("changed", r, number + 1, Told(r))), Tail(jobs))
           \/ /\ UNCHANGED <<info, slot, changes>>
              /\ Leave(workers, conn, events, Tail(jobs))
        /\ UNCHANGED <<plugged, scans, scanning, enabled, known, linked, mainThread, blocked>>

\* The blocking calls
Reply(value) == blocked' = [blocked EXCEPT !.reply = value]
Nothing == << >>
KnownInfos == [r \in Readers |-> IF r \in known THEN info[r] ELSE Absent]
GetReaderInfos ==
    /\ Running("infos") /\ Reply(KnownInfos)
    /\ jobs' = Tail(jobs)
    /\ UNCHANGED <<readers, changes, info, linked, workers, mainThread, events, conn>>
GetReaderInfo ==
    LET r == workers[Head(jobs).arg]
    IN  /\ Running("info")
        /\ Reply([x \in {r} |-> IF r = None THEN 0 ELSE info[r]])
        /\ jobs' = Tail(jobs)
        /\ UNCHANGED <<readers, changes, info, linked, workers, mainThread, events, conn>>
UpdateReaderInfo ==
    LET r == Head(jobs).arg
    IN  /\ Running("update") /\ Reply(Nothing)
        /\ IF Noticed(r) THEN UpdateCard(r) /\ jobs' = Examined(Tail(jobs), r)
           ELSE UNCHANGED <<info, linked, events>> /\ jobs' = Tail(jobs)
        /\ UNCHANGED <<readers, changes, workers, mainThread, conn>>
ShutDownWorker ==
    /\ Running("shutdown") /\ Reply(Nothing)
    /\ scanning' = FALSE
    /\ KeepOnly({})
    /\ events' = events \o StopSignals
    /\ jobs' = WithoutReleases(Tail(jobs), Readers)
    /\ UNCHANGED <<world, changes, scans, enabled, mainThread, conn>>

ReaderThread ==
    \/ StartScan \/ StopScan \/ CreateWorker \/ DestroyWorker \/ EndExamination
    \/ UseCard \/ GetReaderInfos \/ GetReaderInfo \/ UpdateReaderInfo \/ ShutDownWorker
-----------------------------------------------------------------------------
(* The main thread: events *)

readerSide == <<world, changes, scans, plugIn>>
Free == blocked = None
Arrives(type) == events # <<>> /\ Head(events).type = type
Arrived == Head(events)
Block(call) == blocked' = [call |-> call, reply |-> None]
Answered(call) == blocked # None /\ blocked.call = call /\ blocked.reply # None

\* ReaderManager::doFullUpdateCache
FullUpdate ==
    /\ Arrives("status") /\ Free
    /\ IF running
       THEN /\ Block("infos") /\ jobs' = Append(jobs, Job("infos", None))
            /\ UNCHANGED <<cache, events>>
       ELSE /\ cache' = [r \in Readers |-> Absent] /\ events' = Tail(events)
            /\ UNCHANGED <<blocked, jobs>>
    /\ UNCHANGED <<readerSide, workers, running, commands, conn>>
FullUpdateDone ==
    /\ Answered("infos")
    /\ cache' = blocked.reply /\ blocked' = None
    /\ events' = Tail(events)
    /\ UNCHANGED <<readerSide, workers, jobs, running, commands, conn>>

\* doUpdateCacheEntry and doRemoveCacheEntry, and CardConnection::onReaderInfoChanged
NewsArrives ==
    /\ Arrives("news") /\ Free
    /\ cache' = [cache EXCEPT ![Arrived.reader] =
                     IF Arrived.kind = "removed" THEN Absent ELSE Arrived.info]
    /\ conn' = [c \in Commands |-> IF c \in Arrived.told
                                   THEN [conn[c] EXCEPT !.info = Arrived.info] ELSE conn[c]]
    /\ events' = Tail(events)
    /\ UNCHANGED <<readerSide, workers, jobs, running, blocked, commands>>

\* CreateCardConnectionCommand::execute: without the worker of the
\* ReaderManager the answer is that there is no connection.
ExecuteCommand ==
    LET c == Arrived.command
    IN  /\ Arrives("execute") /\ Free
        /\ IF running
           THEN /\ status' = [status EXCEPT ![c] = "waiting"]
                /\ jobs' = Append(jobs, Job("create", target[c]))
                /\ events' = Tail(events)
           ELSE /\ status' = [status EXCEPT ![c] = "answered"]
                /\ events' = Append(Tail(events), Delete(c))
                /\ UNCHANGED jobs
        /\ UNCHANGED <<readerSide, workers, running, blocked, cache, target, wanted, conn>>

\* onCardConnectionWorkerCreated: the constructor of the CardConnection asks
\* the worker for its ReaderInfo before it connects to the changes of it.
Answer(c, cn, es) ==
    /\ status' = [status EXCEPT ![c] = "answered"]
    /\ Leave(workers, cn, Append(es, Delete(c)), jobs)
NoConnection ==
    /\ Arrives("created") /\ Free /\ Arrived.worker = None
    /\ Answer(Arrived.command, conn, Tail(events))
    /\ UNCHANGED <<readerSide, running, blocked, cache, target, wanted>>
NewConnection ==
    /\ Arrives("created") /\ Free /\ Arrived.worker # None
    /\ Block("info") /\ jobs' = Append(jobs, Job("info", Arrived.worker))
    /\ UNCHANGED <<readerSide, workers, running, cache, events, commands, conn>>
ConnectionMade ==
    LET c == Arrived.command
    IN  /\ Answered("info") /\ blocked' = None
        /\ \E x \in DOMAIN blocked.reply :
               Answer(c, [conn EXCEPT ![c] = [worker |-> Arrived.worker,
                                              info |-> blocked.reply[x]]],
                      Untold(Tail(events), c))
        /\ UNCHANGED <<readerSide, running, cache, target, wanted>>

\* The command is deleted, with the events that are still meant for it; its
\* receiver may hold the connection.
Dropped(es, c) ==
    Kept(es, {i \in DOMAIN es :
                  es[i].type \notin {"created", "delete"} \/ es[i].command # c})
Without(c) == [conn EXCEPT ![c] = None]
DeleteCommand ==
    LET c == Arrived.command
    IN  /\ Arrives("delete") /\ Free
        /\ status' = [status EXCEPT ![c] = "gone"]
        /\ \E rest \in {Dropped(Tail(events), c)} :
               IF wanted[c] THEN Leave(workers, conn, rest, jobs)
               ELSE Leave(workers, Without(c), Untold(rest, c), jobs)
        /\ UNCHANGED <<readerSide, running, blocked, cache, target, wanted>>

Resume ==
    /\ \/ Answered("update") /\ UNCHANGED <<cache, running>>
       \/ /\ Answered("shutdown")
          /\ cache' = [r \in Readers |-> Absent] /\ running' = FALSE
    /\ blocked' = None
    /\ UNCHANGED <<readerSide, workers, jobs, events, commands, conn>>

MainThread ==
    \/ FullUpdate \/ FullUpdateDone \/ NewsArrives \/ ExecuteCommand
    \/ NoConnection \/ NewConnection \/ ConnectionMade \/ DeleteCommand \/ Resume
-----------------------------------------------------------------------------
(* The main thread: what the program asks for *)

\* StateConnectCard and ServerMessageHandler connect the card of a reader that
\* has one, as far as the cache knows.
Call(c, r) ==
    /\ Free /\ status[c] = "unused" /\ \A d \in Commands : d < c => status[d] # "unused"
    /\ cache[r] \notin {0, Absent}
    /\ status' = [status EXCEPT ![c] = "called"]
    /\ target' = [target EXCEPT ![c] = r] /\ wanted' = [wanted EXCEPT ![c] = TRUE]
    /\ events' = Append(events, Execute(c))
    /\ UNCHANGED <<readerSide, workers, jobs, running, blocked, cache, conn>>

\* The receiver gives the connection up, or does not wait for it any longer;
\* WorkflowContext::resetCardConnection has the reader polled as well.
GiveUp(c, polls) ==
    /\ Free /\ wanted[c] /\ wanted' = [wanted EXCEPT ![c] = FALSE]
    /\ LET gone == status[c] = "gone"
           more == IF polls THEN <<Job("update", target[c])>> ELSE <<>>
           cn == IF gone THEN Without(c) ELSE conn
           es == IF gone THEN Untold(events, c) ELSE events
       IN  /\ workers' = workers /\ conn' = cn /\ events' = es
           /\ jobs' = jobs \o Orphans(workers, cn, es, jobs) \o more
    /\ IF polls THEN running /\ conn[c] # None /\ Block("update") ELSE UNCHANGED blocked
    /\ UNCHANGED <<readerSide, running, cache, status, target>>

\* A command on the connection, for instance an update of the retry counter
Use(c) ==
    /\ Free /\ wanted[c] /\ conn[c] # None /\ running /\ changes < MaxChanges
    /\ \A i \in DOMAIN jobs : jobs[i].job # "use"
    /\ jobs' = Append(jobs, Job("use", conn[c].worker))
    /\ UNCHANGED <<readerSide, workers, running, blocked, cache, events, commands, conn>>

Scan(what) ==
    /\ Free /\ running /\ scans < MaxScans /\ scans' = scans + 1
    /\ jobs' = Append(jobs, Job(what, None))
    /\ UNCHANGED <<world, changes, plugIn, workers, running, blocked, cache, events,
                   commands, conn>>

\* ReaderManager::shutdown
ShutDown ==
    /\ Free /\ running /\ Block("shutdown")
    /\ jobs' = Append(jobs, Job("shutdown", None))
    /\ UNCHANGED <<readerSide, workers, running, cache, events, commands, conn>>

Program ==
    \/ \E c \in Commands : \/ \E r \in Readers : Call(c, r)
                           \/ \E polls \in BOOLEAN : GiveUp(c, polls)
                           \/ Use(c)
    \/ \E what \in {"start", "stop"} : Scan(what)
    \/ ShutDown
-----------------------------------------------------------------------------
(* Readers are plugged in and out, cards put in and taken. *)

software == <<scans, plugIn, workers, jobs, running, blocked, cache, events, commands, conn>>
PlugIn(r)   == /\ r \notin plugged /\ Changing /\ plugged' = plugged \cup {r}
               /\ UNCHANGED <<slot, software>>
Unplug(r)   == /\ r \in plugged /\ Changing /\ plugged' = plugged \ {r}
               /\ UNCHANGED <<slot, software>>
PutCard(r)  == /\ slot[r] = 0 /\ Changing /\ slot' = [slot EXCEPT ![r] = changes + 2]
               /\ UNCHANGED <<plugged, software>>
TakeCard(r) == /\ slot[r] # 0 /\ Changing /\ slot' = [slot EXCEPT ![r] = 0]
               /\ UNCHANGED <<plugged, software>>
Environment ==
    \E r \in Readers : PlugIn(r) \/ Unplug(r) \/ PutCard(r) \/ TakeCard(r)

Timers == UpdateReaders \/ \E r \in Readers : Poll(r)

ReaderManagerNext ==
    MainThread \/ ReaderThread \/ Timers \/ RestartPlugIn \/ Program \/ Environment
ReaderManagerSpec == ReaderManagerInit /\ [][ReaderManagerNext]_vars

\* The event loops of both threads run, and the timers fire.
FairReaderManagerSpec ==
    /\ ReaderManagerSpec
    /\ WF_vars(MainThread) /\ WF_vars(ReaderThread)
    /\ WF_vars(UpdateReaders) /\ \A r \in Readers : WF_vars(Poll(r))
-----------------------------------------------------------------------------
(* Properties *)

\* A full update of the cache overtakes the signals that are on their way
\* (ReaderManager.cpp:234).  Once nothing more is to be heard of a reader, the
\* cache says of it what the reader thread knows all the same.
CacheSettles ==
    \A r \in Readers :
        (\A i \in DOMAIN events : events[i].type = "news" => events[i].reader # r)
            => cache[r] = IF r \in known THEN info[r] ELSE Absent

\* No card stays connected that nobody is left to disconnect: Reader refuses
\* a card that is connected already.
CardNotLeaked ==
    \A r \in Readers : linked[r] =>
        \/ \E w \in DOMAIN workers : workers[w] = r
        \/ \E i \in DOMAIN jobs : jobs[i].job = "release" /\ jobs[i].arg = r

\* Whoever asks for a connection is answered, unless the program ends.
CommandAnswered ==
    \A c \in Commands :
        status[c] = "called" ~> status[c] \in {"answered", "gone"} \/ ~running
=============================================================================
