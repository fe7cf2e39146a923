# A TLA+ model of AusweisApp2

AusweisApp2 lets citizens use the German ID card to identify themselves to
online services, change the PIN of the card, and use a smartphone as a remote
card reader. This directory holds a formal model of its core logic: TLA+
modules translated from the C++ source, TLC configurations that check them on
small instances, and theorems that TLAPS proves for every instance.

All paths below are relative to `src/src/` unless they say otherwise.
`PROJECT.json` maps every definition to the lines it models.

## 1. Inventory of the system

The application is a Qt program. Its main thread runs one event loop; almost
every interaction is a signal, delivered at once or queued in that loop. A
second thread runs the readers (`ReaderManagerWorker`), a third the sockets to
remote devices (`RemoteConnectorImpl`). HTTP and TLS live inside Qt.

| Component | Source | State | Operations | Talks to | Model |
|---|---|---|---|---|---|
| Admission and shutdown | `core/controller/AppController.cpp` | current action, active controller, one waiting request, shutdown flag, UI domination | request a workflow; end of a workflow; shutdown; UI domination (not modelled) | UI plug-ins and activation handlers (queued signals), WorkflowController, UILoader | `AppController` |
| Workflow framework | `workflows/base/states/AbstractState.cpp`, `FinalState`, `controller/WorkflowController.cpp`, `context/WorkflowContext.cpp` | active state, approval, status, passwords, card connection | enter, approve, run, leave, cancel, kill | UI (approval), ReaderManager | all workflow modules |
| PACE | `workflows/base/states/CompositeStatePace.cpp` and 11 kinds of inner states | position in the machine, expected reader | select reader, connect card, read retry counter, ask for and try a password, clear up | card commands, ReaderManager, user | `PaceChannel` |
| PIN change | `workflows/base/controller/ChangePinController.cpp` | new PIN | PACE, new PIN, change, destroy, clean up | PACE, card commands | `ChangePin` |
| Authentication, self-authentication | `AuthController.cpp`, `SelfAuthController.cpp`, `CompositeStateTrustedChannel.cpp`, `StateGenericSendReceive.cpp`, `paos/` | TC token, certificates, EAC messages, result for the caller | about 40 states | eID server, service provider, card, caller | `Authentication` |
| Remote service | `workflows/remote_device/`, `remote_device/ServerMessageHandler.cpp`, `RemoteWebSocketServer.cpp` | the client, its slots and messages, the context | serve connections, PACE and PIN changes for a paired device | another AusweisApp2, user, card | `RemoteService` |
| Cards and readers | `card/base/`, `card/pcsc/` | worker thread: readers, cards, workers; main thread: cache of ReaderInfo, CardConnection | commands, polling, cache updates, blocking calls | PC/SC, remote readers | `ReaderManager`, `PaceChannel` |
| Remote readers | `remote_device/`, `remote_device/plugin/` | pending attempts, dispatchers, readers, calls | find, connect, notice the end, call the card | the device with the remote service | `RemoteConnection` |
| User interfaces | `ui/` (qml, json, websocket, aidl) | models of the running workflow | start, approve, set passwords, cancel | AppController, WorkflowContext | the user's actions of each module |
| Activation | `activation/` | HTTP server, pending requests | start of an authentication by a browser, its answer | AppController | requests and answers only |
| Files and updates | `file_provider/`, `services/`, `configuration/` | queue of downloads, files in the cache and their marks, the update of the program that was found | daily and forced checks, download, abort, look-up of a file | update server, UI | `Updates` |
| Network, settings, secure storage, export, start-up, survey | `network/`, `settings/`, `secure_storage/`, `export/`, `init/`, `whitelist_client/` | – | sequential or I/O | – | not modelled |

What is hard here, and hardly reached by the unit tests in `src/test`:

* `run()` of a state is a queued call (`AbstractState.cpp:81`): approval, exit
  and the result of a command may overtake each other;
* results of card commands are posted by another thread and are still delivered
  after the state that waited for them was left;
* the main thread decides by copies of what the readers know (the cache, the
  ReaderInfo of a CardConnection) while cards are exchanged, and blocking calls
  overtake signals that are queued;
* the end of a workflow takes two trips through the event loop, while
  requests, quits and approvals arrive;
* a client of the remote service comes and goes without the workflow being told;
* what three threads know of a remote device is passed on by queued signals,
  while the connection they are about may have ended;
* slots that are called by the end of one download ask for the next ones, while
  files are marked, looked up and replaced;
* errors and cancellations may strike in any state; they have to leave no
  password behind, no try of the PIN spent unasked, and one truthful answer to
  the caller.

`PROJECT.json` lists these as hazards, each at its line, with the properties
that cover it. For each component, what makes it correct:

* *Admission*: one workflow at a time; none lost, none twice; the waiting one
  starts when the running one ends; a shutdown ends the application.
* *PACE*: tries are only spent on a card whose state the user was told, the last
  one only after the CAN; the channel is established by a card that accepted its
  PIN; errors end it and leave no password; it never runs in circles.
* *PIN change*: success means a changed PIN; every end clears passwords and
  releases the card; a killed change ends.
* *Authentication*: one answer to the caller, a success only if the server
  reported one; no card data before the certificates are compared; the caller is
  sent to a verified address; it ends.
* *Remote service*: what was entered for one client serves no other; an answer
  belongs to an open request; requests taken up are answered.
* *Cards and readers*: the cache settles on the state of the readers; no card
  stays connected that nobody can disconnect; commands are answered.
* *Remote readers*: attempts are accounted for; no reader outlives its
  connection; a paired device is connected in the end.
* *Files and updates*: what counts as clean is as new as the configuration that
  names it; what is published arrives.

## 2. Modules

| Module | Content |
|---|---|
| `WorkflowSlot` | abstract: a slot for one workflow with one waiting place |
| `AppController` | admission of workflows and shutdown, with the event queue |
| `PaceChannel` | CompositeStatePace with card connection, reader thread, cards, user |
| `ChangePin` | the PIN change around CompositeStatePace; extends `PaceChannel` |
| `Authentication` | both authentication workflows with network, card and caller |
| `RemoteService` | the device as card reader: WebSocket server, message handler, workflow |
| `ReaderManager` | cache, blocking calls and card connections between two threads |
| `RemoteConnection` | a smartphone as card reader, seen from the computer: three threads |
| `Updates` | the queue of downloads, files in the cache, updates of the program |
| `Queues` | a queue out of which messages are taken when their receiver is deleted |
| `AppControllerProofs` | `AppController` implements `WorkflowSlot`; its invariants |
| `PaceInvariants` | the inductive invariants of `PaceChannel` and `ChangePin`, for the proofs |
| `PaceChannelProofs` | passwords, connections, tries and the outcome of PACE; success and end of the PIN change |
| `AuthenticationProofs` | answers to the caller, verified addresses, checks before the card is read |
| `RemoteServiceProofs` | nothing of one client is left for the next; prompts and answers belong to requests |
| `QueuesProofs` | what is left of a queue is what was in it, in order |
| `ReaderManagerProofs` | the cache settles, workers are owned, no card stays connected |
| `RemoteConnectionProofs` | every attempt is accounted for; no reader outlives its connection; a connected card is one |
| `UpdatesProofs` | clean icons are as new as the configuration |
| `MC...` | what TLC needs on top of each |

Definitions called `Mut...` are faulty variants of the definition next to them
(a dropped guard, a missing reset, ...). No specification uses them. They show
that a property depends on the code: with the variant in place of the
original, TLC finds the property violated.

How the modules fit together: `AppController` sees a workflow only by its
final state, and assumes that a killed one gets there; `ChangePin` and
`Authentication` show that theirs do (`KilledWorkflowEnds`,
`AuthenticationEnds`). `ChangePin` is composed with `PaceChannel`. `Authentication`
has CompositeStatePace as one state with the two outcomes `PaceChannel` allows:
established with a card that accepted its PIN (`EstablishedByCard`), or aborted
with an error and without passwords (`PasswordsClearedOnAbort`; that there is an
error `ChangePin` shows by `SuccessMeansChanged`). `PaceChannel` has a reader thread that
executes jobs in order; `ReaderManager` models that thread, its plug-in and the
cache in detail. `RemoteConnection` and `RemoteService` are the two ends of one
protocol; each has the other end as a nondeterministic environment.

### 2.1 AppController

*State.* `currentAction`, `active`, `waiting` and `shutdownRunning` are the
members of `AppController`. `phase`, `approved`,
`killed` and `noActivePin` are what AppController can see of the active
workflow. `posted` is the event queue of the main thread, restricted to the
events that concern AppController. `timers`, `ticks`, `uiDown` and `exited` are
the steps of the shutdown. `kind`, `status`, `quits` and `awaited` observe: which
action a request wants, what became of it, and which workflow ran when the user
first quit.

*Requests* are a set of identities. A workflow is a pair `<<r, b>>`: with
`b = TRUE` it is the PIN change that `onWorkflowFinished` asks for itself when
the authentication `r` ended because the card has no PIN (`AppController.cpp:243`).

*Actions.* One per slot: `OnChangePinRequested`, `OnSimpleRequest`
(self-authentication and remote service), `OnAuthenticationContextRequest`,
`OnWorkflowFinished`, `DoShutdown`, `OnUILoaderShutdownComplete`. Each
alternative of the code is a disjunct. `DoShutdown` is not taken from the queue: the signal is connected
directly. The end of a workflow is `WorkflowReachesFinalState`, `UserApproves`,
`FinalStateRun`, `FireComplete`, `OnWorkflowFinished`: two queued signals lie
between the last three. `ShutdownTick` is the timer of `completeShutdown`; a
tick finds connections open or not, nondeterministically.

*Abstraction.* What a workflow does before its end, the text of messages, the
restart flag and exit code, language changes, and the domination of a user
interface (`mUiDomination` is read by nothing but the two slots that set it).
Requests for reader settings
(`AppController.cpp:274`) do not occur: nothing enqueues them.

*Abstract specification.* `WorkflowSlot` promises one workflow at a time, at
most one more waiting, started in the very step that ends its predecessor, and
that none is started twice. `SlotSpec` maps `active`, `waiting` and the flows
whose status is running or done to its variables; TLC checks it as a property
and TLAPS proves it.

### 2.2 PaceChannel

*State.* `state` is the active inner state, or `Established`/`Aborted` when the
composite state has been left. `events` is the event queue of the main thread:
`run()` calls, news of readers, results of commands. `jobs` is what the reader
thread has yet to execute. `armed` are the states that have connected slots to
the signals of the ReaderManager. The context (`pw`, `pwType`, `expected`,
`lastPace`, `error`, `killed`), the link to the card (`conn`, `readerName`,
`vanished`) and the cache are members of WorkflowContext and ReaderManager.
`seen`, `info`, `session`, `opened` are what the reader thread knows: whether
the Reader has noticed a card, its retry counter, the card the connection leads
to, and the password that card has accepted last. `slot`, `counter` and `pin`
are the real world.

*Readers* are numbered in the order of their names: the cache is a QMap, and
`StateSelectReader` takes the first reader in it that has a card.

*Actions.* One per `run()` (one per branch where it has several), one per
result, one per card command, plus polling, the cards, and the user. A
transition (`Enter`) is atomic with the signal that causes it, as in
QStateMachine with direct connections; the `run()` of the next state is an event
of its own. `Fire` has no effect when the state is not active: that is what
happens to the signals of a state whose `run()` is delivered late.

*Results after exit.* `AbstractState::onExit` disconnects the state from
commands, but a result of a card command that is in the event queue
already is a call to the state itself and is delivered nevertheless: `wanted`
records whether the connection existed when the result was posted. A connect is
different: its command lives in the main thread, so its connection is cut
(`Undelivered`).

*Blocking calls.* `resetCardConnection` polls the reader through a blocking
call, and the constructor of CardConnection fetches the ReaderInfo: both wait
until the reader thread has finished its jobs (`jobs = <<>>`).

*Abstraction.* A card stands for itself and for its secrets: entering card
`c`'s secret on card `d` is entering a wrong one. `COMMAND_FAILED` stands for
all errors nothing can be done about, `CARD_NOT_FOUND` for `RETRY_ALLOWED`
too. The card (`Judged`) counts tries, refuses the last try before its CAN and is
unblocked by its PUK. The constants choose the context: `IsAuth`, `CanAllowed`
(always FALSE in `WorkflowContext.cpp:436`, but overridden by AuthContext),
`UsedAsSDK`, and `TypesFixed`: the WebSocket and AIDL interfaces set the kinds
of readers once, the QML interface lets the user change them at any time.

*Not modelled here.* Plugging readers in and out, the status of NFC and Smart-eID
plug-ins, the scans StateSelectReader starts and stops (so a change of the kinds
of readers is one that leaves the readers of the instance in use), extended
length APDUs, the EAC1 data, and that PcscReader
connects to a card for a moment of its own when it is inserted.

### 2.3 ChangePin

*State.* `ChangePin` extends `PaceChannel` and gives its two exits a meaning:
`Established` is StatePrepareChangePin, `Aborted` is StateClearPacePasswords.
The states of `ChangePinController.cpp` come on top (`Outer`), with two jobs of
the reader thread, `setPin` and `stopScan`. `pw["NEW"]` is `mNewPin`, and
`renewed` (declared in `PaceChannel`) observes which cards have accepted a new PIN.

*Actions.* `run()` of each state, the result of the change (`SetEidPinDone`), its
execution by the card (`ExecuteSetPin`, whose answer may be lost) or in vain, and
a user who enters the new PIN, cancels or kills in any state. StateDestroyPace
and StateUpdateRetryCounter occur twice in the workflow; both use the same
operators (`RunDestroy`, `Destroyed`, `RunUpdate`, `Updated`) with the transitions
of their place. A change that fails enters CompositeStatePace again with the
connection it has; a signal of the composite state counts in any of its inner
states (`Leave`).

*The end.* `StateCleanUpReaderManager` stops the scan, which deletes the readers
of the plug-in and so closes their cards, and drops the connection, which waits
for the reader thread. Polling goes on in the model after that, as it does when
the program is used as an SDK.

*Abstraction.* A new PIN is a card's identity, like any secret; entering the old
one again is among the choices. The length of a PIN is not modelled: a keypad
reader may find it wrong at any time.

### 2.4 Authentication

*State.* `state` is the active state of `AuthController` or `SelfAuthController`
(`workflow`), `events` the queue of `run()` calls and card results, `jobs` the
commands of the reader thread, `net` the request of each state that has one.
The rest are members of AuthContext as far as control depends on them: status,
results of the server (`response`, `paosResult`), `reported`, token, EAC1,
access rights and document verifier (`rights`, `dvCvc`), the certificates met,
card connection, PACE output, password, and those of StateCheckRefreshAddress.
`history` and `answers` observe what was written and what the caller was sent.

*Transitions* are tables, `AuthContinue` and `AuthAbort`, and `Expected` for the
messages each sending state accepts, translated from the controllers, the two
composite states and `StateGenericSendReceive.h`. `Enter` leaves a state:
replies and results nobody waits for any more are dropped unless they are in
the event queue; `run()` of the old state stays there.

*Actions.* One per `run()` (states that only go on share `Passing`), one per
network callback, the card commands and their results, the two ends of PACE,
approval, removal of the card, cancellation and kill. The server may send any
expected message with any content (`Eac1Kinds` names what can be wrong with
EAC1), redirect to any address, present a listed or an unlisted certificate, or
fail.

*Assumption.* `ObeysErrors` is TRUE in the run `Authentication`: a server that
was told of an error ends the conversation and does not report success. Only
`CardThere` needs it: the states after a reported error do not look at what is
missing (`StateProcessCertificatesFromEac2.cpp:22`). The other properties hold
without (checked once).

*Not modelled.* Developer mode, mobile builds, the survey, the change of a
transport PIN in front of an authentication, XML, and the contents of
certificates beyond listed or not.

### 2.5 RemoteService

*State.* `client`, `handles` and `asked` are the server's side of the protocol:
who is connected, the slots it holds and the requests it waits for. `slotHandle`,
`password`, `modify`, `output`, `modifyOutput`, `pw`, `conn` are members of
RemoteServiceContext; a password in the model says for which client it was
entered (`Nobody` when its request was gone). `hears`, `watched` and `shown` are
connections of StateProcessRemoteMessages, the connection of the prompting
state to the end of the client, and what the user sees.

*Actions.* `run()` of each of the 15 states, the messages of the client
(`Connect`, `Disconnect`, `EstablishPaceChannel`, `ModifyPin`), its coming and
going, the card commands, removal of the card, and the user who answers,
cancels, stops the service or quits. Messages are handled at once, while the
workflow hears of them only in StateProcessRemoteMessages.

`Crashed` is where a failing assertion or a null pointer leads. The run
`RemoteAssert` is about the most serious of these (finding 2).

### 2.6 ReaderManager

*State.* The world (`plugged`, `slot`), the plug-in (`known`, `info`, `linked`,
`enabled`, `scanning`), the CardConnectionWorkers that live and the reader each
belongs to, the two queues (`jobs` of the reader thread, `events` of the main
thread), the blocking call under way, the cache, and each
CreateCardConnectionCommand with the connection it produced.

*Actions.* Timers of PcscReader and of the plug-in, restart of the plug-in after
PC/SC was lost, creation and deletion of workers, the three blocking calls and
their replies, signals that update the cache, the commands, the program that
asks for connections, uses and gives them up, scans and shuts down. A worker is
reference-counted: `Held` says who has it, and the step in which the last
reference goes posts its deletion to the reader thread.

*Abstraction.* A ReaderInfo is a number, fresh for every change, which is all
the cache can be wrong about.

### 2.7 RemoteConnection

*State.* For each connection its request, socket and dispatcher (`sock`), its
context handle, what the device has sent on it and whether the plug-in listens to
its end (`heard`); the device; the settings; RemoteClientImpl (`pending`,
`refusals`, `detecting`, `listed`); the plug-in (`scanning`, `auto`, `checking`, `dispatcher`,
`readers`, `call`); and the queues between the three threads.

*Actions.* Search, connect, pairing, refusal, the four messages of the device,
calls to the card with their answers and time-outs, loss of the network at
either end, the device that announces itself and vanishes, deletion of
dispatchers, scans.

*Parameters.* `RefusalLimit` (7 in the code) is 1: the first refusal has the
device forgotten, which is the step the properties are about.

*Abstraction.* A connection may end at any time after it was made. `sock` tells an
end the plug-in is told of (`closed`) from one that comes before
`addRemoteDispatcher` listens (`missed`), which is all finding 4 is about. The
device announces itself while it serves nobody
(`RemoteServerImpl::onConnectedChanged`). `mConnectedDeviceIds` is left out: only
the UI reads it.

### 2.8 Updates

*State.* `current` and `pending` are the reply and the queue of Downloader.
`updating` are the files with `mUpdateRunning`, `dirty` the marks in the file
system, `cached` the version of each file there; `lost` observes which icons
are taken for clean though they could not be written, or not be marked. `inProgress` and `offer` are `mDownloadInProgress` and
`mAppUpdateData` of AppUpdater, `timer`, `scheduled` and `job` belong to Service.
`served` and `release` are what the server has.

*Actions.* One per end of a download: of a file (arrived, arrived with marks that fail,
not written, not modified, failed), and of the stages of an update of the program (appcast, notes,
checksum, package, or an URL that is not known any more). Each contains the slots
that hear of it: the marks a configuration sets, the update of the readers after
the providers, the start of the next download. The rest are the daily timer, the
UI that is shown, the forced check, the look-up of an icon, the download and the
abort of an update, the server that publishes, and the end and new start of the
program, between the other steps or after a file was written and before all its
icons are marked; only the file system is left then.

*Abstraction.* The content of a file is the number of its version on the server; a
configuration and the icons it names are published together. A download brings
what the server had at some moment between its start and its end. Whether an
appcast can be used, its version was skipped, a checksum fits, or updates of the
program are searched for at all, is a choice. Release information, and
configurations that cannot be parsed, are left out.

## 3. Runs

Bounds are chosen so that every action fires and every hazard the properties are
about can happen; larger ones repeat the same situations.

| Run | Instance | Result |
|---|---|---|
| `AppController` | 2 requests, 2 ticks, 2 quits | all properties hold, 451 707 states |
| `PaceChannel` | 1 reader without keypad, 2 cards (one with a transport PIN, one deactivated), not used as an SDK, 1 or 2 tries left, 2 moves, 1 failure, 1 cancellation | all properties hold, 570 033 states |
| `ChangePin` | 1 card on its last try, a basic reader and one with a keypad, 2 moves, 1 failure, 1 cancellation, kinds of readers change | all properties hold, 938 469 states |
| `RemoteService` | PIN and PUK, 2 clients, 3 requests of which 2 open at a time, 1 move, 1 cancellation | all properties hold, 432 967 states |
| `Authentication` | both workflows, 2 addresses (one of the same origin), 2 redirects or further transmits, 1 removal, 1 cancellation or kill | all properties hold, 626 342 states |
| `ReaderManager` | 1 reader, 2 commands, 2 changes, 1 scan | all properties hold, 1 052 724 states |
| `RemoteConnection` | 2 connections at a time, 1 each of overlapping searches, changes, scans, calls and time-outs | all properties hold, 1 580 423 states |
| `Updates` | 1 icon of the providers, which change once, 2 releases, 1 end of the program, 1 download of which the file or a mark cannot be written | all properties hold, 208 314 states |
| `PaceCancel` | 1 reader, 1 card | finding 1 |
| `RemoteAssert` | PIN only, 2 clients, 2 requests | finding 2 |
| `AuthHistory` | authentication for a caller, 1 address, nothing goes wrong but the server | finding 3 |
| `RemoteDead` | 2 connections, 1 change, 1 scan | finding 4 |

Larger instances that were checked once with the same result: `Authentication`
with two cancellations (945 572 states) and with two removals (1 208 610);
`PaceChannel` with 1 card, a basic reader and one with a keypad, and 4 moves or
changes of the kinds of readers (`PasswordsClearedOnAbort` and `EstablishedByCard`,
1 941 436 states), which reaches the branch of StateEstablishPaceChannel that finds
no password (line 90); `RemoteConnection`, safety only, with two changes and two refusals (9 733 166),
and with liveness for two changes without overlaps and time-outs (381 042).

Deadlock is not checked: the application stops when it has exited, workflows end
or wait for a user, a card or a client that need not come, and the bounds stop
the environment. That the system itself does not get stuck is what the liveness
properties say.

What the properties say:

* `SlotConsistent`, `RequestsAccounted`, `CompletionMatchesController`:
  the members of AppController agree with each other, with the events under way,
  and with what callers were told. `SlotSpec`: the refinement of `WorkflowSlot`.
* `ShutdownInOrder`: what a shutdown does and in which order. While the workflow
  that ran at the first quit is active, it is killed, its way to the end needs no
  user, its end is reported, and no timer runs nor is a plug-in stopped; from its
  end on one step of the closing is always under way. A workflow that starts
  after the closing has begun has no such promise (see the limits).
  `ShutdownTerminates`: the program exits. `AuthenticationAnswered`: an
  authentication is carried out or turned away.
* `PasswordsClearedOnAbort`: when the state after the abort runs, all passwords
  are gone, wherever the error struck.
* `DestroyFindsCard`, `ChangeFindsCard`, `PasswordIsThere`: pointers and
  passwords the code takes for granted are there.
* `TriesAreKnown`, `LastTryNeedsCan`: a PIN reaches a card only with the number of
  tries it was entered for, although the code decides by copies and cards are
  exchanged.
* `EstablishedByCard`: no stale result or forgotten connection opens the channel.
* `ErrorEndsPace`, `Settles`: errors leave the composite state, and the machine
  does not loop over a card that has gone.
* `SuccessMeansChanged`, `EndIsClean`: what the end of a PIN change promises, on
  every way that leads there. `KilledWorkflowEnds`: what `AppController` relies on.
* `CallerAnswered`, `SuccessIsTrue`: one answer, and a success (or an entry in the
  history) only if the server reported one with nothing cancelled or refused.
* `CheckedBeforeRead`: no command that reads the card starts with an uncompared
  certificate. `RefreshVerified`: the caller is sent to an address whose
  certificate was fetched. `CardThere`: pointers the code takes for granted.
  `AuthenticationEnds`: every authentication ends.
* `PasswordsOfClient`, `CleanStart`: nothing of one client serves the next.
  `PromptHasRequest`: a prompt goes with the request it is for.
  `AnswerFitsRequest`, `RequestAnswered`: answers belong to requests.
* `CacheSettles`: once the news of a reader have arrived, the cache agrees with
  the reader thread although full updates overtake them. `CardNotLeaked`: a card
  that is connected has somebody who will disconnect it. `CommandAnswered`.
* `AnswersExpected`: no result of an attempt finds the list of attempts empty.
  `NoGhostReader`, `LinkIsReal`: readers and connected cards are those of a
  connection that lives. `Reconnects`: a paired device that announces itself
  whenever it serves nobody is connected in the end, and stays so. Both
  `NoGhostReader` and `Reconnects` except a connection whose end the plug-in has
  missed (see the limits).
* `CleanIsCurrent`: no download that was started too early, failed or was cut off
  by the end of the program leaves an icon old and unmarked, unless it could not be
  written or marked. `UpdatesArrive`: over checks, files
  that are queued behind each other and configurations that follow each other,
  what is published arrives in the cache.

*Limits of what holds.*

* A request that is in the event loop, or the PIN change that `onWorkflowFinished`
  asks for itself, takes the waiting place after `doShutdown` has emptied it
  ("Make sure that any request for a new workflow is removed from the queue.",
  `AppController.cpp:440`), and is started while the application quits.
  `ShutdownTerminates` holds all the same. When the first quit found no workflow,
  the timer of its `completeShutdown` is already running: a second quit kills the
  workflow that started late, and the program may leave before it is over. This is
  why `ShutdownInOrder` speaks of the workflow the first quit found.
* `TypesFixed` is TRUE in the run `PaceChannel`: the WebSocket and AIDL
  interfaces set the kinds of readers once. QML lets the user change them, and
  then `PasswordIsThere`, `TriesAreKnown` and `LastTryNeedsCan` fail when he does
  so while `run()` of StateSelectReader or StateConnectCard is queued: a
  connection to one reader replaces the one the password and the retry counter
  belong to (`StateConnectCard.cpp:65`), up to the "invalid state" of
  `StateEstablishPaceChannel.cpp:90`.
* When the program is used as an SDK, StateConnectCard stays with a deactivated card
  (`StateConnectCard.cpp:77`) and keeps the connection to it. A second connect then
  may fail and leave `lastPace` as it was, so that StateMaintainCardConnection goes
  on to StateVerifyRetryCounter with a counter that was not fetched again; a card
  exchanged for another one between two polls has another counter. `TriesAreKnown`
  and `LastTryNeedsCan` fail on that way (four moves are needed). The run
  `PaceChannel` therefore is one without SDK (there they hold with five moves and
  two cancellations, too), and their theorems exclude it (`CardsAreActive`).
* That the new PIN fits the reader it is sent to (`CardConnectionWorker.cpp:268` and
  `:274` assert it) is not a property of the model, for it fails in larger
  instances. The user may change the kinds of readers twice: a `run()` of
  StateConnectCard that was queued then connects a card in another reader while
  the user enters the new PIN (`StateConnectCard.cpp:42`), and the new connection
  replaces the one the PIN was entered for. With the kinds of readers fixed, it
  takes four moves of cards and one reader that is polled three times before the
  other is polled once: the result of a connect started for one reader answers
  the state that waits for another (`CreateCardConnectionCommand.cpp:42`). The
  timers of PcscReader have the same period, so the second is not expected.
* Removing the card at the right moment makes the assertion of
  `StatePreparePace.cpp:43` fail: the model goes on there as a release build does.
* A keypad reader that refuses the length of the new PIN makes the PIN change
  enter CompositeStatePace with a connection that has accepted its PIN, and
  StatePreparePace reaches its `Q_UNREACHABLE` (line 90).
* When a PIN change has succeeded but its answer is lost, the workflow starts
  over with the old PIN it remembers; the card counts that as a failed try.
* A request of a client that arrives while another is handled is not heard and
  never answered; `RequestAnswered` is about those taken up.
* A cancellation outside StateProcessRemoteMessages ends the request and not the
  service. Passwords may be left when the service stops.
* A check for updates while notes, checksum or package are under way (the user
  may ask for one at any time) resets `mAppUpdateData` before it is refused
  (`AppUpdater.cpp:39`). The end of the download is then not recognised,
  `mDownloadInProgress` stays set, and every later check, and with it the update of
  providers and readers, is refused until the program is started again.
  `UpdatesArrive` excepts that state (`Stuck`); without the exception it is
  violated. No comment or document promises otherwise.
* An icon that could not be written is taken for clean (`UpdatableFile.cpp:178`). So
  is one that could not be marked: the configuration is written first
  (`UpdatableFile.cpp:169`) and its icons are marked one by one afterwards
  (`ProviderConfiguration.cpp:59`, `ReaderConfiguration.cpp:49`); the program may end
  in between, and a mark that cannot be created is only logged
  (`UpdatableFile.cpp:412`). Later checks find the configuration unchanged and mark
  nothing, so that such an icon stays old until its configuration changes again.
  `CleanIsCurrent`, its theorem and `UpdatesArrive` except these icons (`lost`) until
  they are marked the next time; without the exception both are violated. A file that
  the end of the program cuts off in the middle counts as the version it was to be.
* A connection that has ended before `addRemoteDispatcher` connects `fireClosed`
  (`RemoteReaderManagerPlugIn.cpp:288`) is missed. Its dispatcher stays listed, so that
  the device is never connected again (finding 4), which `Reconnects` excepts. When two
  connections overlap, the device itself closes the second; if its end is missed, a
  status of the first, which still lives, is handled for the dead dispatcher and makes a
  reader on it (`RemoteReaderManagerPlugIn.cpp:116`) that nobody removes.
  `NoGhostReader` excepts that reader; without the exception it is violated although
  nothing has failed.
* `LinkIsReal` holds until the first call that timed out: answers carry no
  correlation with requests (`RemoteCard.cpp:71`).

*Fairness.* The event loops deliver events, the reader and connector threads
work, timers (polling, searches, the shutdown timer) fire, an approved state
runs, network requests are answered or time out, card commands return, and a
device that is there announces itself and notices lost connections. In
`RemoteService` and `Authentication` the user answers what he is asked (or the
workflow would wait for him, as it should). In `Updates` downloads end (requests
have time-outs), one that is tried again and again succeeds at some time, days
pass, and the user looks at the program and its lists; strong fairness is needed
there because a failure may take the place of a success each time. Nothing else
is assumed of users, cards, servers or callers.

## 4. Findings

1. `CancelAborts`: a PACE result that is queued when the user cancels
   still establishes the channel; the workflow goes on with the status of a
   cancellation. A PIN change that was killed then sends an empty new PIN
   (`CardConnectionWorker.cpp:268`).
2. `AssertModifyPinMessage`: the client goes and another comes between the
   change of the PIN and StateChangePinResponse, whose assertions fail; a release
   build dereferences a null pointer.
3. `HistoryFindsRights`: a server that sends no terminal certificate is refused,
   but the workflow still reaches StateWriteHistory, which uses access rights that
   were never set.
4. `ListedIsConnected`: a connection that ends before the plug-in listens to it
   stays in the list of dispatchers, and the device is not connected again. It may
   even get a reader, see the limits.

## 5. Proofs

All theorems hold for every value of the constants: any readers, cards, clients,
requests, addresses, icons, and any bound on what the environment may do. They rest
on the assumptions next to the constants (`AppAssumption`, `PaceAssumption`, ...),
which say of which type the constants are and that names do not clash; TLC
evaluates them in the runs.

*AppControllerProofs.* `InductiveInvariant` proves `IInv`: types, `SlotConsistent`,
`RequestsAccounted`, `CompletionMatchesController` and `FollowUps`. The accounting of
requests is not inductive alone. It needs that at most one completion is on its way
and belongs to the active workflow, and that a PIN change that follows an
authentication (`FollowUps`) is posted only once, since the controller that asks
for it is still in the slot. Lemmas say what posting and delivering do to the queue,
then there is one for each action. From it follow `SlotIsConsistent`,
`NoRequestLost`, `CompletionFindsController`, and the refinement
`ImplementsWorkflowSlot`: each action maps to a step of `WorkflowSlot` or a stutter.
`ShutdownKeepsOrder` needs more (`ShutdownInv`): the workflow the first quit found
is never started again, a stopped state machine has an event under way, and
plug-ins that were stopped are about to report it. Lemmas say which events an
append or a delivery adds or takes, and each step of the closing hands over to the
next.

*PaceChannelProofs*, passwords. `PasswordsNeverOutliveAbort`.
StateMaintainCardConnection leads to the states that clear the passwords, but a
cancellation may leave those, too, before their `run()` was delivered. `PaceIInv`
therefore speaks of the queue (`QueueOK`): `Run("Aborted")` stands behind a `run()`
that clears, or the passwords are gone; in the states from which there is only the
way to an abort (`Closing`) a clearing `run()` is queued, or they are gone; and no
password is entered in those. The types are part of it, because a job or a result
names the reader and the password it is about. The proof follows the queue: what
appending, delivering and the polling of a reader keep (`TailKeeps` and its like),
then one lemma per action.

*PaceChannelProofs*, control. `ConnectionIsThere`, `PasswordIsAlwaysThere` and
`EstablishedByCardOnly` rest on `Control`: as long as there is no error, the active
state has at most one thing under way that can make it go on, its `run()`, its
command or the result of that, and this decides what the context holds in each
state (`Normal`). After a cancellation or an error what was under way may still
arrive (`Cancelled`); then either it is gone, or it is flying and the state that
would take it for its own is left for good. All three assume `TypesFixed`; "Limits"
says what happens without.

*PaceChannelProofs*, tries. `TriesAlwaysKnown` and `LastTryIsGuarded` are about
copies of copies: the counter of the card, what the Reader has seen of it, the
ReaderInfo of the connection, the retry counter the user was told, each updated by
news the others have not had. `TriesInv` says when they may be trusted. `SeenKnown`
and `Heard`: what the reader thread knows of a card that has not been exchanged
unnoticed is the card's counter, and news that are queued for the connection end
with it. `Followed`, while a card is watched: from the result of
StateUpdateRetryCounter through the command until the PIN is with the card, the
connection leads to the card whose counter was fetched, or the PIN will not reach a
card at all (`PinSafe`). Both assume `TypesFixed` and `CardsAreActive`.

*PaceChannelProofs*, PIN change. `SuccessChangesPin` and `ChangeEndsClean` hold
whatever types of readers the user chooses, and rest on `ChangeInv`. A
success: the states after the change are only entered with a changed PIN or an
error, and a queued answer that tells of a change implies one (`ChangedInv`). The
passwords: after StateClearPacePasswords was entered they are gone, or its
`run()` is queued, and comes before that of the final state (`ForgottenInv`). The
cards: once StateCleanUpReaderManager has run, a card is only held until the reader
thread stops the scan or the queued result of its connect is read, after the final
state, when nobody waits for it (`ClosedInv`). What both need of the queue is that
no state is to run after the final one, and that a cancelled clean-up still runs
(`LastRun`). Most steps are instances of `MainStep`, which says how a queue
may follow from another: events are carried over in their order, news join them, and
`run()` of the state that was entered comes last.

*PaceChannelProofs*, the connection of a PIN change. `ChangeFindsItsCard` and
`ChangeEstablishedByCard` do not assume `TypesFixed` either. That there is a
connection when the PIN is changed is not inductive: an update of the retry counter
or a PACE that fails may drop it at any time, and after a cancellation both may still
be under way. `FindInv` says why they are not. From the state after PACE to the
end of the channel neither is in a queue (`KeepsConn`). A PACE that can still
succeed is the only one, with no update beside it, wherever a cancellation has
taken the workflow (`Opening`), so that its success leads to such a state and its
failure does not. And a `run()` that uses the connection is ahead of everything
that could drop it (`InTime`), should the state be left before it runs. A PACE
starts alone because without an error one thing is under way at a time
(`OneAtATime`); unlike `Control`, this leaves out the states that wait for a card or
the user, which a choice of other readers starts anew. `Finds` says what a step may
do to the connection, and is shown for each action; `StepFinds` then needs no action.

*AuthenticationProofs.* `AddressIsVerified`: only the actions of
StateCheckRefreshAddress touch the address, and each sets it together with its
certificate. `SuccessHolds`: after an error or a cancellation late callbacks may do
many things, but none of them tells a success, for that depends on the status. So
`AuthIInv` says only what holds while `status = "ok"`: whatever is queued, executed or
awaited is for the active state (`InStep`), and what is known of the server fits the
place of that state in the tables of the controllers (`Flow`): the certificates have
been compared before the states that read the card, the server has reported a
result before those that write the history.

Of workflows with an error `PhasesInOrder` speaks: `Order` maps each state to its
phase and says that neither the event queue nor the network nor the reader thread
hold anything for a later phase than that of the active state.
With it `CallerIsAnswered` counts the answers (the state that answers is passed
once, and no way to the end goes around it), and `ReadsAreChecked` follows the
certificates: before PACE nothing is ever under way twice (`Beginning`), so that when
a card is selected all of them have been compared, and no request that could meet
another one is open or can be sent any more (`Checked`). `CardIsThere`
assumes `ObeysErrors`, as its run does: the code looks neither for the connection
nor for the output of PACE when the server goes on after it was told of an error.

*RemoteServiceProofs.* The context is reset whenever a client takes the place
of another (`onResetMessageHandler`), but not for the first one. `RemoteIInv`
joins the two: passwords in the context are those of the connected client
(`PasswordsStayWithClient`), and before the first client nothing has happened
(`FirstIsClean`). `ClientsStartClean` follows for every client.
`RequestIInv` is about one request: the `run()` calls in the queue are in the order
of its states, the workflow hears no client before it is back in
StateProcessRemoteMessages (`Serving`), the card command under way and its result
belong to the request the message handler waits for, or its client has gone.
`PromptsAreWanted` and `AnswersBelongToRequest` follow for any number of clients,
requests and slots.

*QueuesProofs* is about `Kept`, which removes messages from a queue when their
receiver is deleted (the destructor of a QObject): what it returns was in the queue,
at the places asked for and in the same order. Tails and appended messages fit in,
so that the other proofs never look into a queue.

*ReaderManagerProofs.* `CacheAlwaysSettles`: a full update of the cache overtakes
the signals in the event queue, and a queued signal may then bring an older state.
The invariant `IInv` follows, for each reader, the last message about it
(`CacheFollows`): that message, or when there is none the cache and the reply of the
call the main thread waits for, says what the reader thread knows. For this the main thread has to wait for one call
at a time (`OneCall`). `CardNeverLeaked` needs to know who owns a worker
(`WorkersOwned`): a CardConnection, a signal that is queued, or the command that
was told of it; the step in which the last of them goes posts the deletion, once,
and no other job uses the worker then. `CallsInOrder` adds that nothing scans for
readers after the shutdown.

*RemoteConnectionProofs.* `AnswersAlwaysExpected`: RemoteClientImpl waits for at least
as many connections as are asked for in the queue of the connector, requested, and
answered in the queue of the main thread (`Attempts`); the connector gives up
requests without an answer, so there may be less. `NoReaderOutlives` follows a new
dispatcher from the connector to the client and on to the plug-in (`Handover`): it is
in one queue at a time, its socket is open or its end was missed, and nobody else knows
of it; once the plug-in listens its end comes as news, and whoever ends unheard is
missed and not closed. `ListedConnected` says the same of the list of dispatchers: the
way of finding 4 is the only one that leaves a dead one there.
`LinkAlwaysReal` says of `mConnected` in RemoteCard what the run checks as
`LinkIsReal`, with the same two limits: the connection is the listed one, and no call has
been given up while its answer could still come. It is not inductive, for at the moment
an answer is counted nothing else may say that it was true. `LinkInv`
follows the call: in the queue of the connector, on the wire as an answer, or answered,
and in one of these only (`CallOnce`, `AnswerOnce`). An answer that a card was
connected holds as long as it is under way, or a status that says otherwise is
(`ConnectHolds`); an answer that it was disconnected is what lets the device hold no
connection without such a status (`LinkHolds`). That a status is not dropped on its way
(`RemoteDispatcher::onReceived` drops those that come before the context handle) takes
`Handover` and the names of the readers: a reader of the connection the device serves
has its context handle in its name (`NamesFit`), because the plug-in handles no status
of a connection before it (`NamedInTime`). And all of it speaks of one
connection, since only the one that the device serves is answered (`WireIsLive`,
`LinkedIsLive`).

*UpdatesProofs.* `CleanIconsAreCurrent`. A mark is taken away when a download ends
that may have been asked for before the mark was set. The invariant `UpdatesIInv`
says why that is harmless: Downloader runs one download at a time and a
configuration arrives by one, so that a running download of an icon was started
after the configuration in the cache had arrived (`IconStartedLater`), and no
configuration in the cache is ahead of the server. `StoredKeeps` is about a file that
is written with any part of its marks, be it in full, because marks fail, or because
the program ends in between.

Model-checked only: liveness and everything under fairness, which is out of the
prover's reach. Every safety invariant of a passing run is a theorem.

## 6. Plan

Done: `WorkflowSlot`, `AppController`, `PaceChannel`, `ChangePin`,
`Authentication`, `RemoteService`, `ReaderManager`, `RemoteConnection`, `Updates`, and
the proofs above. Left, in this order:

1. `ReaderManager` with several plug-ins, and `PaceChannel` as a user of it;
2. both ends of the remote protocol in one module, several devices and slots;
3. domination of the WebSocket interface across its connections, composed with
   `AppController`;
4. release information, which `Updates` leaves out.

## 7. Not modelled

Cryptography, ASN.1, XML and JSON encodings, TLS, platform I/O, presentation and
settings: they are sequential, or out of TLC's reach. These make up most of the
lines of the repository. The WebSocket and AIDL interfaces' own
protocols and the activation handlers' redirects between instances of the
program are within reach but were left for last: nothing of a workflow waits for
them. `PROJECT.json` lists every component with what is missing of it.
