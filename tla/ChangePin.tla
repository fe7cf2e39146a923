------------------------------ MODULE ChangePin ------------------------------
(***************************************************************************)
(* The workflow that changes the PIN of an ID card:                        *)
(* src/workflows/base/controller/ChangePinController.cpp around            *)
(* CompositeStatePace, whose model PaceChannel it continues.  The state    *)
(* that PaceChannel calls Established is StatePrepareChangePin here, and   *)
(* Aborted is StateClearPacePasswords.  A change that fails goes back into *)
(* CompositeStatePace.                                                     *)
(***************************************************************************)
EXTENDS PaceChannel

Outer == {"EnterNewPacePin", "ChangePin", "DestroyPaceFinal",
          "UpdateRetryCounterFinal", "CleanUpReaderManager", "Final"}
-----------------------------------------------------------------------------
(* run() of the states and the result of the change *)

\* StatePrepareChangePin::run
PrepareChangePin ==
    /\ Running("Established")
    /\ Fire(Later, "Established",
            IF pw["NEW"] = NoCard THEN "EnterNewPacePin" ELSE "ChangePin")
    /\ UNCHANGED <<kept, context, conn, readerName>>

EnterNewPacePin ==
    /\ Running("EnterNewPacePin")
    /\ Fire(Later, "EnterNewPacePin", "ChangePin")
    /\ UNCHANGED <<kept, context, conn, readerName>>

\* Without a connection the code would use a null pointer: see ChangeFindsCard.
SetEidPin ==
    /\ Running("ChangePin") /\ conn # NoConn
    /\ Invoke(Later, Job("setPin", conn.reader, "PIN", pw["NEW"]))
    /\ UNCHANGED <<kept, context, conn, readerName>>

\* StateChangePin::onSetEidPinDone
MutAfterSetEidPin(code) ==             \* faulty: any failure counts as a mismatch
    IF code = "OK" THEN "DestroyPaceFinal" ELSE "Aborted"
AfterSetEidPin(code) ==
    CASE code = "OK"               -> "DestroyPaceFinal"
      [] code = "NEW_PIN_MISMATCH" -> "Aborted"
      [] OTHER                     -> "MaintainCardConnection"
SetEidPinDone ==
    /\ Arrives("setPin")
    /\ IF Arrived.wanted
       THEN /\ lastPace' = Arrived.code
            /\ error' = (error \/ Arrived.code \in {"CANCELLATION_BY_USER", "NEW_PIN_MISMATCH"})
            /\ Fire(Later, "ChangePin", AfterSetEidPin(Arrived.code))
       ELSE UNCHANGED <<machine, lastPace, error>> /\ events' = Later
    /\ UNCHANGED <<kept, pw, pwType, expected, conn, readerName>>

ClearPasswordsFinal ==
    /\ ClearPasswords("Aborted")
    /\ Fire(Later, "Aborted", "UpdateRetryCounterFinal")

\* StateCleanUpReaderManager::run stops the scan, which closes all readers.
\* Resetting a connection waits until the reader thread has done so.
ScanStopped ==
    /\ session' = [r \in Readers |-> NoCard] /\ opened' = Closed(Readers)
    /\ seen' = [r \in Readers |-> FALSE] /\ info' = [r \in Readers |-> Unknown]
StopScan == Job("stopScan", NoReader, "PIN", NoCard)
CleanUpReaderManager ==
    /\ Running("CleanUpReaderManager")
    /\ IF conn = NoConn
       THEN /\ FireWith(Later, Append(jobs, StopScan), "CleanUpReaderManager", "Final")
            /\ UNCHANGED readerSide
       ELSE /\ jobs = <<>> /\ ScanStopped
            /\ Fire(Unsubscribed(Later), "CleanUpReaderManager", "Final")
    /\ conn' = NoConn
    /\ UNCHANGED <<rest, context, vanished, readerName>>

\* The workflow ends (see AppController), and its states are destroyed.
FinalStateRuns ==
    /\ Running("Final")
    /\ events' = [i \in DOMAIN Later |-> IF Later[i].type \in Ops \cup {"setPin"}
                                         THEN [Later[i] EXCEPT !.wanted = FALSE] ELSE Later[i]]
    /\ jobs' = [i \in DOMAIN jobs |-> [jobs[i] EXCEPT !.wanted = FALSE]]
    /\ armed' = {}
    /\ UNCHANGED <<state, kept, context, conn, readerName>>

AnswersOuterState ==
    \/ state = "DestroyPaceFinal" /\ Arrives("destroy")
    \/ state = "UpdateRetryCounterFinal" /\ Arrives("update")
OuterCommands ==
    \/ RunDestroy("DestroyPaceFinal")
    \/ RunUpdate("UpdateRetryCounterFinal", "CleanUpReaderManager")
    \/ AnswersOuterState /\ Destroyed("DestroyPaceFinal", "Aborted")
    \/ /\ AnswersOuterState
       /\ Updated("UpdateRetryCounterFinal", "CleanUpReaderManager", "CleanUpReaderManager")

ChangeMainThread ==
    \/ MainThread /\ ~AnswersOuterState
    \/ PrepareChangePin \/ EnterNewPacePin \/ SetEidPin \/ SetEidPinDone
    \/ ClearPasswordsFinal \/ OuterCommands
    \/ CleanUpReaderManager \/ FinalStateRuns
-----------------------------------------------------------------------------
(* The reader thread: CardConnectionWorker::setEidPin *)

\* With a keypad the user enters the new PIN there.
NewPins == IF Command.reader \in BasicReaders THEN {Command.secret} \cap Cards ELSE Cards

\* The card accepts a new PIN on the channel its old one has opened.
MayChange == Alive(Command.reader) /\ opened[Command.reader] = "PIN"
ExecuteSetPin ==
    /\ Executing("setPin") /\ MayChange
    /\ \E new \in NewPins : pin' = [pin EXCEPT ![session[Command.reader]] = new]
    /\ renewed' = renewed \cup {session[Command.reader]}
    /\ \/ Succeeding /\ Report(<<>>, "OK")
       \/ Failing /\ \E code \in {"CARD_NOT_FOUND", "COMMAND_FAILED"} : Report(<<>>, code)
    /\ UNCHANGED <<readerSide, slot, counter, moves>>

NotChanged(r) ==
    IF ~seen[r] \/ session[r] = NoCard THEN {"CARD_NOT_FOUND"}
    ELSE IF ~Alive(r) THEN {"CARD_NOT_FOUND", "COMMAND_FAILED"}
    ELSE (IF r \in BasicReaders THEN {}
          ELSE {"CANCELLATION_BY_USER", "NEW_PIN_MISMATCH", "NEW_PIN_INVALID_LENGTH"})
         \cup (IF MayChange /\ NewPins # {} THEN {} ELSE {"COMMAND_FAILED"})
ExecuteSetPinInVain ==
    /\ Executing("setPin")
    /\ \E code \in NotChanged(Command.reader) : Report(<<>>, code)
    /\ UNCHANGED <<readerSide, world>>
ExecuteStopScan ==
    /\ Executing("stopScan")
    /\ ScanStopped
    /\ jobs' = Tail(jobs)
    /\ UNCHANGED <<state, armed, events, context, killed, link, cache, cancels, world>>
-----------------------------------------------------------------------------
(* The user *)

UserEntersNewPin ==
    /\ state = "EnterNewPacePin" /\ ~IsApproved(state) /\ conn # NoConn
    /\ IF conn.reader \in BasicReaders
       THEN \E c \in Cards : pw' = [pw EXCEPT !["NEW"] = c]
       ELSE UNCHANGED pw
    /\ Approve(state)
    /\ UNCHANGED untouched

\* Where a cancelled state goes.
MutAbortWithoutCleanUp ==              \* faulty: straight to the end
    CASE state \in {"Established", "EnterNewPacePin", "ChangePin"} -> "MaintainCardConnection"
      [] state = "DestroyPaceFinal" -> "Aborted"
      [] state = "Aborted"          -> "UpdateRetryCounterFinal"
      [] OTHER                      -> "Final"
AbortTargetOutside ==
    CASE state \in {"Established", "EnterNewPacePin", "ChangePin"} -> "MaintainCardConnection"
      [] state = "DestroyPaceFinal"     -> "Aborted"
      [] state = "Aborted"              -> "UpdateRetryCounterFinal"
      [] state = "CleanUpReaderManager" -> "Final"
      [] OTHER                          -> "CleanUpReaderManager"
UserCancelsOutside(kill) ==
    /\ state \in (Left \cup Outer) \ {"Final"}
    /\ Cancel(kill, AbortTargetOutside)

ChangeReaderThread ==
    \/ ReaderThread
    \/ ExecuteSetPin \/ ExecuteSetPinInVain \/ ExecuteStopScan

ChangeNext ==
    \/ ChangeMainThread \/ ChangeReaderThread
    \/ \E r \in Readers : Poll(r)
    \/ Environment
    \/ UserEntersNewPin
    \/ \E kill \in BOOLEAN : UserCancelsOutside(kill)

ChangeSpec == Init /\ [][ChangeNext]_vars

\* Fairness as in PaceChannel.
FairChangeSpec ==
    /\ ChangeSpec
    /\ WF_vars(ChangeMainThread) /\ WF_vars(ChangeReaderThread)
    /\ \A r \in Readers : WF_vars(Poll(r))
-----------------------------------------------------------------------------
(* Properties *)

\* A workflow that ends without an error has changed the PIN of a card.
SuccessMeansChanged == state = "Final" /\ ~error => renewed # {}

\* StateChangePin.cpp:23 asserts the connection, StateDestroyPace uses it.
ChangeFindsCard ==
    Running("ChangePin") \/ Running("DestroyPaceFinal") => conn # NoConn

\* However the workflow has ended, no password is left (the destructors of
\* WorkflowContext and ChangePinContext assert it), and no card is held by a
\* connection that nobody owns any more.
EndIsClean ==
    /\ Running("Final") => pw = NoPasswords
    /\ state = "Final" /\ events = <<>> /\ jobs = <<>> =>
        \A r \in Readers : session[r] \notin Cards

\* A killed workflow ends: AppController waits for it when it shuts down.
KilledWorkflowEnds == killed ~> state = "Final"
=============================================================================
