------------------------- MODULE AuthenticationProofs -------------------------
(***************************************************************************)
(* Theorems about Authentication, for every set of addresses and all       *)
(* bounds.                                                                 *)
(*                                                                         *)
(* A success is only told to the caller, and only entered into the         *)
(* history, while there is no error.  The first invariant therefore speaks *)
(* of workflows without one: they are on the way from state to state that  *)
(* the tables of the controllers prescribe, one thing at a time.           *)
(*                                                                         *)
(* That the caller is answered, that nothing is read unchecked and that    *)
(* the card is there when it is used must hold with an error, too, when    *)
(* late callbacks, cancellations and removals leave any state for another. *)
(* The second invariant, Order, divides the states into phases: whatever   *)
(* happens, a workflow never returns to an earlier one, and no call of     *)
(* run(), no request and no command is for a phase that has not begun.     *)
(***************************************************************************)
EXTENDS Authentication, QueuesProofs, TLAPS

\* Nothing but the search for the address touches what was found of it.
LEMMA OthersKeepRefresh ==
    ASSUME AuthNext,
           ~CheckRefreshAddress, ~RefreshRedirect, ~RefreshHandshake
    PROVE  UNCHANGED refresh
<1>1. CASE MainThread
  <2>1. ASSUME Passing \/ Processing \/ ParseTcTokenUrl \/ GetTcToken \/ Send
        PROVE  UNCHANGED refresh
    BY <2>1 DEF Passing, Processing, ParseTcTokenUrl, GetTcToken, Send, Checks, rest
  <2>2. ASSUME \/ ExtractCvcsFromEac1InputType \/ PreVerification \/ CertificateDescriptionCheck
               \/ CheckCertificates \/ ClearPacePasswords \/ DidAuthenticateEac1
        PROVE  UNCHANGED refresh
    BY <2>2 DEF ExtractCvcsFromEac1InputType, PreVerification, CertificateDescriptionCheck,
                CheckCertificates, ClearPacePasswords, DidAuthenticateEac1, Checks, rest
  <2>3. ASSUME \/ EACAdditionalInputType \/ ProcessCertificatesFromEac2 \/ DidAuthenticateEac2
               \/ Transmit \/ StartPaosResponse \/ UpdateRetryCounter \/ CleanUpReaderManager
        PROVE  UNCHANGED refresh
    BY <2>3 DEF EACAdditionalInputType, ProcessCertificatesFromEac2, DidAuthenticateEac2,
                Transmit, StartPaosResponse, UpdateRetryCounter, CleanUpReaderManager, Checks, rest
  <2>4. ASSUME \/ CheckError \/ WriteHistory \/ GetSelfAuthenticationData
               \/ RedirectBrowser \/ CommandDone \/ UpdateRetryCounterDone
        PROVE  UNCHANGED refresh
    BY <2>4 DEF CheckError, WriteHistory, GetSelfAuthenticationData, RedirectBrowser,
                CommandDone, UpdateRetryCounterDone, rest
  <2> QED BY <1>1, <2>1, <2>2, <2>3, <2>4 DEF MainThread
<1>2. CASE Network
  BY <1>2 DEF Network, TcTokenHandshake, TcTokenRedirect, TcTokenReply, SelfReply,
              RequestFails, CheckedHandshake, ReceiveMessage, rest
<1>3. CASE Execute \/ PaceEstablished \/ PaceAborted \/ Approve \/ CardRemoved
           \/ \E kill \in BOOLEAN : Cancel(kill)
  BY <1>3 DEF Execute, PaceEstablished, PaceAborted, Approve, CardRemoved, Cancel, rest
<1> QED BY <1>1, <1>2, <1>3 DEF AuthNext

\* The address found is one whose certificate has been fetched.
THEOREM AddressIsVerified == AuthSpec => []RefreshVerified
<1>1. AuthInit => RefreshVerified
  BY DEF AuthInit, RefreshVerified
<1>2. RefreshVerified /\ [AuthNext]_vars => RefreshVerified'
  <2> SUFFICES ASSUME RefreshVerified, [AuthNext]_vars PROVE RefreshVerified'
    OBVIOUS
  <2>1. CASE UNCHANGED refresh
    BY <2>1 DEF RefreshVerified, refresh
  <2>2. CASE CheckRefreshAddress
    BY <2>2 DEF CheckRefreshAddress, Fetch, Get, RefreshDone, RefreshVerified, refresh
  <2>3. CASE RefreshRedirect
    BY <2>3 DEF RefreshRedirect, Fetch, Get, RefreshDone, RefreshVerified
  <2>4. CASE RefreshHandshake
    BY <2>4 DEF RefreshHandshake, RefreshDone, RefreshVerified
  <2> QED BY <2>1, <2>2, <2>3, <2>4, OthersKeepRefresh DEF vars
<1> QED BY <1>1, <1>2, PTL DEF AuthSpec
-----------------------------------------------------------------------------
(* As long as nothing has gone wrong (status = "ok"), the workflow does one *)
(* thing at a time, for the state that is active.                           *)

InStep == status = "ok" =>
    /\ ~cancelled /\ ~reported
    /\ net \in [NetStates -> {"none", "sent", "open"}]
    /\ \A s \in NetStates : net[s] # "none" => s = state /\ events = <<>>
    /\ \/ events = <<>>
       \/ events = <<Run(state)>> /\ state \notin {"Pace", "Ended"}
       \/ state \in CardStates /\ \E r \in Results : events = <<Done(state, r)>>
    /\ jobs # <<>> => /\ jobs = <<[of |-> state, wanted |-> TRUE]>>
                      /\ state \in CardStates /\ events = <<>>

\* The states before the server has sent EAC1, those that examine it, and
\* those after the server has reported its result; the ones after the history.
Before == {"Processing", "ParseTcTokenUrl", "LoadTcTokenUrl", "GetTcToken", "StartPaos",
           "SendStartPaos", "InitializeFramework", "SendInitializeFrameworkResponse",
           "DidList", "SendDIDListResponse"}
Examining == {"ExtractCvcsFromEac1InputType", "PreVerification",
              "CertificateDescriptionCheck", "CheckCertificates"}
Post == {"SendWhitelistSurvey", "RedirectBrowser", "GetSelfAuthenticationData",
         "ShowSelfInfo", "FinalState", "Ended", "Crashed"}
After == Post \cup {"UpdateRetryCounter", "CleanUpReaderManager", "CheckError",
                    "CheckRefreshAddress", "ActivateStoreFeedbackDialog", "WriteHistory"}
Talking == {"EditAccessRights", "Pace", "ClearPacePasswords", "DidAuthenticateEac1",
            "SendResponseEAC1", "EACAdditionalInputType", "SendResponseAdditional",
            "ProcessCertificatesFromEac2", "DidAuthenticateEac2", "SendResponseEAC2",
            "Transmit", "SendTransmitResponse", "SendDisconnectResponse", "StartPaosResponse"}
SelfOnly == {"LoadTcTokenUrl", "CheckError", "GetSelfAuthenticationData", "ShowSelfInfo"}

\* Where the conversation has got, and what is known by then.
Known(s) ==
    /\ s \in Before \cup Examining \cup Talking \cup After
    /\ workflow = "auth" => s \notin SelfOnly
    /\ s \in Before <=> eac1 = "none" /\ s \notin Talking \cup After
    /\ s \in Examining \ {"ExtractCvcsFromEac1InputType"} => dvCvc
    /\ s = "CheckCertificates" => eac1 # "NoDescription"
    /\ s \in Talking \cup After /\ eac1 # "none" =>
           dvCvc /\ eac1 # "NoDescription" /\ certificates \subseteq {"listed"}
    /\ s \in After \ {"Crashed"} => response = "ok"
    /\ rights => eac1 # "none"
    /\ s \notin Post => history = 0
Flow == status = "ok" => Known(state)

AuthIInv == InStep /\ Flow
-----------------------------------------------------------------------------
(* The next state, looked up in the tables *)

LEMMA NextStates ==
    /\ Continue("Processing") = "ParseTcTokenUrl"
    /\ Continue("ParseTcTokenUrl") = "GetTcToken"
    /\ Continue("GetTcToken") = "StartPaos"
    /\ Continue("StartPaos") = "SendStartPaos"
    /\ Continue("InitializeFramework") = "SendInitializeFrameworkResponse"
    /\ Continue("DidList") = "SendDIDListResponse"
    /\ Continue("ExtractCvcsFromEac1InputType") = "PreVerification"
    /\ Continue("PreVerification") = "CertificateDescriptionCheck"
    /\ Continue("CertificateDescriptionCheck") = "CheckCertificates"
    /\ Continue("CheckCertificates") = "EditAccessRights"
    /\ Continue("EditAccessRights") = "Pace"
    /\ Continue("Pace") = "ClearPacePasswords"
    /\ Continue("ClearPacePasswords") = "DidAuthenticateEac1"
    /\ Continue("DidAuthenticateEac1") = "SendResponseEAC1"
    /\ Continue("EACAdditionalInputType") = "ProcessCertificatesFromEac2"
    /\ Continue("ProcessCertificatesFromEac2") = "DidAuthenticateEac2"
    /\ Continue("DidAuthenticateEac2") = "SendResponseEAC2"
    /\ Continue("Transmit") = "SendTransmitResponse"
    /\ Continue("StartPaosResponse") = "UpdateRetryCounter"
    /\ Continue("UpdateRetryCounter") = "CleanUpReaderManager"
    /\ Continue("CheckRefreshAddress") = "ActivateStoreFeedbackDialog"
    /\ Continue("ActivateStoreFeedbackDialog") = "WriteHistory"
    /\ Continue("RedirectBrowser") = "FinalState"
    /\ Continue("FinalState") = "Ended"
    /\ AbortOf("UpdateRetryCounter") = "CleanUpReaderManager"
BY DEF Continue, AuthContinue, SelfContinue, AbortOf, AuthAbort, SelfAbort, Over

\* Where the two workflows differ.
LEMMA NextStatesDiffer ==
    /\ Continue("CleanUpReaderManager") \in {"CheckRefreshAddress", "CheckError"}
    /\ workflow = "auth" => Continue("CleanUpReaderManager") = "CheckRefreshAddress"
    /\ Continue("WriteHistory") \in {"SendWhitelistSurvey", "GetSelfAuthenticationData"}
    /\ workflow = "auth" => Continue("WriteHistory") = "SendWhitelistSurvey"
    /\ AbortOf("WriteHistory") \in {"RedirectBrowser", "GetSelfAuthenticationData"}
    /\ workflow = "auth" => AbortOf("WriteHistory") = "RedirectBrowser"
    /\ Continue("SendWhitelistSurvey") \in {"RedirectBrowser", "FinalState"}
    /\ workflow # "auth" =>
           /\ Continue("LoadTcTokenUrl") = "GetTcToken"
           /\ Continue("CheckError") = "CheckRefreshAddress"
           /\ Continue("GetSelfAuthenticationData") = "ShowSelfInfo"
           /\ Continue("ShowSelfInfo") = "SendWhitelistSurvey"
BY DEF Continue, AuthContinue, SelfContinue, AbortOf, AuthAbort, SelfAbort, Over
-----------------------------------------------------------------------------
(* Leaving a state *)

Entered(next) ==
    /\ state' = next /\ jobs' = <<>>
    /\ net' \in [NetStates -> {"none", "sent", "open"}]
    /\ \A s \in NetStates : net'[s] = "none"
    /\ events' = <<>> \/ (events' = <<Run(next)>> /\ next \notin {"Pace", "Ended"})

LEMMA RunningState ==
    ASSUME InStep, status = "ok", NEW s, Running(s)
    PROVE  /\ s = state /\ events = <<Run(state)>> /\ Later = <<>> /\ jobs = <<>>
           /\ \A r \in NetStates : net[r] = "none"
<1>1. events # <<>> /\ Head(events) = Run(s)
  BY DEF Running
<1>2. events = <<Run(state)>>
  BY <1>1 DEF InStep, Run, Done
<1> QED BY <1>1, <1>2 DEF InStep, Run, Later

LEMMA EnterFromQuiet ==
    ASSUME InStep, status = "ok", NEW next, NEW requests,
           jobs = <<>>, requests \in [NetStates -> {"none", "sent", "open"}],
           \A r \in NetStates \ {state} : requests[r] = "none",
           Enter(<<>>, requests, next)
    PROVE  Entered(next)
BY DEF Enter, EnterIf, Entered

LEMMA FireFromRun ==
    ASSUME InStep, status = "ok", NEW s, Running(s), NEW next, Fire(s, next)
    PROVE  s = state /\ Entered(next)
<1>1. s = state /\ jobs = <<>> /\ Later = <<>> /\ \A r \in NetStates : net[r] = "none"
  BY RunningState
<1>2. Enter(<<>>, net, next)
  BY <1>1 DEF Fire, FireIn
<1> QED BY <1>1, <1>2, EnterFromQuiet DEF InStep

LEMMA FireFromNet ==
    ASSUME InStep, status = "ok", NEW s \in NetStates, net[s] # "none", NEW next,
           FireIn(events, Finished(s), s, next)
    PROVE  s = state /\ Entered(next)
<1>1. s = state /\ events = <<>> /\ jobs = <<>> /\ \A r \in NetStates \ {s} : net[r] = "none"
  <2>1. s = state /\ events = <<>> /\ \A r \in NetStates \ {s} : net[r] = "none"
    BY DEF InStep
  <2>2. s \notin CardStates
    BY DEF NetStates, CardStates, SendStates, Expected
  <2> QED BY <2>1, <2>2 DEF InStep
<1>2. Enter(<<>>, Finished(s), next)
  BY <1>1 DEF FireIn
<1>3. Finished(s) \in [NetStates -> {"none", "sent", "open"}]
  BY DEF Finished, InStep
<1>4. \A r \in NetStates \ {state} : Finished(s)[r] = "none"
  BY <1>1 DEF Finished, InStep
<1> QED BY <1>1, <1>2, <1>3, <1>4, EnterFromQuiet

LEMMA FireFromCard ==
    ASSUME InStep, status = "ok", NEW s, NEW r, events # <<>>, Head(events) = Done(s, r),
           NEW next, Fire(s, next)
    PROVE  s = state /\ Entered(next)
<1>1. \E q \in Results : events = <<Done(state, q)>>
  BY DEF InStep, Run, Done
<1>2. s = state /\ Later = <<>>
  BY <1>1 DEF Done, Later
<1>3. jobs = <<>> /\ \A q \in NetStates : net[q] = "none"
  BY DEF InStep
<1>4. Enter(<<>>, net, next)
  BY <1>2 DEF Fire, FireIn
<1> QED BY <1>2, <1>3, <1>4, EnterFromQuiet DEF InStep

LEMMA EnteredInStep ==
    ASSUME NEW next, Entered(next), ~cancelled', ~reported'
    PROVE  InStep'
BY DEF Entered, InStep, Run
-----------------------------------------------------------------------------
(* run() of the states *)

\* An error once is an error for ever.
LEMMA StatusStays == AuthNext => status' \in {status, "error"}
<1> SUFFICES ASSUME AuthNext PROVE status' \in {status, "error"}
  OBVIOUS
<1>1. CASE MainThread
  BY <1>1 DEF MainThread, Passing, Processing, ParseTcTokenUrl, GetTcToken, Send,
       ExtractCvcsFromEac1InputType, PreVerification, CertificateDescriptionCheck,
       CheckCertificates, ClearPacePasswords, DidAuthenticateEac1,
       EACAdditionalInputType, ProcessCertificatesFromEac2, DidAuthenticateEac2,
       Transmit, StartPaosResponse, UpdateRetryCounter, CleanUpReaderManager,
       CheckError, CheckRefreshAddress, WriteHistory, GetSelfAuthenticationData,
       RedirectBrowser, CommandDone, UpdateRetryCounterDone,
       Checks, Decides, UpdateStatus, SendTcTokenRequest
<1>2. CASE Network
  BY <1>2 DEF Network, TcTokenHandshake, TcTokenRedirect, TcTokenReply, SelfReply, RequestFails,
       CheckedHandshake, ReceiveMessage, RefreshRedirect, RefreshHandshake, UpdateStatus,
       SendTcTokenRequest
<1>3. CASE Execute \/ PaceEstablished \/ PaceAborted \/ Approve \/ CardRemoved
           \/ \E kill \in BOOLEAN : Cancel(kill)
  BY <1>3 DEF Execute, PaceEstablished, PaceAborted, Approve, CardRemoved, Cancel, UpdateStatus
<1> QED BY <1>1, <1>2, <1>3 DEF AuthNext

\* With everything else unchanged, the tables decide.
LEMMA PlainStep ==
    ASSUME AuthIInv, status = "ok", NEW next, Entered(next),
           UNCHANGED <<workflow, status, rest>>, Known(state) => Known(next)
    PROVE  AuthIInv'
<1>1. InStep'
  BY EnteredInStep DEF AuthIInv, InStep, rest, ending, server
<1>2. Known(next) /\ state' = next
  BY DEF AuthIInv, Flow, Entered
<1> QED BY <1>1, <1>2 DEF AuthIInv, Flow, Known, rest, server, trust, outcome

LEMMA PlainRun ==
    ASSUME AuthIInv, status = "ok", NEW s, Running(s), NEW next, Fire(s, next),
           UNCHANGED <<workflow, status, rest>>, Known(s) => Known(next)
    PROVE  AuthIInv'
BY PlainStep, FireFromRun DEF AuthIInv

LEMMA PassingKeeps ==
    ASSUME AuthIInv, status = "ok", Passing PROVE AuthIInv'
<1>1. PICK s \in {"LoadTcTokenUrl", "StartPaos", "InitializeFramework", "DidList",
                  "EditAccessRights", "ActivateStoreFeedbackDialog", "ShowSelfInfo",
                  "SendWhitelistSurvey", "FinalState"} :
            Running(s) /\ FireContinue(s) /\ UNCHANGED <<workflow, status, rest>>
  BY DEF Passing
<1>2. Known(s) => Known(Continue(s))
  BY NextStates, NextStatesDiffer
     DEF Known, Before, Examining, Talking, After, Post, SelfOnly
<1> QED BY <1>1, <1>2, PlainRun DEF FireContinue

\* A check that fails ends what the invariant is about.
LEMMA ChecksKeep ==
    ASSUME AuthIInv, status = "ok", NEW s, NEW good \in BOOLEAN, Checks(s, good), status' = "ok",
           good /\ Known(s) => Known(Continue(s))
    PROVE  AuthIInv'
<1>1. good
  BY DEF Checks, Decides, UpdateStatus
<1>2. Running(s) /\ Fire(s, Continue(s)) /\ UNCHANGED <<workflow, status, rest>>
  BY <1>1 DEF Checks, Decides, FireContinue
<1> QED BY <1>1, <1>2, PlainRun

LEMMA CheckingKeeps ==
    ASSUME AuthIInv, status = "ok", status' = "ok",
           \/ Processing \/ ParseTcTokenUrl \/ PreVerification
           \/ CertificateDescriptionCheck \/ CheckCertificates
    PROVE  AuthIInv'
<1>1. CASE Processing
  <2>1. Known("Processing") => Known(Continue("Processing"))
    BY NextStates DEF Known, Before, Examining, Talking, After, Post, SelfOnly
  <2> QED BY <1>1, <2>1, ChecksKeep DEF Processing
<1>2. CASE ParseTcTokenUrl
  <2>1. Known("ParseTcTokenUrl") => Known(Continue("ParseTcTokenUrl"))
    BY NextStates DEF Known, Before, Examining, Talking, After, Post, SelfOnly
  <2> QED BY <1>2, <2>1, ChecksKeep DEF ParseTcTokenUrl
<1>3. CASE PreVerification
  <2>1. Known("PreVerification") => Known(Continue("PreVerification"))
    BY NextStates DEF Known, Before, Examining, Talking, After, Post, SelfOnly
  <2> QED BY <1>3, <2>1, ChecksKeep DEF PreVerification
<1>4. CASE CertificateDescriptionCheck
  <2>1. eac1 \notin {"NoDescription", "BadDescription"} /\ Known("CertificateDescriptionCheck")
            => Known(Continue("CertificateDescriptionCheck"))
    BY NextStates DEF Known, Before, Examining, Talking, After, Post, SelfOnly
  <2> QED BY <1>4, <2>1, ChecksKeep DEF CertificateDescriptionCheck
<1>5. CASE CheckCertificates
  <2>1. certificates \subseteq {"listed"} /\ Known("CheckCertificates")
            => Known(Continue("CheckCertificates"))
    BY NextStates DEF Known, Before, Examining, Talking, After, Post, SelfOnly
  <2> QED BY <1>5, <2>1, ChecksKeep DEF CheckCertificates
<1> QED BY <1>1, <1>2, <1>3, <1>4, <1>5

\* What a step that leaves the state has to show besides.
LEMMA KnownAfter ==
    ASSUME NEW next, Entered(next), ~cancelled', ~reported', Known(state)'
    PROVE  AuthIInv'
BY EnteredInStep DEF AuthIInv, Flow

LEMMA CrashKeeps ==
    ASSUME AuthIInv, status = "ok", Crash, UNCHANGED <<workflow, status, rest>>,
           state \in Talking \cup After
    PROVE  AuthIInv'
<1>1. InStep'
  BY DEF Crash, InStep, AuthIInv, rest, ending, server
<1>2. Known(state)'
  BY DEF Crash, AuthIInv, Flow, Known, Before, Examining, Talking, After, Post, SelfOnly,
         rest, server, trust, outcome
<1> QED BY <1>1, <1>2 DEF AuthIInv, Flow

LEMMA ExtractKeeps ==
    ASSUME AuthIInv, status = "ok", status' = "ok", ExtractCvcsFromEac1InputType
    PROVE  AuthIInv'
<1> DEFINE s == "ExtractCvcsFromEac1InputType"
<1>1. /\ Fire(s, Continue(s)) /\ Running(s)
      /\ eac1 \notin {"NoTerminal", "TwoTerminals", "NoDv"}
  BY DEF ExtractCvcsFromEac1InputType, Decides, UpdateStatus, FireContinue
<1>2. state = s /\ Entered("PreVerification")
  BY <1>1, FireFromRun, NextStates DEF AuthIInv
<1>3. Known(state)'
  BY <1>1, <1>2 DEF Entered, AuthIInv, Flow, Known, Before, Examining, Talking, After, Post,
       SelfOnly, ExtractCvcsFromEac1InputType, server, outcome
<1> QED BY <1>2, <1>3, KnownAfter
        DEF AuthIInv, InStep, ExtractCvcsFromEac1InputType, server, ending

LEMMA StartPaosResponseKeeps ==
    ASSUME AuthIInv, status = "ok", status' = "ok", StartPaosResponse
    PROVE  AuthIInv'
<1> DEFINE s == "StartPaosResponse"
<1>1. Fire(s, Continue(s)) /\ Running(s) /\ response = "ok"
  BY DEF StartPaosResponse, Decides, UpdateStatus, FireContinue
<1>2. state = s /\ Entered("UpdateRetryCounter")
  BY <1>1, FireFromRun, NextStates DEF AuthIInv
<1>3. Known(state)'
  BY <1>1, <1>2 DEF Entered, AuthIInv, Flow, Known, Before, Examining, Talking, After, Post,
       SelfOnly, StartPaosResponse, trust, outcome
<1> QED BY <1>2, <1>3, KnownAfter DEF AuthIInv, InStep, StartPaosResponse, ending

LEMMA ClearingKeeps ==
    ASSUME AuthIInv, status = "ok", ClearPacePasswords \/ CleanUpReaderManager
    PROVE  AuthIInv'
<1>1. CASE ClearPacePasswords
  <2>1. state = "ClearPacePasswords" /\ Entered("DidAuthenticateEac1")
    BY <1>1, FireFromRun, NextStates DEF AuthIInv, ClearPacePasswords, FireContinue
  <2>2. Known(state)'
    BY <1>1, <2>1 DEF Entered, AuthIInv, Flow, Known, Before, Examining, Talking, After, Post,
         SelfOnly, ClearPacePasswords, server, trust, outcome
  <2> QED BY <1>1, <2>1, <2>2, KnownAfter DEF AuthIInv, InStep, ClearPacePasswords, ending, server
<1>2. CASE CleanUpReaderManager
  <2>1. /\ state = "CleanUpReaderManager"
        /\ Entered(Continue("CleanUpReaderManager"))
    BY <1>2, FireFromRun DEF AuthIInv, CleanUpReaderManager, FireContinue
  <2>2. Known(state)'
    BY <1>2, <2>1, NextStatesDiffer
       DEF Entered, AuthIInv, Flow, Known, Before, Examining, Talking, After, Post,
           SelfOnly, CleanUpReaderManager, server, trust, outcome
  <2> QED BY <1>2, <2>1, <2>2, KnownAfter
          DEF AuthIInv, InStep, CleanUpReaderManager, ending, server
<1> QED BY <1>1, <1>2

LEMMA AdditionalKeeps ==
    ASSUME AuthIInv, status = "ok", status' = "ok",
           EACAdditionalInputType \/ ProcessCertificatesFromEac2 \/ CheckError
    PROVE  AuthIInv'
<1>1. CASE EACAdditionalInputType
  <2>1. PICK next \in {"ProcessCertificatesFromEac2", "SendResponseAdditional"} :
            Running("EACAdditionalInputType") /\ Fire("EACAdditionalInputType", next)
    BY <1>1, NextStates DEF EACAdditionalInputType
  <2>2. Known("EACAdditionalInputType") => Known(next)
    BY DEF Known, Before, Examining, Talking, After, Post, SelfOnly
  <2> QED BY <1>1, <2>1, <2>2, PlainRun DEF EACAdditionalInputType
<1>2. CASE ProcessCertificatesFromEac2
  <2>1. Known("ProcessCertificatesFromEac2") => Known(Continue("ProcessCertificatesFromEac2"))
    BY NextStates DEF Known, Before, Examining, Talking, After, Post, SelfOnly
  <2>2. CASE pace
    BY <1>2, <2>1, <2>2, ChecksKeep DEF ProcessCertificatesFromEac2
  <2>3. CASE ~pace
    BY <1>2, <2>3, RunningState, CrashKeeps DEF ProcessCertificatesFromEac2, AuthIInv, Talking
  <2> QED BY <2>2, <2>3
<1>3. CASE CheckError
  <2>1. Known("CheckError") => Known(Continue("CheckError"))
    BY NextStatesDiffer DEF Known, Before, Examining, Talking, After, Post, SelfOnly
  <2> QED BY <1>3, <2>1, PlainRun DEF CheckError, FireContinue
<1> QED BY <1>1, <1>2, <1>3

LEMMA WriteHistoryKeeps ==
    ASSUME AuthIInv, status = "ok", WriteHistory
    PROVE  AuthIInv'
<1>1. state = "WriteHistory"
  BY RunningState DEF AuthIInv, WriteHistory
<1>2. CASE Crash /\ UNCHANGED history
  BY <1>1, <1>2, CrashKeeps DEF WriteHistory, rest, outcome, After
<1>3. CASE \E next \in {Continue("WriteHistory"), AbortOf("WriteHistory")} :
                Fire("WriteHistory", next)
  <2>1. PICK next \in {Continue("WriteHistory"), AbortOf("WriteHistory")} :
                Fire("WriteHistory", next)
    BY <1>3
  <2>2. Entered(next)
    BY <2>1, FireFromRun DEF AuthIInv, WriteHistory
  <2>3. next \in Post /\ (workflow = "auth" => next \notin SelfOnly)
    BY NextStatesDiffer DEF Post, SelfOnly
  <2>4. Known(state)'
    BY <1>1, <2>2, <2>3 DEF Entered, AuthIInv, Flow, Known, Before, Examining, Talking, After,
         Post, WriteHistory, server, trust
  <2> QED BY <2>2, <2>4, KnownAfter DEF AuthIInv, InStep, WriteHistory, ending, server
<1> QED BY <1>2, <1>3 DEF WriteHistory, FireContinue, FireAbort

LEMMA RedirectBrowserKeeps ==
    ASSUME AuthIInv, status = "ok", status' = "ok", RedirectBrowser
    PROVE  AuthIInv'
<1>1. state = "RedirectBrowser" /\ Entered("FinalState")
  BY FireFromRun, NextStates DEF AuthIInv, RedirectBrowser, Decides, UpdateStatus, FireContinue
<1>2. Known(state)'
  BY <1>1 DEF Entered, AuthIInv, Flow, Known, Before, Examining, Talking, After, Post,
       SelfOnly, RedirectBrowser, server, trust
<1> QED BY <1>1, <1>2, KnownAfter DEF AuthIInv, InStep, RedirectBrowser, ending, server
-----------------------------------------------------------------------------
(* The network *)

LEMMA WaitingAlone ==
    ASSUME InStep, status = "ok", NEW s \in NetStates, net[s] # "none"
    PROVE  /\ s = state /\ events = <<>> /\ jobs = <<>>
           /\ \A r \in NetStates \ {s} : net[r] = "none"
<1>1. s = state /\ events = <<>> /\ \A r \in NetStates \ {s} : net[r] = "none"
  BY DEF InStep
<1>2. s \notin CardStates
  BY DEF NetStates, CardStates, SendStates, Expected
<1> QED BY <1>1, <1>2 DEF InStep

LEMMA WaitStep ==
    ASSUME AuthIInv, status = "ok", NEW s \in NetStates, s = state, events' = <<>>, jobs = <<>>,
           \A r \in NetStates \ {s} : net[r] = "none",
           NEW v \in {"sent", "open"}, net' = [net EXCEPT ![s] = v],
           UNCHANGED <<state, jobs>>, ~cancelled', ~reported', Known(state)'
    PROVE  AuthIInv'
<1>1. /\ net \in [NetStates -> {"none", "sent", "open"}] /\ ~cancelled /\ ~reported
  BY DEF AuthIInv, InStep
<1>2. /\ net' \in [NetStates -> {"none", "sent", "open"}]
      /\ \A r \in NetStates : net'[r] # "none" => r = state'
  BY <1>1
<1>3. InStep'
  BY <1>1, <1>2 DEF InStep
<1> QED BY <1>3 DEF AuthIInv, Flow

\* run() of a state that sends a request.
LEMMA SendingKeeps ==
    ASSUME AuthIInv, status = "ok", NEW s \in NetStates, Running(s), net' = Requested(s),
           events' = Later, KeepsState, ~cancelled', ~reported',
           Known(s) => Known(state)'
    PROVE  AuthIInv'
<1>1. /\ s = state /\ Later = <<>> /\ jobs = <<>>
      /\ \A r \in NetStates : net[r] = "none"
  BY RunningState DEF AuthIInv
<1>2. Known(state)'
  BY <1>1 DEF AuthIInv, Flow
<1> QED BY <1>1, <1>2, WaitStep DEF Requested, KeepsState

LEMMA RequestsKeep ==
    ASSUME AuthIInv, status = "ok", status' = "ok",
           GetTcToken \/ Send \/ GetSelfAuthenticationData
    PROVE  AuthIInv'
<1>1. CASE GetTcToken
  <2>1. /\ Running("GetTcToken") /\ net' = Requested("GetTcToken") /\ events' = Later
        /\ KeepsState
    BY <1>1 DEF GetTcToken, SendTcTokenRequest, UpdateStatus
  <2>2. Known("GetTcToken") => Known(state)'
    BY <1>1, <2>1, RunningState
       DEF AuthIInv, Known, GetTcToken, trust, outcome, KeepsState
  <2> QED BY <1>1, <2>1, <2>2, SendingKeeps
          DEF GetTcToken, ending, NetStates, AuthIInv, InStep
<1>2. CASE Send
  <2>1. PICK s \in SendStates :
            /\ Running(s) /\ net' = Requested(s) /\ events' = Later /\ KeepsState
            /\ reported' = (reported \/ (s # "SendStartPaos" /\ status = "error"))
            /\ UNCHANGED <<workflow, response, eac1, trust, outcome, ending>>
    BY <1>2 DEF Send
  <2>2. Known(s) => Known(state)'
    BY <2>1, RunningState DEF AuthIInv, Known, trust, outcome, KeepsState
  <2>3. ~cancelled' /\ ~reported'
    BY <2>1 DEF AuthIInv, InStep, ending
  <2> QED BY <2>1, <2>2, <2>3, SendingKeeps DEF NetStates
<1>3. CASE GetSelfAuthenticationData
  <2>1. Known("GetSelfAuthenticationData") => Known(state)'
    BY <1>3, RunningState
       DEF AuthIInv, Known, GetSelfAuthenticationData, KeepsState, rest, server, trust, outcome
  <2> QED BY <1>3, <2>1, SendingKeeps
          DEF GetSelfAuthenticationData, NetStates, rest, ending, server, AuthIInv, InStep
<1> QED BY <1>1, <1>2, <1>3

\* A reply leaves the state that waits for it.
LEMMA ReplyKeeps ==
    ASSUME AuthIInv, status = "ok", NEW s \in NetStates, net[s] # "none", NEW next,
           FireIn(events, Finished(s), s, next), ~cancelled', ~reported',
           Known(s) /\ state' = next => Known(state)'
    PROVE  AuthIInv'
<1>1. s = state /\ Entered(next)
  BY FireFromNet DEF AuthIInv
<1>2. Known(state)'
  BY <1>1 DEF AuthIInv, Flow, Entered
<1> QED BY <1>1, <1>2, KnownAfter

\* A handshake or a redirect leaves the request as it is, but open or sent again.
LEMMA RequestGoesOn ==
    ASSUME AuthIInv, status = "ok", NEW s \in NetStates, net[s] # "none",
           NEW v \in {"sent", "open"}, net' = [net EXCEPT ![s] = v],
           UNCHANGED <<state, jobs, events>>, ~cancelled', ~reported',
           Known(s) => Known(state)'
    PROVE  AuthIInv'
<1>1. /\ s = state /\ events = <<>> /\ jobs = <<>>
      /\ \A r \in NetStates \ {s} : net[r] = "none"
  BY WaitingAlone DEF AuthIInv
<1>2. Known(state)'
  BY <1>1 DEF AuthIInv, Flow
<1> QED BY <1>1, <1>2, WaitStep

LEMMA TcTokenKeeps ==
    ASSUME AuthIInv, status = "ok", status' = "ok",
           TcTokenHandshake \/ TcTokenRedirect \/ TcTokenReply
    PROVE  AuthIInv'
<1> "GetTcToken" \in NetStates
  BY DEF NetStates
<1>1. CASE TcTokenHandshake
  <2>1. Known("GetTcToken") /\ state = "GetTcToken" => Known(state)'
    BY <1>1 DEF Known, Before, Examining, Talking, After, Post, SelfOnly, TcTokenHandshake,
         server, outcome
  <2>2. state = "GetTcToken"
    BY <1>1, WaitingAlone DEF AuthIInv, TcTokenHandshake
  <2> QED BY <1>1, <2>1, <2>2, RequestGoesOn DEF TcTokenHandshake, Opened, ending, server, AuthIInv, InStep
<1>2. CASE TcTokenRedirect
  <2>1. net' = Requested("GetTcToken") /\ UNCHANGED <<state, jobs, events>>
    BY <1>2 DEF TcTokenRedirect, SendTcTokenRequest, UpdateStatus, KeepsState
  <2>2. Known("GetTcToken") /\ state = "GetTcToken" => Known(state)'
    BY <1>2, <2>1 DEF Known, TcTokenRedirect, trust, outcome
  <2>3. state = "GetTcToken"
    BY <1>2, WaitingAlone DEF AuthIInv, TcTokenRedirect
  <2> QED BY <1>2, <2>1, <2>2, <2>3, RequestGoesOn
          DEF TcTokenRedirect, Requested, ending, AuthIInv, InStep
<1>3. CASE TcTokenReply
  <2>1. FireIn(events, Finished("GetTcToken"), "GetTcToken", "StartPaos")
    BY <1>3, NextStates DEF TcTokenReply, UpdateStatus
  <2>2. Known("GetTcToken") /\ state' = "StartPaos" => Known(state)'
    BY <1>3 DEF Known, Before, Examining, Talking, After, Post, SelfOnly, TcTokenReply,
         trust, outcome
  <2> QED BY <1>3, <2>1, <2>2, ReplyKeeps DEF TcTokenReply, ending, AuthIInv, InStep
<1> QED BY <1>1, <1>2, <1>3

LEMMA HandshakeKeeps ==
    ASSUME AuthIInv, status = "ok", status' = "ok",
           NEW s \in SendStates \cup {"GetSelfAuthenticationData"}, CheckedHandshake(s)
    PROVE  AuthIInv'
<1>1. PICK c \in Certificates :
          /\ Accepts(c) /\ certificates' = certificates \cup {c}
          /\ net' = Opened(s) /\ UNCHANGED <<state, jobs, events>>
  BY DEF CheckedHandshake, UpdateStatus
<1>2. s \in NetStates /\ net[s] # "none"
  BY DEF CheckedHandshake, NetStates
<1>3. s = state
  BY <1>2, WaitingAlone DEF AuthIInv
<1>4. s \notin Examining
  BY DEF SendStates, Expected, Examining
<1>5. Known(s) => Known(state)'
  <2>1. HAVE Known(s)
  <2>2. s \in Talking \cup After /\ eac1 # "none" => c = "listed"
    BY <1>1, <2>1 DEF Known, Accepts
  <2> QED BY <1>1, <1>3, <1>4, <2>1, <2>2 DEF Known, CheckedHandshake, server, outcome
<1> QED BY <1>1, <1>2, <1>5, RequestGoesOn DEF CheckedHandshake, Opened, ending, server, AuthIInv, InStep

LEMMA MessageKeeps ==
    ASSUME AuthIInv, status = "ok",
           NEW s \in SendStates, NEW m \in DOMAIN Expected[s], ReceiveMessage(s, m)
    PROVE  AuthIInv'
<1>1. s \in NetStates
  BY DEF NetStates
<1>2. Known(s) /\ state' = Expected[s][m] => Known(state)'
  BY DEF SendStates, Expected, ReceiveMessage, Known, Before, Examining, Talking, After, Post,
     SelfOnly, trust, outcome, Eac1Kinds
<1> QED BY <1>1, <1>2, ReplyKeeps DEF ReceiveMessage, ending, AuthIInv, InStep
-----------------------------------------------------------------------------
(* The search for the address *)

\* run() and replies of the state both end in an address found or asked for.
LEMMA AskedKeeps ==
    ASSUME AuthIInv, status = "ok", NEW queue, NEW u,
           \/ Running("CheckRefreshAddress") /\ queue = Later
           \/ net.CheckRefreshAddress # "none" /\ queue = events,
           Fetch(queue, u) \/ Get(queue, u),
           UNCHANGED <<workflow, response, eac1, trust, outcome>>, ~cancelled', ~reported'
    PROVE  AuthIInv'
<1> DEFINE s == "CheckRefreshAddress"
<1>0. s \in NetStates
  BY DEF NetStates
<1>1. /\ s = state /\ queue = <<>> /\ jobs = <<>>
      /\ \A r \in NetStates \ {s} : net[r] = "none"
  BY <1>0, RunningState, WaitingAlone DEF AuthIInv
<1>2. CASE KeepsState /\ net' = Requested(s) /\ events' = queue
  <2>1. Known(state)'
    BY <1>1, <1>2 DEF AuthIInv, Flow, Known, KeepsState, trust, outcome
  <2> QED BY <1>0, <1>1, <1>2, <2>1, WaitStep DEF Requested, KeepsState
<1>3. CASE FireIn(queue, Finished(s), s, Continue(s))
  <2>1. Enter(<<>>, Finished(s), "ActivateStoreFeedbackDialog")
    BY <1>1, <1>3, NextStates DEF FireIn
  <2>2. Finished(s) \in [NetStates -> {"none", "sent", "open"}]
    BY DEF Finished, AuthIInv, InStep
  <2>3. \A r \in NetStates \ {state} : Finished(s)[r] = "none"
    BY <1>1, <2>2 DEF Finished, AuthIInv, InStep
  <2>4. Entered("ActivateStoreFeedbackDialog")
    BY <1>1, <2>1, <2>2, <2>3, EnterFromQuiet DEF AuthIInv
  <2>5. Known(state)'
    BY <1>1, <2>4 DEF Entered, AuthIInv, Flow, Known, Before, Examining, Talking, After, Post,
         SelfOnly, trust, outcome
  <2> QED BY <2>4, <2>5, KnownAfter
<1> QED BY <1>2, <1>3 DEF Fetch, Get, RefreshDone

LEMMA RefreshKeeps ==
    ASSUME AuthIInv, status = "ok", status' = "ok",
           CheckRefreshAddress \/ RefreshRedirect \/ RefreshHandshake
    PROVE  AuthIInv'
<1> DEFINE s == "CheckRefreshAddress"
<1>0. s \in NetStates
  BY DEF NetStates
<1>1. ASSUME CheckRefreshAddress PROVE AuthIInv'
  <2>1. UNCHANGED <<workflow, response, eac1, trust, outcome>> /\ ~cancelled' /\ ~reported'
    BY <1>1 DEF CheckRefreshAddress, server, ending, AuthIInv, InStep
  <2>2. CASE FireContinue(s)
    <3>1. s = state /\ Entered("ActivateStoreFeedbackDialog")
      BY <1>1, <2>2, FireFromRun, NextStates DEF CheckRefreshAddress, FireContinue, AuthIInv
    <3>2. Known(state)'
      BY <2>1, <3>1 DEF Entered, AuthIInv, Flow, Known, Before, Examining, Talking, After, Post,
           SelfOnly, trust, outcome
    <3> QED BY <2>1, <3>1, <3>2, KnownAfter
  <2>3. CASE \E u \in Urls : Fetch(Later, u) \/ Get(Later, u)
    BY <1>1, <2>1, <2>3, AskedKeeps DEF CheckRefreshAddress
  <2> QED BY <1>1, <2>2, <2>3 DEF CheckRefreshAddress
<1>2. ASSUME RefreshRedirect PROVE AuthIInv'
  <2>1. UNCHANGED <<workflow, response, eac1, trust, outcome>> /\ ~cancelled' /\ ~reported'
    BY <1>2 DEF RefreshRedirect, server, ending, AuthIInv, InStep
  <2> QED BY <1>2, <2>1, AskedKeeps DEF RefreshRedirect
<1>3. ASSUME RefreshHandshake PROVE AuthIInv'
  <2>1. PICK c \in Certificates : Accepts(c) /\ certificates' = certificates \cup {c}
    BY <1>3 DEF RefreshHandshake, UpdateStatus
  <2>2. /\ UNCHANGED <<workflow, response, eac1, rights, dvCvc, outcome>>
        /\ ~cancelled' /\ ~reported'
    BY <1>3 DEF RefreshHandshake, server, ending, AuthIInv, InStep
  <2>3. Known(s) /\ state' \in {s, "ActivateStoreFeedbackDialog"} => Known(state)'
    BY <2>1, <2>2 DEF Accepts, Known, Before, Examining, Talking, After, Post, SelfOnly, outcome
  <2>4. CASE net' = Opened(s) /\ UNCHANGED <<state, jobs, events>>
    <3>1. s = state
      BY <1>0, <1>3, WaitingAlone DEF RefreshHandshake, AuthIInv
    <3> QED BY <1>0, <1>3, <2>2, <2>3, <2>4, <3>1, RequestGoesOn DEF Opened, RefreshHandshake
  <2>5. CASE FireIn(events, Finished(s), s, Continue(s))
    <3>1. Known(s) /\ state' = "ActivateStoreFeedbackDialog" => Known(state)'
      BY <2>3
    <3> QED BY <1>0, <1>3, <2>2, <2>5, <3>1, ReplyKeeps, NextStates DEF RefreshHandshake
  <2> QED BY <1>3, <2>4, <2>5 DEF RefreshHandshake, RefreshDone, UpdateStatus
<1> QED BY <1>1, <1>2, <1>3

LEMMA SelfReplyKeeps ==
    ASSUME AuthIInv, status = "ok", SelfReply
    PROVE  AuthIInv'
<1> DEFINE s == "GetSelfAuthenticationData"
<1>1. s \in NetStates /\ s = state
  BY WaitingAlone DEF NetStates, SelfReply, AuthIInv
<1>2. workflow # "auth" /\ Continue(s) = "ShowSelfInfo"
  BY <1>1, NextStatesDiffer DEF AuthIInv, Flow, Known, SelfOnly
<1>3. Known(s) /\ state' = Continue(s) => Known(state)'
  BY <1>2 DEF Known, Before, Examining, Talking, After, Post, SelfOnly, SelfReply, rest,
       server, trust, outcome
<1> QED BY <1>1, <1>3, ReplyKeeps DEF SelfReply, AuthIInv, InStep, rest, server, ending
-----------------------------------------------------------------------------
(* The card and the user *)

LEMMA CallCardKeeps ==
    ASSUME AuthIInv, status = "ok", NEW s \in CardStates, Running(s), CallCard(s),
           UNCHANGED <<workflow, status, rest>>
    PROVE  AuthIInv'
<1>1. /\ s = state /\ Later = <<>> /\ jobs = <<>>
      /\ \A r \in NetStates : net[r] = "none"
  BY RunningState DEF AuthIInv
<1>2. /\ jobs' = <<[of |-> s, wanted |-> TRUE]>> /\ events' = <<>> /\ state' = s
      /\ net' = net
  BY <1>1 DEF CallCard
<1>3. InStep'
  BY <1>1, <1>2 DEF AuthIInv, InStep, rest, server, ending
<1>4. Known(state)'
  BY <1>1, <1>2 DEF AuthIInv, Flow, Known, rest, server, trust, outcome
<1> QED BY <1>3, <1>4 DEF AuthIInv, Flow

LEMMA UsingKeeps ==
    ASSUME AuthIInv, status = "ok",
           DidAuthenticateEac1 \/ DidAuthenticateEac2 \/ Transmit \/ UpdateRetryCounter
    PROVE  AuthIInv'
<1>1. CASE UpdateRetryCounter
  <2>1. Known("UpdateRetryCounter") => Known("CleanUpReaderManager")
    BY DEF Known, Before, Examining, Talking, After, Post, SelfOnly
  <2> QED BY <1>1, <2>1, CallCardKeeps, PlainRun, NextStates
          DEF UpdateRetryCounter, FireAbort, CardStates
<1>2. ASSUME NEW s \in {"DidAuthenticateEac1", "DidAuthenticateEac2", "Transmit"},
             Running(s), CallCard(s) \/ Crash, UNCHANGED <<workflow, status, rest>>
      PROVE  AuthIInv'
  BY <1>2, CallCardKeeps, CrashKeeps, RunningState DEF CardStates, Talking, AuthIInv
<1> QED BY <1>1, <1>2 DEF DidAuthenticateEac1, DidAuthenticateEac2, Transmit

LEMMA ExecuteKeeps ==
    ASSUME AuthIInv, status = "ok", Execute
    PROVE  AuthIInv'
<1>1. /\ jobs = <<[of |-> state, wanted |-> TRUE]>> /\ state \in CardStates /\ events = <<>>
      /\ \A s \in NetStates : net[s] = "none"
  BY DEF AuthIInv, InStep, Execute, NetStates, CardStates, SendStates, Expected
<1>2. PICK r \in Results : events' = Append(events, Done(state, r))
  BY <1>1 DEF Execute
<1>3. jobs' = <<>> /\ events' = <<Done(state, r)>> /\ UNCHANGED <<state, net>>
  BY <1>1, <1>2 DEF Execute
<1>4. InStep'
  BY <1>1, <1>3 DEF AuthIInv, InStep, Execute, rest, server, ending
<1>5. Known(state)'
  BY <1>3 DEF AuthIInv, Flow, Known, Execute, rest, server, trust, outcome
<1> QED BY <1>4, <1>5 DEF AuthIInv, Flow

LEMMA DoneKeeps ==
    ASSUME AuthIInv, status = "ok", status' = "ok", CommandDone \/ UpdateRetryCounterDone
    PROVE  AuthIInv'
<1>1. CASE CommandDone
  <2>1. PICK s \in CardStates \ {"UpdateRetryCounter"}, r \in Results :
            /\ events # <<>> /\ Head(events) = Done(s, r)
            /\ IF r = "fail" THEN FireAbort(s) ELSE FireContinue(s)
            /\ IF r = "ok" THEN UNCHANGED status ELSE UpdateStatus
            /\ UNCHANGED <<workflow, rest>>
    BY <1>1 DEF CommandDone
  <2>2. r = "ok" /\ Fire(s, Continue(s))
    BY <2>1 DEF UpdateStatus, FireContinue
  <2>3. s = state /\ Entered(Continue(s))
    BY <2>1, <2>2, FireFromCard DEF AuthIInv
  <2>4. Known(s) => Known(Continue(s))
    BY NextStates DEF Known, Before, Examining, Talking, After, Post, SelfOnly, CardStates
  <2> QED BY <2>1, <2>2, <2>3, <2>4, PlainStep
<1>2. CASE UpdateRetryCounterDone
  <2>1. PICK r \in {"ok", "fail"} :
            /\ events # <<>> /\ Head(events) = Done("UpdateRetryCounter", r)
            /\ Fire("UpdateRetryCounter", "CleanUpReaderManager")
    BY <1>2, NextStates DEF UpdateRetryCounterDone, FireContinue, FireAbort
  <2>2. state = "UpdateRetryCounter" /\ Entered("CleanUpReaderManager")
    BY <2>1, FireFromCard DEF AuthIInv
  <2>3. Known(state)'
    BY <1>2, <2>2 DEF Entered, AuthIInv, Flow, Known, Before, Examining, Talking, After, Post,
         SelfOnly, UpdateRetryCounterDone, server, trust, outcome
  <2> QED BY <1>2, <2>2, <2>3, KnownAfter
          DEF AuthIInv, InStep, UpdateRetryCounterDone, server, ending
<1> QED BY <1>1, <1>2

LEMMA PaceKeeps ==
    ASSUME AuthIInv, status = "ok", PaceEstablished
    PROVE  AuthIInv'
<1>1. events = <<>> /\ jobs = <<>> /\ \A s \in NetStates : net[s] = "none"
  BY DEF AuthIInv, InStep, PaceEstablished, CardStates, NetStates, SendStates, Expected
<1>2. Entered("ClearPacePasswords")
  BY <1>1, EnterFromQuiet, NextStates DEF AuthIInv, InStep, PaceEstablished
<1>3. Known(state)'
  BY <1>2 DEF Entered, AuthIInv, Flow, Known, Before, Examining, Talking, After, Post, SelfOnly,
     PaceEstablished, server, trust, outcome
<1> QED BY <1>2, <1>3, KnownAfter DEF AuthIInv, InStep, PaceEstablished, server, ending

LEMMA ApproveKeeps ==
    ASSUME AuthIInv, status = "ok", Approve
    PROVE  AuthIInv'
<1>1. state \in WaitStates /\ Run(state) \notin {events[i] : i \in DOMAIN events}
  BY DEF Approve, IsUnapproved
<1>2. state \notin CardStates \cup {"Pace", "Ended"}
  BY <1>1 DEF WaitStates, CardStates
<1>3. events = <<>> /\ jobs = <<>>
  BY <1>1, <1>2 DEF AuthIInv, InStep
<1>4. \A s \in NetStates : net[s] = "none"
  BY <1>1 DEF AuthIInv, InStep, Approve, IsUnapproved, WaitStates, NetStates, SendStates, Expected
<1>5. InStep'
  BY <1>2, <1>3, <1>4 DEF AuthIInv, InStep, Approve, machine, rest, server, ending
<1>6. Known(state)'
  BY DEF AuthIInv, Flow, Known, Approve, machine, rest, server, trust, outcome
<1> QED BY <1>5, <1>6 DEF AuthIInv, Flow
-----------------------------------------------------------------------------
(* The invariant holds, and what the caller is told is true *)

LEMMA AuthIInvInit == AuthInit => AuthIInv
<1> SUFFICES ASSUME AuthInit PROVE AuthIInv
  OBVIOUS
<1>1. InStep
  BY DEF AuthInit, InStep, Run
<1>2. Flow
  BY DEF AuthInit, Flow, Known, Before, Examining, Talking, After, Post, SelfOnly
<1> QED BY <1>1, <1>2 DEF AuthIInv

\* Steps that keep the status keep the invariant; after an error it says nothing.
LEMMA AuthIInvStep == AuthIInv /\ [AuthNext]_vars => AuthIInv'
<1> SUFFICES ASSUME AuthIInv, [AuthNext]_vars PROVE AuthIInv'
  OBVIOUS
<1>1. CASE UNCHANGED vars
  BY <1>1 DEF AuthIInv, InStep, Flow, Known, vars, machine, server, trust, outcome, ending
<1>2. CASE AuthNext /\ status' # "ok"
  BY <1>2 DEF AuthIInv, InStep, Flow
<1>3. CASE AuthNext /\ status' = "ok"
  <2>1. status = "ok"
    BY <1>3, StatusStays
  <2>2. CASE MainThread
    <3>1. ASSUME \/ Passing \/ Processing \/ ParseTcTokenUrl \/ PreVerification
                 \/ CertificateDescriptionCheck \/ CheckCertificates
                 \/ ExtractCvcsFromEac1InputType \/ StartPaosResponse
          PROVE  AuthIInv'
      BY <1>3, <2>1, <3>1, PassingKeeps, CheckingKeeps, ExtractKeeps, StartPaosResponseKeeps
    <3>2. ASSUME \/ ClearPacePasswords \/ CleanUpReaderManager \/ EACAdditionalInputType
                 \/ ProcessCertificatesFromEac2 \/ CheckError \/ WriteHistory \/ RedirectBrowser
          PROVE  AuthIInv'
      BY <1>3, <2>1, <3>2, ClearingKeeps, AdditionalKeeps, WriteHistoryKeeps, RedirectBrowserKeeps
    <3>3. ASSUME \/ GetTcToken \/ Send \/ GetSelfAuthenticationData \/ CheckRefreshAddress
                 \/ DidAuthenticateEac1 \/ DidAuthenticateEac2 \/ Transmit \/ UpdateRetryCounter
                 \/ CommandDone \/ UpdateRetryCounterDone
          PROVE  AuthIInv'
      BY <1>3, <2>1, <3>3, RequestsKeep, RefreshKeeps, UsingKeeps, DoneKeeps
    <3> QED BY <2>2, <3>1, <3>2, <3>3 DEF MainThread
  <2>3. CASE Network
    BY <1>3, <2>1, <2>3, TcTokenKeeps, HandshakeKeeps, MessageKeeps, RefreshKeeps, SelfReplyKeeps
       DEF Network, RequestFails, UpdateStatus
  <2>4. CASE Execute \/ PaceEstablished \/ Approve
    BY <2>1, <2>4, ExecuteKeeps, PaceKeeps, ApproveKeeps
  <2>5. CASE PaceAborted \/ CardRemoved \/ \E kill \in BOOLEAN : Cancel(kill)
    BY <1>3, <2>5 DEF PaceAborted, CardRemoved, Cancel, UpdateStatus
  <2> QED BY <1>3, <2>2, <2>3, <2>4, <2>5 DEF AuthNext
<1> QED BY <1>1, <1>2, <1>3

\* Only two states say what came of the workflow.
LEMMA OthersTellNothing ==
    ASSUME AuthNext, ~RedirectBrowser, ~WriteHistory
    PROVE  UNCHANGED outcome
<1>1. CASE MainThread
  <2>1. ASSUME Passing \/ Processing \/ ParseTcTokenUrl \/ GetTcToken \/ Send
        PROVE  UNCHANGED outcome
    BY <2>1 DEF Passing, Processing, ParseTcTokenUrl, GetTcToken, Send, Checks, rest
  <2>2. ASSUME \/ ExtractCvcsFromEac1InputType \/ PreVerification \/ CertificateDescriptionCheck
               \/ CheckCertificates \/ ClearPacePasswords \/ DidAuthenticateEac1
        PROVE  UNCHANGED outcome
    BY <2>2 DEF ExtractCvcsFromEac1InputType, PreVerification, CertificateDescriptionCheck,
                CheckCertificates, ClearPacePasswords, DidAuthenticateEac1, Checks, rest
  <2>3. ASSUME \/ EACAdditionalInputType \/ ProcessCertificatesFromEac2 \/ DidAuthenticateEac2
               \/ Transmit \/ StartPaosResponse \/ UpdateRetryCounter \/ CleanUpReaderManager
        PROVE  UNCHANGED outcome
    BY <2>3 DEF EACAdditionalInputType, ProcessCertificatesFromEac2, DidAuthenticateEac2,
                Transmit, StartPaosResponse, UpdateRetryCounter, CleanUpReaderManager, Checks, rest
  <2>4. ASSUME \/ CheckError \/ CheckRefreshAddress \/ GetSelfAuthenticationData
               \/ CommandDone \/ UpdateRetryCounterDone
        PROVE  UNCHANGED outcome
    BY <2>4 DEF CheckError, CheckRefreshAddress, GetSelfAuthenticationData, CommandDone,
                UpdateRetryCounterDone, rest
  <2> QED BY <1>1, <2>1, <2>2, <2>3, <2>4 DEF MainThread
<1>2. CASE Network
  BY <1>2 DEF Network, TcTokenHandshake, TcTokenRedirect, TcTokenReply, SelfReply,
              RefreshRedirect, RefreshHandshake, RequestFails, CheckedHandshake,
              ReceiveMessage, rest
<1>3. CASE Execute \/ PaceEstablished \/ PaceAborted \/ Approve \/ CardRemoved
           \/ \E kill \in BOOLEAN : Cancel(kill)
  BY <1>3 DEF Execute, PaceEstablished, PaceAborted, Approve, CardRemoved, Cancel, rest
<1> QED BY <1>1, <1>2, <1>3 DEF AuthNext

AnswersAreListed == answers \in Seq({"success", "error", "page", "lost"})

LEMMA AnswersListed == AuthSpec => []AnswersAreListed
<1>1. AuthInit => AnswersAreListed
  BY DEF AuthInit, AnswersAreListed
<1>2. AnswersAreListed /\ [AuthNext]_vars => AnswersAreListed'
  <2> SUFFICES ASSUME AnswersAreListed, [AuthNext]_vars PROVE AnswersAreListed'
    OBVIOUS
  <2>1. CASE UNCHANGED outcome
    BY <2>1 DEF AnswersAreListed, outcome
  <2>2. CASE WriteHistory
    BY <2>2 DEF AnswersAreListed, WriteHistory
  <2>3. CASE RedirectBrowser
    BY <2>3 DEF AnswersAreListed, RedirectBrowser, Answers, Answer
  <2> QED BY <2>1, <2>2, <2>3, OthersTellNothing DEF vars
<1> QED BY <1>1, <1>2, PTL DEF AuthSpec

\* As long as there is no error, whatever is queued, executed or awaited is for the
\* active state (AbstractState::onEntry, onExit), and what is known of the server fits
\* the place of that state in AuthController and SelfAuthController.
THEOREM AuthInvariant == AuthSpec => []AuthIInv
BY AuthIInvInit, AuthIInvStep, PTL DEF AuthSpec

\* The caller is only told of a success that the server has reported to a workflow
\* without an error, over connections whose certificates are those described, and
\* only such an authentication is entered into the history, once
\* (StateRedirectBrowser, StateWriteHistory, StateCheckCertificates).
THEOREM SuccessHolds == AuthSpec => SuccessIsTrue
<1> DEFINE
      Told == answers' # answers /\ answers'[Len(answers')] = "success"
           => /\ response = "ok" /\ ~cancelled /\ ~reported
              /\ eac1 # "none" => certificates \subseteq {"listed"}
      Written == history' # history
           => history = 0 /\ response = "ok" /\ ~cancelled /\ certificates \subseteq {"listed"}
<1>1. ASSUME AuthIInv, AnswersAreListed, AuthNext, RedirectBrowser
      PROVE  Told /\ Written
  <2>1. Written
    BY <1>1 DEF RedirectBrowser
  <2>2. ASSUME answers'[Len(answers')] = "success"
        PROVE  /\ response = "ok" /\ ~cancelled /\ ~reported
               /\ eac1 # "none" => certificates \subseteq {"listed"}
    <3>1. PICK a \in Answers : answers' = Append(answers, a)
      BY <1>1 DEF RedirectBrowser
    <3>2. a = "success"
      BY <1>1, <2>2, <3>1 DEF AnswersAreListed
    <3>3. status = "ok"
      BY <3>1, <3>2 DEF Answers, Answer
    <3>4. state = "RedirectBrowser"
      BY <1>1, <3>3, RunningState DEF AuthIInv, RedirectBrowser
    <3> QED BY <1>1, <3>3, <3>4 DEF AuthIInv, InStep, Flow, Known, After, Post
  <2> QED BY <2>1, <2>2
<1>2. ASSUME AuthIInv, AuthNext, WriteHistory
      PROVE  Told /\ Written
  <2>1. Told
    BY <1>2 DEF WriteHistory
  <2>2. ASSUME history' # history
        PROVE  history = 0 /\ response = "ok" /\ ~cancelled /\ certificates \subseteq {"listed"}
    <3>1. status = "ok" /\ rights
      BY <1>2, <2>2 DEF WriteHistory
    <3>2. state = "WriteHistory"
      BY <1>2, <3>1, RunningState DEF AuthIInv, WriteHistory
    <3> QED BY <1>2, <3>1, <3>2 DEF AuthIInv, InStep, Flow, Known, After, Post
  <2> QED BY <2>1, <2>2
<1>3. ASSUME AuthIInv, AnswersAreListed, [AuthNext]_vars
      PROVE  [Told /\ Written]_vars
  <2>1. CASE UNCHANGED outcome
    BY <2>1 DEF outcome
  <2> QED BY <1>1, <1>2, <1>3, <2>1, OthersTellNothing
<1>4. AuthSpec => [][Told /\ Written]_vars
  BY <1>3, AuthInvariant, AnswersListed, PTL DEF AuthSpec
<1> QED BY <1>4, PTL DEF SuccessIsTrue
-----------------------------------------------------------------------------
(* The phases of a workflow, which also those with an error go through in   *)
(* order                                                                    *)

\* Before PACE, after it until the first message with a result of the card, the
\* conversation that uses the card, the rest of the workflow.
Early == Before \cup Examining \cup {"EditAccessRights"}
Fresh == {"ClearPacePasswords", "DidAuthenticateEac1"}
Deep == {"EACAdditionalInputType", "SendResponseAdditional", "ProcessCertificatesFromEac2",
         "DidAuthenticateEac2", "SendResponseEAC2", "Transmit", "SendTransmitResponse"}
Late == {"SendDisconnectResponse", "StartPaosResponse", "UpdateRetryCounter",
         "CleanUpReaderManager", "CheckError", "CheckRefreshAddress",
         "ActivateStoreFeedbackDialog", "WriteHistory", "GetSelfAuthenticationData",
         "ShowSelfInfo", "SendWhitelistSurvey"}
Phase(s) ==
    CASE s \in Early -> 1 [] s = "Pace" -> 2 [] s \in Fresh -> 3 [] s = "SendResponseEAC1" -> 4
      [] s \in Deep -> 5 [] s \in Late -> 6 [] s = "RedirectBrowser" -> 7
      [] s = "FinalState" -> 8 [] OTHER -> 9

LEMMA StatesListed ==
    /\ States = Early \cup Fresh \cup Deep \cup Late
                  \cup {"Pace", "SendResponseEAC1", "RedirectBrowser", "FinalState"}
    /\ SendStates = {"SendStartPaos", "SendInitializeFrameworkResponse", "SendDIDListResponse",
                     "SendResponseEAC1", "SendResponseAdditional", "SendResponseEAC2",
                     "SendTransmitResponse", "SendDisconnectResponse"}
    /\ NetStates \subseteq States /\ CardStates \subseteq States /\ WaitStates \subseteq States
    /\ "Ended" \notin States /\ "Crashed" \notin States
    /\ "FinalState" \notin NetStates \cup CardStates
<1>1. States = Early \cup Fresh \cup Deep \cup Late
                  \cup {"Pace", "SendResponseEAC1", "RedirectBrowser", "FinalState"}
  BY DEF States, SelfContinue, AuthContinue, Over, Early, Fresh, Deep, Late, Before, Examining
<1>2. SendStates = {"SendStartPaos", "SendInitializeFrameworkResponse", "SendDIDListResponse",
                    "SendResponseEAC1", "SendResponseAdditional", "SendResponseEAC2",
                    "SendTransmitResponse", "SendDisconnectResponse"}
  BY DEF SendStates, Expected
<1> QED BY <1>1, <1>2
       DEF NetStates, CardStates, WaitStates, Early, Fresh, Deep, Late, Before, Examining

AllStates == States \cup {"Ended", "Crashed"}

LEMMA PhaseIs ==
    ASSUME NEW s \in AllStates
    PROVE  /\ Phase(s) \in 1..9
           /\ Phase(s) = 1 <=> s \in Early
           /\ Phase(s) = 2 <=> s = "Pace"
           /\ Phase(s) = 3 <=> s \in Fresh
           /\ Phase(s) = 4 <=> s = "SendResponseEAC1"
           /\ Phase(s) = 5 <=> s \in Deep
           /\ Phase(s) = 6 <=> s \in Late
           /\ Phase(s) = 7 <=> s = "RedirectBrowser"
           /\ Phase(s) = 8 <=> s = "FinalState"
           /\ Phase(s) = 9 <=> s \in {"Ended", "Crashed"}
<1>1. CASE s \in Early
  BY <1>1 DEF Phase, Early, Fresh, Deep, Late, Before, Examining
<1>2. CASE s \in Fresh
  BY <1>2 DEF Phase, Early, Fresh, Deep, Late, Before, Examining
<1>3. CASE s \in Deep
  BY <1>3 DEF Phase, Early, Fresh, Deep, Late, Before, Examining
<1>4. CASE s \in Late
  BY <1>4 DEF Phase, Early, Fresh, Deep, Late, Before, Examining
<1>5. CASE s \in {"Pace", "SendResponseEAC1", "RedirectBrowser", "FinalState", "Ended", "Crashed"}
  BY <1>5 DEF Phase, Early, Fresh, Deep, Late, Before, Examining
<1> QED BY <1>1, <1>2, <1>3, <1>4, <1>5, StatesListed DEF AllStates

\* The states of the controller at work.
Ours == IF workflow = "auth" THEN States \ SelfOnly ELSE States

LEMMA ContinueLeads ==
    /\ \A s \in Early \cap Ours : /\ Continue(s) \in (Early \ SelfOnly) \cup {"Pace"}
                                  /\ Continue(s) = "Pace" => s = "EditAccessRights"
    /\ \A s \in Fresh : Continue(s) \in Fresh \cup {"SendResponseEAC1"}
    /\ \A s \in Deep : Continue(s) \in Deep
    /\ \A s \in Late \cap Ours :
          /\ Continue(s) \in Late \cup {"RedirectBrowser", "FinalState"}
          /\ IF workflow = "auth" THEN Continue(s) \notin SelfOnly \cup {"FinalState"}
             ELSE Continue(s) # "RedirectBrowser"
<1>1. /\ Continue("SendStartPaos") = "InitializeFramework"
      /\ Continue("SendInitializeFrameworkResponse") = "DidList"
      /\ Continue("SendDIDListResponse") = "ExtractCvcsFromEac1InputType"
      /\ Continue("SendResponseAdditional") = "ProcessCertificatesFromEac2"
      /\ Continue("SendResponseEAC2") = "Transmit"
      /\ Continue("SendTransmitResponse") = "Transmit"
      /\ Continue("SendDisconnectResponse") = "StartPaosResponse"
  BY DEF Continue, AuthContinue, SelfContinue, Over
<1>2. /\ workflow = "auth" => Continue("SendWhitelistSurvey") = "RedirectBrowser"
      /\ workflow # "auth" => Continue("SendWhitelistSurvey") = "FinalState"
      /\ workflow # "auth" => Continue("CleanUpReaderManager") = "CheckError"
  BY DEF Continue, AuthContinue, SelfContinue, Over
<1> QED BY <1>1, <1>2, NextStates, NextStatesDiffer
       DEF Ours, Early, Fresh, Deep, Late, Before, Examining, SelfOnly, States

LEMMA AbortLeads ==
    /\ \A s \in Early \cap Ours :
          AbortOf(s) \in (Early \ SelfOnly) \cup {"CheckRefreshAddress",
                                        "CleanUpReaderManager", "SendResponseEAC1"}
    /\ \A s \in Early \cap Ours : AbortOf(s) \in Early =>
          s \in {"InitializeFramework", "DidList"} /\ AbortOf(s) = Continue(s)
    /\ AbortOf("Pace") = "SendResponseEAC1" /\ AbortOf("SendResponseEAC1") = "UpdateRetryCounter"
    /\ \A s \in Fresh : AbortOf(s) \in Fresh \cup {"SendResponseEAC1"}
    /\ AbortOf("DidAuthenticateEac1") = "SendResponseEAC1"
    /\ \A s \in Deep : AbortOf(s) \in Deep \cup {"UpdateRetryCounter"}
    /\ \A s \in Late \cap Ours :
          /\ AbortOf(s) \in Late \cup {"RedirectBrowser", "FinalState"}
          /\ IF workflow = "auth" THEN AbortOf(s) \notin SelfOnly \cup {"FinalState"}
             ELSE AbortOf(s) # "RedirectBrowser"
    /\ AbortOf("RedirectBrowser") = "FinalState" /\ AbortOf("FinalState") = "Ended"
<1>1. /\ AbortOf("Processing") = "CheckRefreshAddress"
      /\ AbortOf("ParseTcTokenUrl") = "CheckRefreshAddress"
      /\ AbortOf("GetTcToken") = "CleanUpReaderManager"
      /\ AbortOf("StartPaos") = "CleanUpReaderManager"
      /\ AbortOf("SendStartPaos") = "CleanUpReaderManager"
      /\ AbortOf("InitializeFramework") = "SendInitializeFrameworkResponse"
      /\ AbortOf("SendInitializeFrameworkResponse") = "CleanUpReaderManager"
      /\ AbortOf("DidList") = "SendDIDListResponse"
      /\ AbortOf("SendDIDListResponse") = "CleanUpReaderManager"
      /\ workflow # "auth" => AbortOf("LoadTcTokenUrl") = "CheckRefreshAddress"
  BY DEF AbortOf, AuthAbort, SelfAbort, AuthContinue, SelfContinue, Over
<1>2. /\ AbortOf("ExtractCvcsFromEac1InputType") = "SendResponseEAC1"
      /\ AbortOf("PreVerification") = "SendResponseEAC1"
      /\ AbortOf("CertificateDescriptionCheck") = "SendResponseEAC1"
      /\ AbortOf("CheckCertificates") = "SendResponseEAC1"
      /\ AbortOf("EditAccessRights") = "SendResponseEAC1"
      /\ AbortOf("Pace") = "SendResponseEAC1"
      /\ AbortOf("ClearPacePasswords") = "DidAuthenticateEac1"
      /\ AbortOf("DidAuthenticateEac1") = "SendResponseEAC1"
      /\ AbortOf("SendResponseEAC1") = "UpdateRetryCounter"
  BY DEF AbortOf, AuthAbort, SelfAbort, AuthContinue, SelfContinue, Over
<1>3. /\ AbortOf("EACAdditionalInputType") = "SendResponseAdditional"
      /\ AbortOf("SendResponseAdditional") = "UpdateRetryCounter"
      /\ AbortOf("ProcessCertificatesFromEac2") = "SendResponseEAC2"
      /\ AbortOf("DidAuthenticateEac2") = "SendResponseEAC2"
      /\ AbortOf("SendResponseEAC2") = "UpdateRetryCounter"
      /\ AbortOf("Transmit") = "SendTransmitResponse"
      /\ AbortOf("SendTransmitResponse") = "UpdateRetryCounter"
      /\ AbortOf("SendDisconnectResponse") = "UpdateRetryCounter"
      /\ AbortOf("StartPaosResponse") = "UpdateRetryCounter"
      /\ AbortOf("UpdateRetryCounter") = "CleanUpReaderManager"
  BY DEF AbortOf, AuthAbort, SelfAbort, AuthContinue, SelfContinue, Over
<1>4. /\ AbortOf("ActivateStoreFeedbackDialog") = "WriteHistory"
      /\ AbortOf("RedirectBrowser") = "FinalState"
      /\ AbortOf("FinalState") = "Ended"
      /\ workflow = "auth" =>
           /\ AbortOf("CleanUpReaderManager") = "CheckRefreshAddress"
           /\ AbortOf("CheckRefreshAddress") = "RedirectBrowser"
           /\ AbortOf("WriteHistory") = "RedirectBrowser"
           /\ AbortOf("SendWhitelistSurvey") = "RedirectBrowser"
  BY DEF AbortOf, AuthAbort, SelfAbort, AuthContinue, SelfContinue, Over
<1>5. workflow # "auth" =>
           /\ AbortOf("CleanUpReaderManager") = "CheckError"
           /\ AbortOf("CheckError") = "FinalState"
           /\ AbortOf("CheckRefreshAddress") = "FinalState"
           /\ AbortOf("WriteHistory") = "GetSelfAuthenticationData"
           /\ AbortOf("GetSelfAuthenticationData") = "FinalState"
           /\ AbortOf("ShowSelfInfo") = "FinalState"
           /\ AbortOf("SendWhitelistSurvey") = "FinalState"
  BY DEF AbortOf, AuthAbort, SelfAbort, AuthContinue, SelfContinue, Over
<1> QED BY <1>1, <1>2, <1>3, <1>4, <1>5, NextStates, ContinueLeads
       DEF Ours, Early, Fresh, Deep, Late, Before, Examining, SelfOnly, States

\* What the tables never do: go back to an earlier phase, come to the use of the
\* card by a way around PACE, or to the end by a way around the answer.
Goes(s, n) ==
    /\ n \in Ours \cup {"Ended"} /\ Phase(n) >= Phase(s)
    /\ n = "Pace" => s = "EditAccessRights"
    /\ Phase(n) = 3 => Phase(s) = 3
    /\ Phase(n) = 5 => Phase(s) = 5
    /\ n = "Ended" => s = "FinalState"
    /\ n = "RedirectBrowser" => Phase(s) < 7
    /\ IF workflow = "auth" THEN Phase(s) < 7 => Phase(n) < 8 ELSE n # "RedirectBrowser"

LEMMA TablesGo ==
    /\ \A s \in Ours \ {"Pace", "SendResponseEAC1"} :
          /\ Goes(s, Continue(s))
          /\ Continue(s) = "SendResponseEAC1" => Phase(s) = 3
    /\ \A s \in Ours : Goes(s, AbortOf(s))
<1>1. /\ \A s \in AllStates : (s \in Early => Phase(s) = 1) /\ (s = "Pace" => Phase(s) = 2)
            /\ (s \in Fresh => Phase(s) = 3) /\ (s = "SendResponseEAC1" => Phase(s) = 4)
            /\ (s \in Deep => Phase(s) = 5) /\ (s \in Late => Phase(s) = 6)
            /\ (s = "RedirectBrowser" => Phase(s) = 7) /\ (s = "FinalState" => Phase(s) = 8)
            /\ (s = "Ended" => Phase(s) = 9)
  BY PhaseIs
<1>2. Ours \subseteq States /\ States \subseteq AllStates /\ "Ended" \in AllStates
  BY DEF Ours, AllStates
<1>3. /\ \A s \in Early : s # "RedirectBrowser" /\ s # "FinalState" /\ s # "Pace"
      /\ \A s \in Late : s # "RedirectBrowser" /\ s # "FinalState" /\ s # "Pace"
                         /\ s # "SendResponseEAC1"
  BY DEF Early, Late, Before, Examining
<1>4. Fresh \cup Deep \cup {"Pace", "SendResponseEAC1", "UpdateRetryCounter", "RedirectBrowser",
                            "CheckRefreshAddress", "CleanUpReaderManager", "FinalState"}
      \subseteq Ours
  BY StatesListed DEF Ours, SelfOnly, Fresh, Deep, Late
<1>0. /\ Early \ SelfOnly \subseteq Ours /\ Late \ SelfOnly \subseteq Ours
      /\ workflow # "auth" => Late \subseteq Ours
      /\ "SendResponseEAC1" \notin Early \cup Deep \cup Late
      /\ {"UpdateRetryCounter", "CheckRefreshAddress", "CleanUpReaderManager"} \subseteq Late
  BY StatesListed DEF Ours, Early, Before, Examining, Late, Deep
<1>5. \A s \in Early \cap Ours :
          Goes(s, Continue(s)) /\ Continue(s) # "SendResponseEAC1" /\ Goes(s, AbortOf(s))
  <2> SUFFICES ASSUME NEW s \in Early \cap Ours
               PROVE  /\ Goes(s, Continue(s)) /\ Continue(s) # "SendResponseEAC1"
                      /\ Goes(s, AbortOf(s))
    OBVIOUS
  <2>1. Continue(s) \in (Early \ SelfOnly) \cup {"Pace"}
        /\ (Continue(s) = "Pace" => s = "EditAccessRights")
    BY ContinueLeads
  <2>2. AbortOf(s) \in (Early \ SelfOnly) \cup {"CheckRefreshAddress", "CleanUpReaderManager",
                                               "SendResponseEAC1"}
    BY AbortLeads
  <2> QED BY <1>0, <1>1, <1>2, <1>3, <1>4, <2>1, <2>2 DEF Goes
<1>6. \A s \in Fresh : Goes(s, Continue(s)) /\ Goes(s, AbortOf(s)) /\ Phase(s) = 3
  BY <1>1, <1>2, <1>4, ContinueLeads, AbortLeads DEF Goes, Fresh
<1>7. \A s \in Deep : Goes(s, Continue(s)) /\ Goes(s, AbortOf(s))
                      /\ Continue(s) # "SendResponseEAC1"
  <2> SUFFICES ASSUME NEW s \in Deep
               PROVE  /\ Goes(s, Continue(s)) /\ Goes(s, AbortOf(s))
                      /\ Continue(s) # "SendResponseEAC1"
    OBVIOUS
  <2>1. Continue(s) \in Deep /\ AbortOf(s) \in Deep \cup {"UpdateRetryCounter"}
    BY ContinueLeads, AbortLeads
  <2> QED BY <1>0, <1>1, <1>2, <1>3, <1>4, <2>1 DEF Goes
<1>8. \A s \in Late \cap Ours : Goes(s, Continue(s)) /\ Goes(s, AbortOf(s))
                                /\ Continue(s) # "SendResponseEAC1"
  BY <1>1, <1>2, <1>3, <1>4, ContinueLeads, AbortLeads, StatesListed DEF Goes, Ours
<1>9. /\ Goes("Pace", AbortOf("Pace")) /\ Goes("SendResponseEAC1", AbortOf("SendResponseEAC1"))
      /\ \A s \in {"RedirectBrowser", "FinalState"} :
            Goes(s, Continue(s)) /\ Goes(s, AbortOf(s)) /\ Continue(s) # "SendResponseEAC1"
  BY <1>1, <1>2, <1>3, <1>4, NextStates, AbortLeads DEF Goes, Late
<1> QED BY <1>2, <1>5, <1>6, <1>7, <1>8, <1>9, StatesListed

LEMMA MessageGoes ==
    ASSUME NEW s \in SendStates, NEW m \in DOMAIN Expected[s]
    PROVE  /\ Expected[s][m] \in Early \cup Deep \cup Late
           /\ Expected[s][m] \notin SelfOnly
           /\ Expected[s][m] \in Deep => s \in Deep \/ (s = "SendResponseEAC1" /\ m = "EAC2")
           /\ Expected[s][m] \in Early => s \in Before
           /\ m = "EAC1" <=> Expected[s][m] = "ExtractCvcsFromEac1InputType"
           /\ Expected[s][m] \in Early /\ m # "EAC1" => Expected[s][m] \in Before
BY StatesListed DEF Expected, Early, Deep, Late, Before, Examining, SelfOnly

-----------------------------------------------------------------------------
(* The event queue: calls of run() wait in the order of their phases *)

Redirecting == Run("RedirectBrowser")
Events == {Run(s) : s \in States} \cup {Done(s, r) : s \in CardStates, r \in Results}
Jobs == [of : CardStates, wanted : BOOLEAN]
RunStates(q) == {s \in States : \E i \in DOMAIN q : q[i] = Run(s)}
InOrder(q) == \A i, j \in DOMAIN q : \A s, t \in States :
                  i < j /\ q[i] = Run(s) /\ q[j] = Run(t) => Phase(s) <= Phase(t)
Counted(q) == \E i \in DOMAIN q : q[i].type = "done" /\ q[i].of = "UpdateRetryCounter"
Never(q) == \A i \in DOMAIN q : q[i] # Redirecting
AtMostOnce(q) == \A i, j \in DOMAIN q : q[i] = Redirecting /\ q[j] = Redirecting => i = j
Once(q) == ~Never(q) /\ AtMostOnce(q)

LEMMA EventKinds ==
    /\ \A s, t : Run(s) = Run(t) <=> s = t
    /\ \A s, t, r : Run(s) # Done(t, r)
    /\ \A s : Run(s).type = "run" /\ Run(s).of = s
    /\ \A s, r : Done(s, r).type = "done" /\ Done(s, r).of = s
<1>1. \A s : Run(s).type = "run" /\ Run(s).of = s
  BY DEF Run
<1>2. \A s, r : Done(s, r).type = "done" /\ Done(s, r).of = s
  BY DEF Done
<1>3. \A s, t : Run(s) = Run(t) <=> s = t
  BY <1>1
<1>4. \A s, t, r : Run(s) # Done(t, r)
  BY <1>1, <1>2
<1> QED BY <1>1, <1>2, <1>3, <1>4

LEMMA QueueTaken ==
    ASSUME NEW q \in Seq(Events), q # <<>>, InOrder(q)
    PROVE  /\ Tail(q) \in Seq(Events) /\ InOrder(Tail(q))
           /\ RunStates(Tail(q)) \subseteq RunStates(q)
           /\ Counted(Tail(q)) => Counted(q)
           /\ \A s \in States : Head(q) = Run(s) =>
                  s \in RunStates(q) /\ \A t \in RunStates(Tail(q)) : Phase(s) <= Phase(t)
           /\ Never(q) => Never(Tail(q))
           /\ AtMostOnce(q) => AtMostOnce(Tail(q))
           /\ AtMostOnce(q) /\ Head(q) = Redirecting => Never(Tail(q))
           /\ Head(q) # Redirecting /\ Once(q) => Once(Tail(q))
<1> DEFINE r == Tail(q)
<1>1. /\ r \in Seq(Events) /\ Head(q) = q[1] /\ 1 \in DOMAIN q
      /\ \A i \in DOMAIN r : i + 1 \in DOMAIN q /\ r[i] = q[i + 1]
      /\ \A i \in DOMAIN q : i # 1 => i - 1 \in DOMAIN r /\ r[i - 1] = q[i]
  BY TailIsThinned
<1>2. DOMAIN r \subseteq Nat \ {0} /\ DOMAIN q \subseteq Nat
  OBVIOUS
<1> HIDE DEF r
<1>3. InOrder(r)
  BY <1>1, <1>2 DEF InOrder
<1>4. RunStates(r) \subseteq RunStates(q) /\ (Counted(r) => Counted(q)) /\ (Never(q) => Never(r))
  BY <1>1 DEF RunStates, Counted, Never
<1>5. ASSUME NEW s \in States, Head(q) = Run(s)
      PROVE  s \in RunStates(q) /\ \A t \in RunStates(r) : Phase(s) <= Phase(t)
  <2>1. s \in RunStates(q)
    BY <1>1, <1>5 DEF RunStates
  <2>2. ASSUME NEW t \in RunStates(r) PROVE Phase(s) <= Phase(t)
    <3>1. PICK i \in DOMAIN r : r[i] = Run(t)
      BY DEF RunStates
    <3>2. 1 < i + 1 /\ i + 1 \in DOMAIN q /\ q[i + 1] = Run(t) /\ t \in States
      BY <1>1, <1>2, <3>1 DEF RunStates
    <3> QED BY <1>1, <1>5, <3>2 DEF InOrder
  <2> QED BY <2>1, <2>2
<1>6. AtMostOnce(q) => AtMostOnce(r)
  <2> SUFFICES ASSUME AtMostOnce(q), NEW i \in DOMAIN r, NEW j \in DOMAIN r,
                      r[i] = Redirecting, r[j] = Redirecting
               PROVE  i = j
    BY DEF AtMostOnce
  <2>1. i + 1 = j + 1
    BY <1>1 DEF AtMostOnce
  <2> QED BY <1>2, <2>1
<1>7. AtMostOnce(q) /\ Head(q) = Redirecting => Never(r)
  <2> SUFFICES ASSUME AtMostOnce(q), Head(q) = Redirecting, NEW i \in DOMAIN r,
                      r[i] = Redirecting
               PROVE  FALSE
    BY DEF Never
  <2>1. i + 1 = 1
    BY <1>1 DEF AtMostOnce
  <2> QED BY <1>2, <2>1
<1>8. Head(q) # Redirecting /\ ~Never(q) => ~Never(r)
  BY <1>1 DEF Never
<1> QED BY <1>1, <1>3, <1>4, <1>5, <1>6, <1>7, <1>8 DEF r, Once

LEMMA RunQueued ==
    ASSUME NEW q \in Seq(Events), InOrder(q), NEW s \in States,
           \A t \in RunStates(q) : Phase(t) <= Phase(s)
    PROVE  /\ Append(q, Run(s)) \in Seq(Events) /\ InOrder(Append(q, Run(s)))
           /\ RunStates(Append(q, Run(s))) = RunStates(q) \cup {s}
           /\ Counted(Append(q, Run(s))) => Counted(q)
           /\ s # "RedirectBrowser" => /\ Never(q) => Never(Append(q, Run(s)))
                                       /\ Once(q) => Once(Append(q, Run(s)))
           /\ s = "RedirectBrowser" /\ Never(q) => Once(Append(q, Run(s)))
<1> DEFINE e == Run(s)
           r == Append(q, e)
           n == Len(q) + 1
<1>0. e \in Events
  BY DEF Events
<1>1. /\ r \in Seq(Events) /\ \A i \in DOMAIN q : i \in DOMAIN r /\ r[i] = q[i] /\ i < n
      /\ n \in DOMAIN r /\ r[n] = Run(s)
      /\ \A i \in DOMAIN r : i \in DOMAIN q \/ i = n
      /\ DOMAIN q \subseteq Nat /\ n \in Nat
  BY <1>0, Appended
<1> HIDE DEF r, n, e
<1>2. RunStates(r) = RunStates(q) \cup {s}
  BY <1>1, EventKinds DEF RunStates
<1>3. InOrder(r)
  <2> SUFFICES ASSUME NEW i \in DOMAIN r, NEW j \in DOMAIN r, NEW u \in States, NEW t \in States,
                      i < j, r[i] = Run(u), r[j] = Run(t)
               PROVE  Phase(u) <= Phase(t)
    BY DEF InOrder
  <2>1. CASE i \in DOMAIN q /\ j \in DOMAIN q
    BY <1>1, <2>1 DEF InOrder
  <2>2. CASE i \in DOMAIN q /\ j = n
    <3>1. u \in RunStates(q) /\ t = s
      BY <1>1, <2>2, EventKinds DEF RunStates
    <3> QED BY <3>1
  <2> QED BY <1>1, <2>1, <2>2
<1>4. Counted(r) => Counted(q)
  BY <1>1, EventKinds DEF Counted
<1>5. s # "RedirectBrowser" => /\ Never(q) => Never(r)
                               /\ Once(q) => Once(r)
  BY <1>1, EventKinds DEF Never, Once, AtMostOnce, Redirecting
<1>6. s = "RedirectBrowser" /\ Never(q) => Once(r)
  BY <1>1, EventKinds DEF Never, Once, AtMostOnce, Redirecting
<1> QED BY <1>1, <1>2, <1>3, <1>4, <1>5, <1>6 DEF r, e

LEMMA DoneQueued ==
    ASSUME NEW q \in Seq(Events), InOrder(q), NEW s \in CardStates, NEW k \in Results
    PROVE  /\ Append(q, Done(s, k)) \in Seq(Events) /\ InOrder(Append(q, Done(s, k)))
           /\ RunStates(Append(q, Done(s, k))) = RunStates(q)
           /\ Counted(Append(q, Done(s, k))) => Counted(q) \/ s = "UpdateRetryCounter"
           /\ Never(q) => Never(Append(q, Done(s, k)))
           /\ Once(q) => Once(Append(q, Done(s, k)))
<1> DEFINE e == Done(s, k)
           r == Append(q, e)
           n == Len(q) + 1
<1>0. e \in Events
  BY DEF Events
<1>1. /\ r \in Seq(Events) /\ \A i \in DOMAIN q : i \in DOMAIN r /\ r[i] = q[i] /\ i < n
      /\ n \in DOMAIN r /\ r[n] = Done(s, k)
      /\ \A i \in DOMAIN r : i \in DOMAIN q \/ i = n
      /\ DOMAIN q \subseteq Nat /\ n \in Nat
  BY <1>0, Appended
<1> HIDE DEF r, n, e
<1>2. RunStates(r) = RunStates(q)
  BY <1>1, EventKinds DEF RunStates
<1>3. InOrder(r)
  <2> SUFFICES ASSUME NEW i \in DOMAIN r, NEW j \in DOMAIN r, NEW u \in States, NEW t \in States,
                      i < j, r[i] = Run(u), r[j] = Run(t)
               PROVE  Phase(u) <= Phase(t)
    BY DEF InOrder
  <2>1. i \in DOMAIN q /\ j \in DOMAIN q
    BY <1>1, EventKinds
  <2> QED BY <1>1, <2>1 DEF InOrder
<1>4. Counted(r) => Counted(q) \/ s = "UpdateRetryCounter"
  BY <1>1, EventKinds DEF Counted
<1>5. (Never(q) => Never(r)) /\ (Once(q) => Once(r))
  BY <1>1, EventKinds DEF Never, Once, AtMostOnce, Redirecting
<1> QED BY <1>1, <1>2, <1>3, <1>4, <1>5 DEF r, e

-----------------------------------------------------------------------------
(* Whatever goes wrong, the phases only advance, and no call of run() and   *)
(* no request is for a phase that has not begun                             *)

NetOf == [NetStates -> {"none", "sent", "open"}]
Counting == Counted(events) \/ \E i \in DOMAIN jobs : jobs[i].of = "UpdateRetryCounter"
Order ==
    /\ state \in Ours \cup {"Ended", "Crashed"}
    /\ state = "Crashed" => events = <<>>
    /\ events \in Seq(Events) /\ InOrder(events)
    /\ \A t \in RunStates(events) : Phase(t) <= Phase(state)
    /\ jobs \in Seq(Jobs)
    /\ net \in NetOf /\ \A r \in NetStates : net[r] # "none" => Phase(r) <= Phase(state)
    /\ Counting => Phase(state) >= 6 /\ \A t \in RunStates(events) : Phase(t) >= 6

\* What is left of the event queue when a handler has taken its event, and the
\* requests it leaves.
Left(q) ==
    /\ q \in Seq(Events) /\ InOrder(q) /\ RunStates(q) \subseteq RunStates(events) \cup {state}
    /\ \A t \in RunStates(q) : Phase(t) <= Phase(state)
    /\ Counted(q) => Counted(events)
    /\ Counting /\ Phase(state) >= 6 => \A t \in RunStates(q) : Phase(t) >= 6
Asks(q) == (Never(events) => Never(q)) /\ (Once(events) => Once(q))
\* A request tells the server of an error, from the first response on.
Requests(r) ==
    Running(r) /\ (r \in SendStates \ {"SendStartPaos"} /\ status = "error" => reported')
Fits(requests) ==
    /\ requests \in NetOf
    /\ \A r \in NetStates : requests[r] # "none" => net[r] # "none" \/ Requests(r)

Moved(q, requests) ==
    /\ events' = q \/ (state' \in States /\ events' = Append(q, Run(state')))
    /\ state' = "RedirectBrowser" =>
           IF state' = state THEN events' = q ELSE events' = Append(q, Run(state'))
    /\ jobs' \in Seq(Jobs)
    /\ \A i \in DOMAIN jobs' : \E k \in DOMAIN jobs : jobs'[i].of = jobs[k].of
    /\ net' \in NetOf /\ \A r \in NetStates : net'[r] # "none" => requests[r] # "none"

Advance ==
    /\ Phase(state) <= Phase(state')
    /\ RunStates(events') \subseteq RunStates(events) \cup {state, state'}
    /\ \A r \in NetStates : net'[r] # "none" => net[r] # "none" \/ Requests(r)
    /\ \A i \in DOMAIN jobs' : (\E k \in DOMAIN jobs : jobs'[i].of = jobs[k].of)
                               \/ (Running(jobs'[i].of) /\ conn)
Tracks ==
    IF state' = "RedirectBrowser" /\ state # "RedirectBrowser" THEN Never(events) => Once(events')
    ELSE (Never(events) => Never(events')) /\ (Once(events) => Once(events'))

LEMMA QueueLeft ==
    ASSUME Order
    PROVE  /\ Left(events) /\ Asks(events)
           /\ events # <<>> => Left(Later)
           /\ events # <<>> /\ Head(events) # Redirecting => Asks(Later)
           /\ \A s : Running(s) /\ s # "RedirectBrowser" => Asks(Later)
           /\ \A s \in States : Running(s) =>
                 Phase(s) <= Phase(state) /\ \A t \in RunStates(Later) : Phase(s) <= Phase(t)
           /\ Fits(net)
<1>1. Left(events) /\ Asks(events) /\ Fits(net)
  BY DEF Order, Left, Asks, Fits
<1>2. ASSUME events # <<>>
      PROVE  /\ Left(Later) /\ (Head(events) # Redirecting => Asks(Later))
             /\ \A s \in States : Head(events) = Run(s) =>
                   Phase(s) <= Phase(state) /\ \A t \in RunStates(Later) : Phase(s) <= Phase(t)
  BY <1>2, QueueTaken DEF Order, Left, Asks, Later, Once
<1>3. \A s : Run(s) = Redirecting => s = "RedirectBrowser"
  BY EventKinds DEF Redirecting
<1> QED BY <1>1, <1>2, <1>3 DEF Running

\* The state, its calls and its requests after such a move.
LEMMA MoveKeeps ==
    ASSUME Order, NEW q, NEW requests, Left(q), Fits(requests), Moved(q, requests),
           state' \in Ours \cup {"Ended"}, Phase(state) <= Phase(state'), workflow' = workflow
    PROVE  Order' /\ Advance /\ (Asks(q) => Tracks)
<1>1. Phase(state) \in Int /\ Phase(state') \in Int /\ \A s \in States : Phase(s) \in Int
  BY PhaseIs DEF Order, Ours, AllStates
<1>2. Ours' = Ours /\ state' # "Crashed" /\ Ours \subseteq States
  BY StatesListed DEF Ours
<1>3. \A t \in RunStates(q) : t \in States /\ Phase(t) <= Phase(state')
  BY <1>1 DEF Left, RunStates
<1> DEFINE Queued ==
             /\ events' \in Seq(Events) /\ InOrder(events')
             /\ \A t \in RunStates(events') : Phase(t) <= Phase(state')
             /\ RunStates(events') \subseteq RunStates(events) \cup {state, state'}
             /\ Counted(events') => Counted(events)
             /\ Counting /\ Phase(state) >= 6 => \A t \in RunStates(events') : Phase(t) >= 6
             /\ Asks(q) => Tracks
<1>4. ASSUME events' = q PROVE Queued
  BY <1>3, <1>4 DEF Left, Asks, Tracks, Moved
<1>5. ASSUME state' \in States, events' = Append(q, Run(state')) PROVE Queued
  <2> DEFINE r == Append(q, Run(state'))
  <2>1. /\ r \in Seq(Events) /\ InOrder(r) /\ RunStates(r) = RunStates(q) \cup {state'}
        /\ Counted(r) => Counted(q)
        /\ state' # "RedirectBrowser" => /\ Never(q) => Never(r)
                                         /\ Once(q) => Once(r)
        /\ state' = "RedirectBrowser" /\ Never(q) => Once(r)
    BY <1>3, <1>5, RunQueued DEF Left
  <2> HIDE DEF r
  <2>2. state' # "RedirectBrowser" \/ state' # state \/ events' = q
    BY DEF Moved
  <2>3. events' = r
    BY <1>5 DEF r
  <2>4. Asks(q) => Tracks
    BY <1>4, <2>1, <2>2, <2>3 DEF Asks, Tracks
  <2>5. Counting /\ Phase(state) >= 6 => Phase(state') >= 6
    BY <1>1
  <2> QED BY <1>1, <1>3, <2>1, <2>3, <2>4, <2>5 DEF Left
<1>6. Queued
  BY <1>4, <1>5 DEF Moved
<1>7. Counting' => Counting
  BY <1>6 DEF Moved, Counting
<1>8. \A r \in NetStates : net'[r] # "none" => net[r] # "none" \/ Requests(r)
  BY DEF Moved, Fits
<1>9. \A r \in NetStates : net'[r] # "none" => Phase(r) <= Phase(state')
  <2> SUFFICES ASSUME NEW r \in NetStates, net'[r] # "none" PROVE Phase(r) <= Phase(state')
    OBVIOUS
  <2>1. r \in States
    BY StatesListed
  <2>2. Phase(r) <= Phase(state)
    BY <1>8, <2>1, QueueLeft DEF Order, Requests
  <2> QED BY <1>1, <2>1, <2>2
<1>10. Counting' => Phase(state') >= 6 /\ \A t \in RunStates(events') : Phase(t) >= 6
  BY <1>1, <1>6, <1>7 DEF Order
<1>11. Order'
  BY <1>2, <1>6, <1>9, <1>10 DEF Order, Moved
<1>12. Advance
  BY <1>6, <1>8 DEF Advance, Moved
<1> QED BY <1>6, <1>11, <1>12

LEMMA EnterMoves ==
    ASSUME Order, NEW dead, NEW q, NEW requests, requests \in NetOf, NEW next \in Ours \cup {"Ended"},
           EnterIf(dead, q, requests, next), next = "RedirectBrowser" => state # next
    PROVE  Moved(q, requests) /\ state' = next
<1>1. state' = next
  BY DEF EnterIf
<1>2. events' = q \/ (state' \in States /\ events' = Append(q, Run(state')))
  BY <1>1 DEF EnterIf, Ours
<1>3. state' = "RedirectBrowser" => state' # state /\ events' = Append(q, Run(state'))
  BY <1>1 DEF EnterIf, WaitStates
<1>4. jobs' \in Seq(Jobs) /\ \A i \in DOMAIN jobs' : \E k \in DOMAIN jobs : jobs'[i].of = jobs[k].of
  <2>1. jobs' = [i \in DOMAIN jobs |-> IF jobs[i].of = state THEN [jobs[i] EXCEPT !.wanted = FALSE]
                                       ELSE jobs[i]]
    BY DEF EnterIf
  <2>2. DOMAIN jobs' = 1..Len(jobs) /\ Len(jobs) \in Nat /\ DOMAIN jobs = 1..Len(jobs)
        /\ \A i \in DOMAIN jobs : jobs[i] \in Jobs
    BY <2>1 DEF Order
  <2>3. \A i \in DOMAIN jobs : jobs'[i] \in Jobs /\ jobs'[i].of = jobs[i].of
    BY <2>1, <2>2 DEF Jobs
  <2>4. jobs' \in [1..Len(jobs) -> Jobs]
    BY <2>1, <2>2, <2>3
  <2> QED BY <2>2, <2>3, <2>4
<1>5. net' \in NetOf /\ \A r \in NetStates : net'[r] # "none" => requests[r] # "none"
  BY DEF EnterIf, NetOf
<1> QED BY <1>1, <1>2, <1>3, <1>4, <1>5 DEF Moved

LEMMA StayMoves ==
    ASSUME Order, NEW q, NEW requests \in NetOf, UNCHANGED <<state, jobs>>, net' = requests,
           events' = q
    PROVE  Moved(q, requests)
BY DEF Moved, Order

LEMMA FireMoves ==
    ASSUME Order, NEW q, NEW requests, Left(q), Fits(requests), NEW s, NEW next,
           FireIn(q, requests, s, next), workflow' = workflow, state # "Crashed",
           state = s => /\ next \in Ours \cup {"Ended"} /\ Phase(s) <= Phase(next)
                        /\ next = "RedirectBrowser" => s # next
    PROVE  /\ Order' /\ Advance /\ (Asks(q) => Tracks)
           /\ state' = IF state = s THEN next ELSE state
<1>1. CASE state = s
  <2>1. Enter(q, requests, next)
    BY <1>1 DEF FireIn
  <2>2. Moved(q, requests) /\ state' = next
    BY <1>1, <2>1, EnterMoves DEF Enter, Fits
  <2> QED BY <1>1, <2>2, MoveKeeps
<1>2. CASE state # s
  <2>1. Moved(q, requests) /\ state' = state
    BY <1>2, StayMoves DEF FireIn, Fits
  <2>2. state # "Crashed" => state' \in Ours \cup {"Ended"}
    BY <2>1 DEF Order
  <2>3. Phase(state) <= Phase(state')
    BY <2>1, PhaseIs DEF Order, Ours, AllStates
  <2> QED BY <1>2, <2>1, <2>2, <2>3, MoveKeeps
<1> QED BY <1>1, <1>2

\* How another state is reached: along the tables, or by what PACE or a message
\* of the server allows.
Arrival ==
    \/ state' = state
    \/ /\ Goes(state, state')
       /\ state' = "SendResponseEAC1" /\ status' = "ok" => Phase(state) = 3
       /\ state' = "Ended" => Running("FinalState")
    \/ state = "Pace" /\ state' = "ClearPacePasswords" /\ conn' /\ pace'
    \/ /\ state = "SendResponseEAC1" /\ state' \in Deep
       /\ net[state] # "none" /\ (ObeysErrors => ~reported)
Steady == Order' /\ Advance /\ Arrival

LEMMA GoesThere ==
    ASSUME NEW s \in Ours, NEW n, Goes(s, n)
    PROVE  /\ n \in Ours \cup {"Ended"} /\ Phase(s) <= Phase(n)
           /\ n = "RedirectBrowser" => s # n
           /\ n = "Ended" => s = "FinalState"
<1>1. s \in AllStates
  BY StatesListed DEF Ours, AllStates
<1> QED BY <1>1, PhaseIs DEF Goes

LEMMA RunMoves ==
    ASSUME Order, NEW s \in States, Running(s), NEW next, Fire(s, next), workflow' = workflow,
           state = s => Goes(s, next) /\ (next = "SendResponseEAC1" /\ status' = "ok" => Phase(s) = 3)
    PROVE  Steady /\ (s # "RedirectBrowser" => Tracks)
<1>1. state # "Crashed" /\ events # <<>>
  BY DEF Running, Order
<1>2. state = s => s \in Ours
  BY StatesListed DEF Order
<1>3. Left(Later) /\ Fits(net) /\ (s # "RedirectBrowser" => Asks(Later))
  BY <1>1, QueueLeft
<1>4. /\ Order' /\ Advance /\ (Asks(Later) => Tracks)
      /\ state' = IF state = s THEN next ELSE state
  BY <1>1, <1>2, <1>3, GoesThere, FireMoves DEF Fire
<1>5. Arrival
  BY <1>2, <1>4, GoesThere DEF Arrival
<1> QED BY <1>3, <1>4, <1>5 DEF Steady

LEMMA ContinueMoves ==
    ASSUME Order, NEW s \in States \ {"Pace", "SendResponseEAC1"}, Running(s), FireContinue(s),
           workflow' = workflow
    PROVE  Steady /\ (s # "RedirectBrowser" => Tracks)
<1>1. state = s => s \in Ours
  BY StatesListed DEF Order
<1> QED BY <1>1, TablesGo, RunMoves DEF FireContinue

LEMMA AbortMoves ==
    ASSUME Order, NEW s \in States, Running(s), FireAbort(s), workflow' = workflow,
           state = s /\ AbortOf(s) = "SendResponseEAC1" => status' # "ok"
    PROVE  Steady /\ (s # "RedirectBrowser" => Tracks)
<1>1. state = s => s \in Ours
  BY StatesListed DEF Order
<1> QED BY <1>1, TablesGo, RunMoves DEF FireAbort

LEMMA DecidesMoves ==
    ASSUME Order, NEW s \in States \ {"Pace", "SendResponseEAC1"}, Running(s), NEW good,
           Decides(s, good), workflow' = workflow
    PROVE  Steady /\ (s # "RedirectBrowser" => Tracks)
BY ContinueMoves, AbortMoves DEF Decides, UpdateStatus

LEMMA StillMoves ==
    ASSUME Order, state # "Crashed", NEW q, NEW requests, Left(q), Asks(q), Fits(requests),
           UNCHANGED <<state, jobs>>, net' = requests, events' = q, workflow' = workflow
    PROVE  Steady /\ Tracks
<1>1. Moved(q, requests) /\ state' \in Ours \cup {"Ended"} /\ state' = state
  BY StayMoves DEF Fits, Order
<1>2. Phase(state) <= Phase(state')
  BY <1>1, StatesListed, PhaseIs DEF Ours, AllStates
<1> QED BY <1>1, <1>2, MoveKeeps DEF Steady, Arrival

LEMMA NetMoves ==
    ASSUME Order, Active, NEW s \in NetStates, net[s] # "none", NEW next,
           FireIn(events, Finished(s), s, next), workflow' = workflow,
           state = s => /\ next \in Ours \cup {"Ended"} /\ Phase(s) <= Phase(next)
                        /\ next = "RedirectBrowser" => s # next
                        /\ \/ Goes(s, next) /\ (next = "SendResponseEAC1" => status' # "ok")
                           \/ /\ s = "SendResponseEAC1" /\ next \in Deep
                              /\ ObeysErrors => ~reported
    PROVE  Steady /\ Tracks
<1>1. state # "Crashed"
  BY DEF Active
<1>2. Left(events) /\ Fits(Finished(s)) /\ Asks(events)
  BY QueueLeft DEF Finished, Fits, Order, NetOf
<1>3. /\ Order' /\ Advance /\ Tracks
      /\ state' = IF state = s THEN next ELSE state
  BY <1>1, <1>2, FireMoves
<1>4. Arrival
  <2>1. s # "FinalState" /\ (state = s => s \in Ours)
    BY StatesListed DEF Order
  <2> QED BY <1>3, <2>1, GoesThere DEF Arrival
<1> QED BY <1>3, <1>4 DEF Steady

LEMMA NetAborts ==
    ASSUME Order, Active, NEW s \in NetStates, net[s] # "none",
           FireIn(events, Finished(s), s, AbortOf(s)), UpdateStatus, workflow' = workflow
    PROVE  Steady /\ Tracks
<1>1. state = s => s \in Ours
  BY StatesListed DEF Order
<1>2. state = s => Goes(s, AbortOf(s))
  BY <1>1, TablesGo
<1> QED BY <1>1, <1>2, GoesThere, NetMoves DEF UpdateStatus

LEMMA NetContinues ==
    ASSUME Order, Active, NEW s \in NetStates \ {"SendResponseEAC1"}, net[s] # "none",
           FireIn(events, Finished(s), s, Continue(s)), workflow' = workflow
    PROVE  Steady /\ Tracks
<1>1. state = s => s \in Ours
  BY StatesListed DEF Order
<1>2. s # "Pace" /\ s \notin Fresh
  BY StatesListed DEF NetStates, Fresh
<1>3. state = s => Goes(s, Continue(s)) /\ Continue(s) # "SendResponseEAC1"
  BY <1>1, <1>2, TablesGo, StatesListed, PhaseIs DEF AllStates
<1> QED BY <1>1, <1>3, GoesThere, NetMoves

LEMMA CallMoves ==
    ASSUME Order, NEW s \in CardStates, Running(s), CallCard(s), conn, workflow' = workflow
    PROVE  Steady /\ Tracks
<1>1. state # "Crashed" /\ events # <<>> /\ s \in States /\ s # "RedirectBrowser"
  BY StatesListed DEF Running, Order, CardStates
<1>2. /\ Left(Later) /\ Asks(Later) /\ Phase(s) <= Phase(state)
      /\ \A t \in RunStates(Later) : Phase(s) <= Phase(t)
  BY <1>1, QueueLeft
<1> DEFINE job == [of |-> s, wanted |-> TRUE]
<1>3. jobs' = Append(jobs, job) /\ events' = Later /\ UNCHANGED <<state, net>>
  BY DEF CallCard
<1>4. job \in Jobs /\ job.of = s
  BY DEF Jobs
<1> HIDE DEF job
<1>5. /\ jobs' \in Seq(Jobs)
      /\ \A i \in DOMAIN jobs' : jobs'[i].of = s \/ \E k \in DOMAIN jobs : jobs'[i].of = jobs[k].of
  BY <1>3, <1>4, Appended DEF Order
<1>6. Counting' => Phase(state') >= 6 /\ \A t \in RunStates(events') : Phase(t) >= 6
  <2> SUFFICES ASSUME Counting'
               PROVE  Phase(state) >= 6 /\ \A t \in RunStates(Later) : Phase(t) >= 6
    BY <1>3
  <2>1. CASE Counting
    BY <1>2, <2>1 DEF Order, Left
  <2>2. CASE ~Counting
    <3>1. s = "UpdateRetryCounter"
      BY <1>2, <1>3, <1>5, <2>2 DEF Counting, Left
    <3>2. Phase(s) = 6
      BY <3>1, PhaseIs, StatesListed DEF Late, AllStates
    <3>3. Phase(state) \in Int /\ \A t \in RunStates(Later) : Phase(t) \in Int
      BY PhaseIs DEF Order, Ours, AllStates, RunStates
    <3> QED BY <1>2, <3>2, <3>3
  <2> QED BY <2>1, <2>2
<1>7. Order'
  BY <1>1, <1>2, <1>3, <1>5, <1>6 DEF Order, Left, Ours
<1>8. Advance
  <2>1. Phase(state) <= Phase(state')
    BY <1>3, PhaseIs DEF Order, Ours, AllStates
  <2> QED BY <1>2, <1>3, <1>5, <2>1 DEF Advance, Left
<1>9. Arrival /\ Tracks
  BY <1>2, <1>3 DEF Arrival, Tracks, Asks
<1> QED BY <1>7, <1>8, <1>9 DEF Steady

LEMMA CrashMoves ==
    ASSUME Order, Crash, workflow' = workflow PROVE Order'
<1>1. RunStates(events') = {} /\ ~Counting' /\ Phase("Crashed") \in Int
  BY PhaseIs DEF Crash, RunStates, Counting, Counted, AllStates
<1> QED BY <1>1 DEF Crash, Order, InOrder, NetOf

\* What every step does.
Steps == Order' /\ (Crash \/ (Advance /\ Arrival /\ (Tracks \/ RedirectBrowser)))

LEMMA RunSteps ==
    ASSUME Order,
           \/ Passing \/ Processing \/ ParseTcTokenUrl \/ PreVerification
           \/ CertificateDescriptionCheck \/ CheckCertificates \/ ExtractCvcsFromEac1InputType
           \/ ClearPacePasswords \/ EACAdditionalInputType \/ ProcessCertificatesFromEac2
           \/ StartPaosResponse \/ CleanUpReaderManager \/ CheckError \/ WriteHistory
           \/ RedirectBrowser
    PROVE  Steps
<1> DEFINE Plain == States \ {"Pace", "SendResponseEAC1", "RedirectBrowser"}
           AtRun(s) == Running(s) /\ workflow' = workflow
<1>1. ASSUME NEW s \in Plain, AtRun(s), \/ FireContinue(s)
                                        \/ \E good : Decides(s, good)
                                        \/ FireAbort(s) /\ s \in Late
      PROVE  Steps
  <2>1. s \in Late /\ state = s => AbortOf(s) # "SendResponseEAC1"
    BY AbortLeads, StatesListed DEF Order, Late
  <2> QED BY <1>1, <2>1, ContinueMoves, DecidesMoves, AbortMoves DEF Steps, Steady
<1>2. CASE Passing
  <2>1. PICK s \in {"LoadTcTokenUrl", "StartPaos", "InitializeFramework", "DidList",
                    "EditAccessRights", "ActivateStoreFeedbackDialog", "ShowSelfInfo",
                    "SendWhitelistSurvey", "FinalState"} : AtRun(s) /\ FireContinue(s)
    BY <1>2 DEF Passing
  <2>2. s \in Plain
    BY <2>1, StatesListed DEF Early, Before, Examining, Late
  <2> QED BY <1>1, <2>1, <2>2
<1>3. CASE \/ Processing \/ ParseTcTokenUrl \/ PreVerification
           \/ CertificateDescriptionCheck \/ CheckCertificates
  <2>1. \E s \in {"Processing", "ParseTcTokenUrl"} \cup Examining :
            AtRun(s) /\ \E good : Decides(s, good)
    BY <1>3 DEF Processing, ParseTcTokenUrl, PreVerification, CertificateDescriptionCheck,
       CheckCertificates, Checks, Examining
  <2>2. {"Processing", "ParseTcTokenUrl"} \cup Examining \subseteq Plain
    BY StatesListed DEF Early, Before, Examining
  <2> QED BY <1>1, <2>1, <2>2
<1>4. CASE ExtractCvcsFromEac1InputType \/ StartPaosResponse
  <2>1. \E s \in {"ExtractCvcsFromEac1InputType", "StartPaosResponse"} :
            AtRun(s) /\ \E good : Decides(s, good)
    BY <1>4 DEF ExtractCvcsFromEac1InputType, StartPaosResponse
  <2>2. {"ExtractCvcsFromEac1InputType", "StartPaosResponse"} \subseteq Plain
    BY StatesListed DEF Early, Examining, Late
  <2> QED BY <1>1, <2>1, <2>2
<1>5. CASE ClearPacePasswords \/ CleanUpReaderManager
  <2>1. \E s \in {"ClearPacePasswords", "CleanUpReaderManager"} : AtRun(s) /\ FireContinue(s)
    BY <1>5 DEF ClearPacePasswords, CleanUpReaderManager
  <2>2. {"ClearPacePasswords", "CleanUpReaderManager"} \subseteq Plain
    BY StatesListed DEF Fresh, Late
  <2> QED BY <1>1, <2>1, <2>2
<1>6. CASE EACAdditionalInputType
  <2> DEFINE s == "EACAdditionalInputType"
  <2>1. s \in States \ {"Pace", "SendResponseEAC1"} /\ s \in Ours /\ Phase(s) = 5
        /\ "SendResponseAdditional" \in Ours /\ Phase("SendResponseAdditional") = 5
    BY StatesListed, PhaseIs DEF Deep, Ours, SelfOnly, AllStates
  <2>2. Goes(s, "SendResponseAdditional")
    BY <2>1 DEF Goes
  <2>3. Goes(s, Continue(s)) /\ (Continue(s) = "SendResponseEAC1" => Phase(s) = 3)
    BY <2>1, TablesGo
  <2>4. AtRun(s) /\ \E next \in {Continue(s), "SendResponseAdditional"} : Fire(s, next)
    BY <1>6 DEF EACAdditionalInputType
  <2> QED BY <2>1, <2>2, <2>3, <2>4, RunMoves DEF Steps, Steady
<1>7. CASE ProcessCertificatesFromEac2
  <2>1. \/ Crash /\ workflow' = workflow
        \/ \E s \in {"ProcessCertificatesFromEac2"} : AtRun(s) /\ \E good : Decides(s, good)
    BY <1>7 DEF ProcessCertificatesFromEac2, Checks
  <2>2. "ProcessCertificatesFromEac2" \in Plain
    BY StatesListed DEF Deep
  <2> QED BY <1>1, <2>1, <2>2, CrashMoves DEF Steps
<1>8. CASE CheckError \/ WriteHistory
  <2>1. \/ Crash /\ workflow' = workflow
        \/ \E s \in {"CheckError", "WriteHistory"} : AtRun(s) /\ (FireContinue(s) \/ FireAbort(s))
    BY <1>8 DEF CheckError, WriteHistory
  <2>2. {"CheckError", "WriteHistory"} \subseteq Plain
    BY StatesListed DEF Late
  <2>3. {"CheckError", "WriteHistory"} \subseteq Late
    BY DEF Late
  <2> QED BY <1>1, <2>1, <2>2, <2>3, CrashMoves DEF Steps
<1>9. CASE RedirectBrowser
  <2>1. AtRun("RedirectBrowser") /\ \E good : Decides("RedirectBrowser", good)
    BY <1>9 DEF RedirectBrowser
  <2> QED BY <1>9, <2>1, DecidesMoves, StatesListed DEF Steps, Steady
<1> QED BY <1>2, <1>3, <1>4, <1>5, <1>6, <1>7, <1>8, <1>9

LEMMA RequestSteps ==
    ASSUME Order, GetTcToken \/ Send \/ GetSelfAuthenticationData \/ CheckRefreshAddress
    PROVE  Steps
<1> DEFINE Asked(s) == /\ Running(s) /\ UNCHANGED <<state, jobs>> /\ events' = Later
                       /\ net' = Requested(s) /\ workflow' = workflow /\ Requests(s)
<1>1. ASSUME NEW s \in NetStates, Asked(s) PROVE Steps
  <2>1. state # "Crashed" /\ s # "RedirectBrowser" /\ events # <<>>
    BY <1>1, StatesListed DEF Running, Order, NetStates
  <2>2. Left(Later) /\ Asks(Later)
    BY <1>1, <2>1, QueueLeft
  <2>3. Fits(Requested(s))
    BY <1>1 DEF Fits, Requested, Order, NetOf
  <2> QED BY <1>1, <2>1, <2>2, <2>3, StillMoves DEF Steps, Steady
<1>2. {"GetTcToken", "CheckRefreshAddress", "GetSelfAuthenticationData"} \cup SendStates
      \subseteq NetStates /\ SendStates \subseteq States
  BY StatesListed DEF NetStates
<1>0. {"GetTcToken", "CheckRefreshAddress", "GetSelfAuthenticationData"} \cap SendStates = {}
  BY StatesListed
<1>3. CASE Send \/ GetSelfAuthenticationData
  <2>1. \E s \in SendStates \cup {"GetSelfAuthenticationData"} : Asked(s)
    BY <1>0, <1>2, <1>3 DEF Send, GetSelfAuthenticationData, KeepsState, Requests
  <2> QED BY <1>1, <1>2, <2>1
<1>4. CASE GetTcToken
  <2>1. Running("GetTcToken") /\ workflow' = workflow
        /\ \E address \in Addresses : SendTcTokenRequest(Later, address)
    BY <1>4 DEF GetTcToken
  <2>2. Asked("GetTcToken") \/ (UpdateStatus /\ FireIn(Later, Finished("GetTcToken"), "GetTcToken",
                                                        AbortOf("GetTcToken")))
    BY <1>0, <2>1 DEF SendTcTokenRequest, KeepsState, Requests
  <2>3. CASE UpdateStatus /\ FireIn(Later, Finished("GetTcToken"), "GetTcToken",
                                    AbortOf("GetTcToken"))
    <3>1. /\ state # "Crashed" /\ events # <<>> /\ Left(Later) /\ Asks(Later)
          /\ Fits(Finished("GetTcToken"))
      BY <2>1, QueueLeft DEF Running, Order, Fits, Finished, NetOf
    <3>2. state = "GetTcToken" => /\ Goes("GetTcToken", AbortOf("GetTcToken"))
                                  /\ "GetTcToken" \in Ours
      BY TablesGo, <1>2, StatesListed DEF Order
    <3>3. state = "GetTcToken" => AbortOf("GetTcToken") # "Ended"
      BY <3>2, GoesThere
    <3> QED BY <2>1, <2>3, <3>1, <3>2, <3>3, GoesThere, FireMoves DEF Steps, Arrival, UpdateStatus
  <2> QED BY <1>1, <1>2, <2>2, <2>3
<1>5. CASE CheckRefreshAddress
  <2> DEFINE s == "CheckRefreshAddress"
  <2>1. Running(s) /\ workflow' = workflow /\ s \in States \ {"Pace", "SendResponseEAC1"}
    BY <1>2, <1>5, StatesListed DEF CheckRefreshAddress, Late
  <2>2. CASE FireContinue(s)
    BY <2>1, <2>2, ContinueMoves DEF Steps, Steady
  <2>3. CASE \E u \in Urls : IF u \in SameOrigin THEN Fetch(Later, u) ELSE Get(Later, u)
    <3>1. Asked(s) \/ FireIn(Later, Finished(s), s, Continue(s))
      BY <1>0, <2>1, <2>3 DEF Fetch, Get, RefreshDone, KeepsState, Requests
    <3>2. CASE FireIn(Later, Finished(s), s, Continue(s))
      <4>1. /\ state # "Crashed" /\ events # <<>> /\ Left(Later) /\ Asks(Later) /\ Fits(Finished(s))
        BY <2>1, QueueLeft DEF Running, Order, Fits, Finished, NetOf
      <4>2. state = s => Goes(s, Continue(s)) /\ s \in Ours /\ Continue(s) # "SendResponseEAC1"
        BY TablesGo, <2>1, NextStates DEF Order
      <4>3. state = s => Continue(s) # "Ended"
        BY <4>2, GoesThere
      <4> QED BY <2>1, <3>2, <4>1, <4>2, <4>3, GoesThere, FireMoves DEF Steps, Arrival
    <3> QED BY <1>1, <1>2, <3>1, <3>2
  <2> QED BY <1>5, <2>2, <2>3 DEF CheckRefreshAddress
<1> QED BY <1>3, <1>4, <1>5

LEMMA NetworkSteps ==
    ASSUME Order, Active, Network
    PROVE  Steps
<1>1. state # "Crashed" /\ Left(events) /\ Asks(events)
  BY QueueLeft DEF Active
<1>2. ASSUME NEW s \in NetStates, net[s] # "none", UNCHANGED <<state, jobs, events, workflow>>,
             net' \in {Opened(s), Requested(s)}
      PROVE  Steps
  <2>1. Fits(net')
    BY <1>2 DEF Fits, Opened, Requested, Order, NetOf
  <2> QED BY <1>1, <1>2, <2>1, StillMoves DEF Steps, Steady
<1>3. {"GetTcToken", "CheckRefreshAddress", "GetSelfAuthenticationData"} \subseteq
          NetStates \ {"SendResponseEAC1"} /\ SendStates \subseteq NetStates
  BY StatesListed DEF NetStates
<1>4. ASSUME NEW s \in NetStates, net[s] # "none", FireIn(events, Finished(s), s, AbortOf(s)),
             UpdateStatus, workflow' = workflow
      PROVE  Steps
  BY <1>4, NetAborts DEF Steps, Steady
<1>5. ASSUME NEW s \in NetStates \ {"SendResponseEAC1"}, net[s] # "none",
             FireIn(events, Finished(s), s, Continue(s)), workflow' = workflow
      PROVE  Steps
  BY <1>5, NetContinues DEF Steps, Steady
<1>6. ASSUME NEW s \in NetStates, RequestFails(s) PROVE Steps
  BY <1>4, <1>6 DEF RequestFails
<1>7. CASE TcTokenHandshake \/ TcTokenRedirect \/ TcTokenReply
  <2> DEFINE s == "GetTcToken"
  <2>1. net[s] # "none" /\ workflow' = workflow /\ s \in NetStates
    BY <1>3, <1>7 DEF TcTokenHandshake, TcTokenRedirect, TcTokenReply
  <2>2. \/ UNCHANGED <<state, jobs, events>> /\ net' \in {Opened(s), Requested(s)}
        \/ FireIn(events, Finished(s), s, AbortOf(s)) /\ UpdateStatus
        \/ FireIn(events, Finished(s), s, Continue(s))
    BY <1>7 DEF TcTokenHandshake, TcTokenRedirect, TcTokenReply, SendTcTokenRequest, KeepsState
  <2> QED BY <1>2, <1>3, <1>4, <1>5, <2>1, <2>2
<1>8. CASE RefreshRedirect \/ RefreshHandshake \/ SelfReply
  <2>1. \E s \in {"CheckRefreshAddress", "GetSelfAuthenticationData"} :
            /\ net[s] # "none" /\ workflow' = workflow
            /\ \/ UNCHANGED <<state, jobs, events>> /\ net' \in {Opened(s), Requested(s)}
               \/ FireIn(events, Finished(s), s, AbortOf(s)) /\ UpdateStatus
               \/ FireIn(events, Finished(s), s, Continue(s))
    BY <1>8 DEF RefreshRedirect, RefreshHandshake, SelfReply, Fetch, Get, RefreshDone, KeepsState
  <2> QED BY <1>2, <1>3, <1>4, <1>5, <2>1
<1>9. ASSUME NEW s \in SendStates \cup {"GetSelfAuthenticationData"}, CheckedHandshake(s)
      PROVE  Steps
  <2>1. /\ net[s] # "none" /\ workflow' = workflow
        /\ \/ UNCHANGED <<state, jobs, events>> /\ net' \in {Opened(s), Requested(s)}
           \/ FireIn(events, Finished(s), s, AbortOf(s)) /\ UpdateStatus
    BY <1>9 DEF CheckedHandshake
  <2> QED BY <1>2, <1>3, <1>4, <1>9, <2>1
<1>10. ASSUME NEW s \in SendStates, NEW m \in DOMAIN Expected[s], ReceiveMessage(s, m)
       PROVE  Steps
  <2> DEFINE n == Expected[s][m]
  <2>1. /\ net[s] # "none" /\ workflow' = workflow
        /\ FireIn(events, Finished(s), s, n) /\ Obeys(m, response')
    BY <1>10 DEF ReceiveMessage
  <2>2. /\ n \in Early \cup Deep \cup Late /\ n \notin SelfOnly
        /\ n \in Deep => s \in Deep \/ (s = "SendResponseEAC1" /\ m = "EAC2")
        /\ n \in Early => s \in Before
    BY MessageGoes
  <2>3. /\ s \in Before \cup Deep \cup {"SendResponseEAC1", "SendDisconnectResponse"}
        /\ s \in AllStates /\ "SendDisconnectResponse" \in Late /\ Before \subseteq Early
    BY StatesListed DEF Before, Deep, AllStates, Late, Early
  <2>4. n \in Ours /\ n \in AllStates
    BY <2>2, StatesListed DEF Ours, AllStates
  <2>5. n \notin {"Pace", "SendResponseEAC1", "RedirectBrowser", "Ended"} \cup Fresh
    BY <2>2 DEF Early, Before, Examining, Deep, Late, Fresh
  <2> HIDE DEF n
  <2>6. Phase(s) \in 1..6 /\ Phase(n) \in {1, 5, 6} /\ Phase(s) <= Phase(n)
    BY <2>2, <2>3, <2>4, PhaseIs
  <2>7. Phase(n) = 5 => Phase(s) = 5 \/ (s = "SendResponseEAC1" /\ m = "EAC2")
    BY <2>2, <2>3, <2>4, PhaseIs
  <2>8. Goes(s, n) \/ (s = "SendResponseEAC1" /\ m = "EAC2" /\ n \in Deep)
    BY <2>4, <2>5, <2>6, <2>7, PhaseIs DEF Goes
  <2>9. m = "EAC2" /\ ObeysErrors => ~reported
    BY <2>1 DEF Obeys
  <2>10. n = "RedirectBrowser" => s # n
    BY <2>5
  <2> QED BY <1>3, <2>1, <2>4, <2>5, <2>6, <2>8, <2>9, <2>10, NetMoves DEF Steps, Steady, n
<1> QED BY <1>6, <1>7, <1>8, <1>9, <1>10 DEF Network

LEMMA CardSteps ==
    ASSUME Order,
           DidAuthenticateEac1 \/ DidAuthenticateEac2 \/ Transmit \/ UpdateRetryCounter
    PROVE  Steps
<1>1. CardStates \subseteq States \ {"Pace", "SendResponseEAC1"}
      /\ AbortOf("UpdateRetryCounter") # "SendResponseEAC1"
  BY StatesListed, NextStates DEF CardStates
<1>2. \/ Crash /\ workflow' = workflow
      \/ \E s \in CardStates : Running(s) /\ conn /\ CallCard(s) /\ workflow' = workflow
      \/ Running("UpdateRetryCounter") /\ FireAbort("UpdateRetryCounter") /\ workflow' = workflow
  BY DEF DidAuthenticateEac1, DidAuthenticateEac2, Transmit, UpdateRetryCounter, CardStates
<1> QED BY <1>1, <1>2, CrashMoves, CallMoves, AbortMoves DEF Steps, Steady, CardStates

LEMMA DoneSteps ==
    ASSUME Order, CommandDone \/ UpdateRetryCounterDone
    PROVE  Steps
<1>1. PICK s \in CardStates, r \in Results :
          /\ events # <<>> /\ Head(events) = Done(s, r) /\ workflow' = workflow
          /\ FireContinue(s) \/ (FireAbort(s) /\ (s = "UpdateRetryCounter" \/ status' # "ok"))
  <2>1. "UpdateRetryCounter" \in CardStates /\ {"ok", "fail"} \subseteq Results
    BY DEF CardStates, Results
  <2> QED BY <2>1 DEF CommandDone, UpdateRetryCounterDone, UpdateStatus
<1>2. /\ state # "Crashed" /\ Left(Later) /\ Asks(Later) /\ Fits(net)
  BY <1>1, QueueLeft, EventKinds DEF Order, Redirecting
<1>3. s \in States \ {"Pace", "SendResponseEAC1"}
  BY StatesListed DEF CardStates
<1>4. state = s => /\ s \in Ours /\ Goes(s, Continue(s)) /\ Goes(s, AbortOf(s))
                   /\ Continue(s) = "SendResponseEAC1" => Phase(s) = 3
  BY <1>3, TablesGo, StatesListed DEF Order
<1>5. AbortOf("UpdateRetryCounter") # "SendResponseEAC1"
  BY NextStates
<1>8. state = s => Continue(s) # "Ended" /\ AbortOf(s) # "Ended"
  BY <1>3, <1>4, GoesThere, StatesListed
<1>6. CASE FireContinue(s)
  BY <1>1, <1>2, <1>4, <1>6, <1>8, GoesThere, FireMoves DEF Steps, Arrival, FireContinue, Fire
<1>7. CASE FireAbort(s) /\ (s = "UpdateRetryCounter" \/ status' # "ok")
  BY <1>1, <1>2, <1>4, <1>5, <1>7, <1>8, GoesThere, FireMoves DEF Steps, Arrival, FireAbort, Fire
<1> QED BY <1>1, <1>6, <1>7

LEMMA ExecuteSteps ==
    ASSUME Order, Active, Execute
    PROVE  Steps
<1> DEFINE c == Head(jobs).of
<1>1. /\ jobs # <<>> /\ jobs' = Tail(jobs) /\ UNCHANGED <<workflow, state, net>>
      /\ events' = events \/ \E r \in Results : events' = Append(events, Done(c, r))
  BY DEF Execute
<1>2. /\ jobs' \in Seq(Jobs) /\ 1 \in DOMAIN jobs /\ Head(jobs) = jobs[1] /\ jobs[1] \in Jobs
      /\ \A i \in DOMAIN jobs' : \E k \in DOMAIN jobs : jobs'[i].of = jobs[k].of
  BY <1>1, TailIsThinned DEF Order
<1>3. c \in CardStates /\ (c = "UpdateRetryCounter" => Counting)
  BY <1>2 DEF Jobs, Counting
<1> HIDE DEF c
<1>4. /\ events' \in Seq(Events) /\ InOrder(events') /\ RunStates(events') = RunStates(events)
      /\ Counted(events') => Counted(events) \/ c = "UpdateRetryCounter"
      /\ (Never(events) => Never(events')) /\ (Once(events) => Once(events'))
  <2>1. events \in Seq(Events) /\ InOrder(events)
    BY DEF Order
  <2>2. CASE events' = events
    BY <2>1, <2>2
  <2>3. ASSUME NEW r \in Results, events' = Append(events, Done(c, r))
        PROVE  /\ events' \in Seq(Events) /\ InOrder(events')
               /\ RunStates(events') = RunStates(events)
               /\ Counted(events') => Counted(events) \/ c = "UpdateRetryCounter"
               /\ (Never(events) => Never(events')) /\ (Once(events) => Once(events'))
    BY <1>3, <2>1, <2>3, DoneQueued
  <2> QED BY <1>1, <2>2, <2>3
<1>5. Counting' => Counting
  BY <1>2, <1>3, <1>4 DEF Counting
<1>6. state' # "Crashed" /\ Phase(state) <= Phase(state')
  BY <1>1, PhaseIs DEF Active, Order, Ours, AllStates
<1>7. Order'
  BY <1>1, <1>2, <1>4, <1>5, <1>6 DEF Order, Ours
<1>8. Advance /\ Arrival /\ Tracks
  BY <1>1, <1>2, <1>4, <1>6 DEF Advance, Arrival, Tracks
<1> QED BY <1>7, <1>8 DEF Steps

LEMMA LeaveSteps ==
    ASSUME Order, state \in States, state # "FinalState", NEW q, Left(q), Asks(q), NEW dead,
           EnterIf(dead, q, net, AbortOf(state)), UpdateStatus, workflow' = workflow
    PROVE  Steps
<1>1. state \in Ours /\ Fits(net)
  BY StatesListed, QueueLeft DEF Order
<1>2. Goes(state, AbortOf(state))
  BY <1>1, TablesGo
<1>3. /\ AbortOf(state) \in Ours \cup {"Ended"} /\ Phase(state) <= Phase(AbortOf(state))
      /\ AbortOf(state) = "RedirectBrowser" => state # AbortOf(state)
  BY <1>1, <1>2, GoesThere
<1>4. Moved(q, net) /\ state' = AbortOf(state)
  BY <1>1, <1>3, EnterMoves DEF Fits
<1>5. Order' /\ Advance /\ Tracks
  BY <1>1, <1>3, <1>4, MoveKeeps
<1>6. Arrival
  BY <1>1, <1>2, <1>4, GoesThere DEF Arrival, UpdateStatus
<1> QED BY <1>5, <1>6 DEF Steps

\* An approval queues run() of the active state.
LEMMA ApprovedLeft ==
    ASSUME Order, IsUnapproved
    PROVE  Left(Append(events, Run(state))) /\ Asks(Append(events, Run(state)))
<1>1. state \in States /\ state # "RedirectBrowser" /\ Phase(state) \in Int
  BY StatesListed, PhaseIs DEF IsUnapproved, WaitStates, AllStates
<1>2. \A t \in RunStates(events) : Phase(t) <= Phase(state)
  BY DEF Order
<1> QED BY <1>1, <1>2, RunQueued DEF Order, Left, Asks

LEMMA UserSteps ==
    ASSUME Order,
           PaceEstablished \/ PaceAborted \/ Approve \/ CardRemoved \/ \E kill \in BOOLEAN : Cancel(kill)
    PROVE  Steps
<1>1. Left(events) /\ Asks(events) /\ Fits(net)
  BY QueueLeft
<1>2. CASE PaceEstablished
  <2>1. /\ state = "Pace" /\ Enter(events, net, "ClearPacePasswords") /\ workflow' = workflow
        /\ conn' /\ pace'
    BY <1>2, NextStates DEF PaceEstablished
  <2>2. "ClearPacePasswords" \in Ours /\ Phase("ClearPacePasswords") = 3 /\ Phase("Pace") = 2
    BY StatesListed, PhaseIs DEF Ours, AllStates, SelfOnly, Fresh
  <2>3. Moved(events, net) /\ state' = "ClearPacePasswords"
    BY <1>1, <2>1, <2>2, EnterMoves DEF Enter, Fits
  <2> QED BY <1>1, <2>1, <2>2, <2>3, MoveKeeps DEF Steps, Arrival
<1>3. CASE PaceAborted
  <2>1. state \in States
    BY <1>3, StatesListed DEF PaceAborted
  <2> QED BY <1>1, <1>3, <2>1, LeaveSteps DEF PaceAborted, Enter
<1>4. CASE Approve
  <2>1. state # "Crashed"
    BY <1>4, StatesListed DEF Approve, IsUnapproved
  <2> QED BY <1>1, <1>4, <2>1, ApprovedLeft, StillMoves DEF Approve, machine, Steps, Steady
<1>5. CASE CardRemoved
  <2>1. state \in States /\ state # "FinalState"
    BY <1>5, StatesListed DEF CardRemoved, RemovalStates, Fresh, Deep, Late
  <2> QED BY <1>1, <1>5, <2>1, LeaveSteps DEF CardRemoved, Enter
<1>6. ASSUME NEW kill \in BOOLEAN, Cancel(kill) PROVE Steps
  <2> DEFINE q == IF kill /\ IsUnapproved THEN Append(events, Run(state)) ELSE events
  <2>1. Left(q) /\ Asks(q)
    BY <1>1, ApprovedLeft
  <2>2. state \in States /\ state # "Crashed"
    BY <1>6 DEF Cancel, Active, Order, Ours
  <2>3. UpdateStatus /\ workflow' = workflow
    BY <1>6 DEF Cancel
  <2>4. \/ UNCHANGED machine /\ events' = q
        \/ state # "FinalState" /\ EnterIf(killed', q, net, AbortOf(state))
    BY <1>6 DEF Cancel
  <2> HIDE DEF q
  <2> QED BY <1>1, <2>1, <2>2, <2>3, <2>4, LeaveSteps, StillMoves DEF machine, Steps, Steady
<1> QED BY <1>2, <1>3, <1>4, <1>5, <1>6

LEMMA AllSteps ==
    ASSUME Order, AuthNext PROVE Steps
BY RunSteps, RequestSteps, NetworkSteps, CardSteps, DoneSteps, ExecuteSteps, UserSteps
   DEF AuthNext, MainThread
-----------------------------------------------------------------------------
(* Every step keeps the order of the phases                                 *)

LEMMA OrderInit == AuthInit => Order
<1> SUFFICES ASSUME AuthInit PROVE Order
  OBVIOUS
<1>1. state \in Ours /\ state \in States /\ events = <<Run(state)>> /\ jobs = <<>>
  BY StatesListed DEF AuthInit, Ours, SelfOnly, Early, Before
<1>2. events \in Seq(Events) /\ InOrder(events) /\ RunStates(events) = {state} /\ ~Counting
  <2>1. Run(state) \in Events
    BY <1>1 DEF Events
  <2>2. DOMAIN events = {1} /\ events[1] = Run(state)
    BY <1>1
  <2>3. ~Counting
    BY <1>1, <2>2, EventKinds DEF Counting, Counted
  <2> QED BY <1>1, <2>1, <2>2, <2>3, EventKinds DEF InOrder, RunStates
<1>3. Phase(state) <= Phase(state)
  BY <1>1, PhaseIs DEF AllStates
<1>4. net \in NetOf /\ \A r \in NetStates : net[r] = "none"
  BY DEF AuthInit, NetOf
<1> QED BY <1>1, <1>2, <1>3, <1>4, StatesListed DEF Order

LEMMA KindStays == AuthNext => workflow' = workflow
<1> SUFFICES ASSUME AuthNext PROVE workflow' = workflow
  OBVIOUS
<1>1. CASE MainThread
  BY <1>1 DEF MainThread, Passing, Processing, ParseTcTokenUrl, GetTcToken, Send,
       ExtractCvcsFromEac1InputType, PreVerification, CertificateDescriptionCheck,
       CheckCertificates, ClearPacePasswords, DidAuthenticateEac1,
       EACAdditionalInputType, ProcessCertificatesFromEac2, DidAuthenticateEac2,
       Transmit, StartPaosResponse, UpdateRetryCounter, CleanUpReaderManager,
       CheckError, CheckRefreshAddress, WriteHistory, GetSelfAuthenticationData,
       RedirectBrowser, CommandDone, UpdateRetryCounterDone, Checks
<1>2. CASE Network
  BY <1>2 DEF Network, TcTokenHandshake, TcTokenRedirect, TcTokenReply, SelfReply, RequestFails,
       CheckedHandshake, ReceiveMessage, RefreshRedirect, RefreshHandshake
<1>3. CASE Execute \/ PaceEstablished \/ PaceAborted \/ Approve \/ CardRemoved
           \/ \E kill \in BOOLEAN : Cancel(kill)
  BY <1>3 DEF Execute, PaceEstablished, PaceAborted, Approve, CardRemoved, Cancel
<1> QED BY <1>1, <1>2, <1>3 DEF AuthNext

LEMMA OrderStill ==
    ASSUME Order, UNCHANGED vars PROVE Order'
BY DEF Order, vars, machine, Counting, Counted, RunStates, InOrder, Ours

\* Whatever goes wrong, a workflow goes through its phases in order, and the event
\* queue, the network and the reader thread never hold anything for a later one
\* (AbstractController, AbstractState::onEntry and onExit, the tables of
\* AuthController and SelfAuthController).
THEOREM PhasesInOrder == AuthSpec => []Order
<1>1. Order /\ [AuthNext]_vars => Order'
  BY AllSteps, OrderStill DEF Steps
<1> QED BY <1>1, OrderInit, PTL DEF AuthSpec
-----------------------------------------------------------------------------
(* The answer to the caller *)

Answering ==
    /\ workflow # "auth" => state # "RedirectBrowser"
    /\ workflow # "auth" \/ Phase(state) < 7 => answers = <<>> /\ Never(events)
    /\ workflow = "auth" /\ Phase(state) >= 7 /\ state # "Crashed" =>
         \/ answers = <<>> /\ Once(events)
         \/ Len(answers) = 1 /\ Never(events)
    /\ state = "Crashed" => Len(answers) <= 1
    /\ state = "Ended" => Len(answers) = IF workflow = "auth" THEN 1 ELSE 0

LEMMA AnsweringInit == AuthInit => Answering
<1> SUFFICES ASSUME AuthInit PROVE Answering
  OBVIOUS
<1>1. state \in States /\ state \in Early /\ state # "RedirectBrowser" /\ state \notin {"Ended", "Crashed"}
  BY StatesListed DEF AuthInit, Early, Before
<1>2. Phase(state) = 1
  BY <1>1, PhaseIs DEF AllStates
<1>3. Never(events)
  <2>1. DOMAIN events = {1} /\ events[1] = Run(state)
    BY DEF AuthInit
  <2> QED BY <1>1, <2>1, EventKinds DEF Never, Redirecting
<1> QED BY <1>1, <1>2, <1>3 DEF Answering, AuthInit

\* A crash leaves what was said.
LEMMA CrashAnswers ==
    ASSUME Order, Answering, Crash, UNCHANGED <<workflow, answers>>
    PROVE  Answering'
<1>1. state' = "Crashed" /\ events' = <<>> /\ DOMAIN events' = {}
  BY DEF Crash
<1>2. Never(events)'
  BY <1>1 DEF Never
<1>3. Phase(state') = 9
  BY <1>1, PhaseIs DEF AllStates
<1>4. workflow # "auth" => answers = <<>>
  BY DEF Answering
<1>5. Len(answers) <= 1
  <2>1. Phase(state) \in 1..9
    BY PhaseIs DEF Order, Ours, AllStates
  <2>2. answers = <<>> \/ Len(answers) = 1 \/ state = "Crashed"
    BY <2>1 DEF Answering
  <2>3. CASE answers = <<>>
    BY <2>3
  <2>4. CASE state = "Crashed"
    BY <2>4 DEF Answering
  <2> QED BY <2>2, <2>3, <2>4
<1> QED BY <1>1, <1>2, <1>3, <1>4, <1>5 DEF Answering

LEMMA OthersAnswer ==
    ASSUME Order, Order', Answering, Advance, Arrival, Tracks, UNCHANGED <<workflow, answers>>
    PROVE  Answering'
<1>1. Phase(state) \in 1..9 /\ Phase(state') \in 1..9 /\ Phase(state) <= Phase(state')
  BY PhaseIs DEF Order, Ours, AllStates, Advance
<1>2. /\ state = "RedirectBrowser" => Phase(state) = 7
      /\ state' = "RedirectBrowser" => Phase(state') = 7
      /\ state' \in {"Ended", "Crashed"} => Phase(state') = 9
      /\ state' = "FinalState" => Phase(state') = 8
      /\ state' = "SendResponseEAC1" => Phase(state') = 4
      /\ state' \in Deep => Phase(state') = 5
      /\ state' = "ClearPacePasswords" => Phase(state') = 3
  BY PhaseIs DEF Order, Ours, AllStates, Fresh
<1>3. Phase(state') = 7 => state' = "RedirectBrowser"
  BY PhaseIs DEF Order, Ours, AllStates
<1>4. workflow # "auth" => state' # "RedirectBrowser"
  BY <1>1, <1>2 DEF Arrival, Goes, Answering
<1>5. workflow # "auth" \/ Phase(state') < 7 => answers = <<>> /\ Never(events')
  <2> SUFFICES ASSUME workflow # "auth" \/ Phase(state') < 7 PROVE answers = <<>> /\ Never(events')
    OBVIOUS
  <2>1. answers = <<>> /\ Never(events)
    BY <1>1 DEF Answering
  <2>2. state' # "RedirectBrowser"
    BY <1>2, <1>4
  <2> QED BY <2>1, <2>2 DEF Tracks
<1>6. state' = "Crashed" => state = "Crashed"
  BY <1>1, <1>2, StatesListed DEF Arrival, Goes, Ours
<1>7. ASSUME workflow = "auth", Phase(state') >= 7, state' # "Crashed"
      PROVE  \/ answers = <<>> /\ Once(events')
             \/ Len(answers) = 1 /\ Never(events')
  <2>1. CASE Phase(state) >= 7
    <3>1. \/ answers = <<>> /\ Once(events)
          \/ Len(answers) = 1 /\ Never(events)
      <4>1. state # "Crashed"
        <5> SUFFICES ASSUME state = "Crashed" PROVE FALSE
          OBVIOUS
        <5>1. Goes(state, state')
          BY <1>7 DEF Arrival
        <5>2. Phase(state) = 9 /\ state' \in Ours \cup {"Ended"} /\ state' # "Ended"
          BY <5>1, PhaseIs DEF Goes, AllStates
        <5>3. state' \in States /\ Phase(state') = 9
          BY <1>1, <5>2 DEF Ours
        <5> QED BY <5>3, PhaseIs, StatesListed DEF AllStates
      <4> QED BY <1>7, <2>1, <4>1 DEF Answering
    <3>2. state' = "RedirectBrowser" => state = "RedirectBrowser"
      <4>1. Phase(state) = 7 => state = "RedirectBrowser"
        BY PhaseIs DEF Order, Ours, AllStates
      <4> QED BY <1>1, <1>2, <2>1, <4>1
    <3> QED BY <3>1, <3>2 DEF Tracks
  <2>2. CASE Phase(state) < 7
    <3>1. answers = <<>> /\ Never(events)
      BY <2>2 DEF Answering
    <3>2. Phase(state') < 8
      BY <1>1, <1>2, <1>7, <2>2 DEF Arrival, Goes
    <3>3. state' = "RedirectBrowser" /\ state # "RedirectBrowser"
      BY <1>1, <1>2, <1>3, <1>7, <2>2, <3>2
    <3> QED BY <3>1, <3>3 DEF Tracks
  <2> QED BY <1>1, <2>1, <2>2
<1>8. state' = "Ended" => Len(answers) = IF workflow = "auth" THEN 1 ELSE 0
  <2> SUFFICES ASSUME state' = "Ended" PROVE Len(answers) = IF workflow = "auth" THEN 1 ELSE 0
    OBVIOUS
  <2>1. CASE state = "Ended"
    BY <2>1 DEF Answering
  <2>2. CASE state # "Ended" /\ workflow # "auth"
    BY <2>2 DEF Answering
  <2>3. CASE state # "Ended" /\ workflow = "auth"
    <3>1. Running("FinalState") /\ state = "FinalState"
      BY <1>1, <1>2, <2>3 DEF Arrival, Goes
    <3>2. /\ "FinalState" \in RunStates(events) /\ Never(events)
          /\ Phase("RedirectBrowser") = 7 /\ Phase("FinalState") = 8
      <4>1. Phase("RedirectBrowser") = 7 /\ Phase("FinalState") = 8
        BY PhaseIs, StatesListed DEF AllStates
      <4>2. \A t \in RunStates(Later) : Phase("FinalState") <= Phase(t)
        BY <3>1, StatesListed, QueueLeft
      <4>3. Never(events)
        <5>1. events # <<>> /\ events[1] = Run("FinalState") /\ events \in Seq(Events)
              /\ \A i \in DOMAIN events : i # 1 => i - 1 \in DOMAIN Later /\ Later[i - 1] = events[i]
          BY <3>1, TailIsThinned DEF Running, Order, Later
        <5> SUFFICES ASSUME NEW i \in DOMAIN events, events[i] = Redirecting PROVE FALSE
          BY DEF Never
        <5>2. i # 1
          BY <5>1, EventKinds DEF Redirecting
        <5>3. "RedirectBrowser" \in RunStates(Later)
          BY <5>1, <5>2, StatesListed DEF RunStates, Redirecting
        <5> QED BY <4>1, <4>2, <5>3
      <4>4. "FinalState" \in RunStates(events)
        BY <3>1, StatesListed, QueueTaken DEF Running, Order
      <4> QED BY <4>1, <4>3, <4>4
    <3>3. Never(events)
      BY <3>2
    <3> QED BY <2>3, <3>1, <3>2, <3>3, StatesListed DEF Answering, Once
  <2> QED BY <2>1, <2>2, <2>3
<1>9. state' = "Crashed" => Len(answers) <= 1
  BY <1>6 DEF Answering
<1> QED BY <1>4, <1>5, <1>7, <1>8, <1>9 DEF Answering

LEMMA RedirectAnswers ==
    ASSUME Order, Answering, RedirectBrowser
    PROVE  Answering'
<1>1. PICK a \in Answers : /\ Running("RedirectBrowser") /\ answers' = Append(answers, a)
                           /\ Decides("RedirectBrowser", a # "lost") /\ workflow' = workflow
  BY DEF RedirectBrowser
<1>2. /\ events \in Seq(Events) /\ events # <<>> /\ Head(events) = Redirecting /\ InOrder(events)
  BY <1>1 DEF Order, Running, Redirecting
<1>3. ~Never(events)
  BY <1>2, TailIsThinned DEF Never
<1>4. workflow = "auth" /\ Phase(state) \in 7..9 /\ state # "Crashed"
  BY <1>2, <1>3, PhaseIs DEF Answering, Order, Ours, AllStates
<1>5. answers = <<>> /\ Once(events)
  BY <1>3, <1>4 DEF Answering
<1>6. Never(Later) /\ Later \in Seq(Events) /\ InOrder(Later)
  BY <1>2, <1>5, QueueTaken DEF Once, Later
<1>7. Fire("RedirectBrowser", "FinalState")
  BY <1>1, NextStates, AbortLeads DEF Decides, FireContinue, FireAbort
<1>8. /\ state' \in {state, "FinalState"}
      /\ events' = Later \/ events' = Append(Later, Run("FinalState"))
  BY <1>7 DEF Fire, FireIn, Enter, EnterIf
<1>9. Never(events')
  <2>1. \A t \in RunStates(Later) : Phase(t) <= 8
    <3>1. \A t \in RunStates(Later) : Phase(t) <= Phase(state)
      BY <1>2, QueueLeft DEF Left
    <3>2. state # "Ended"
      BY <1>4, <1>5 DEF Answering
    <3>3. Phase(state) \in 1..9 /\ Phase(state) # 9
      BY <1>4, <3>2, PhaseIs DEF Order, Ours, AllStates
    <3>4. \A t \in RunStates(Later) : Phase(t) \in Int
      BY PhaseIs DEF RunStates, AllStates
    <3> QED BY <3>1, <3>3, <3>4
  <2>2. "FinalState" \in States /\ Phase("FinalState") = 8
    BY StatesListed, PhaseIs DEF AllStates
  <2> QED BY <1>6, <1>8, <2>1, <2>2, RunQueued
<1>10. Len(answers') = 1
  BY <1>1, <1>5
<1>11. Phase(state') \in 7..9 /\ state' # "Ended" /\ state' # "Crashed"
  <2>1. state # "Ended"
    BY <1>4, <1>5 DEF Answering
  <2> QED BY <1>4, <1>8, <2>1, StatesListed, PhaseIs DEF AllStates
<1> QED BY <1>1, <1>4, <1>8, <1>9, <1>10, <1>11 DEF Answering

LEMMA AnsweringStep == Order /\ Answering /\ [AuthNext]_vars => Answering'
<1> SUFFICES ASSUME Order, Answering, [AuthNext]_vars PROVE Answering'
  OBVIOUS
<1>1. CASE UNCHANGED vars
  BY <1>1 DEF vars, machine, outcome, Answering, Never, Once, AtMostOnce
<1>2. CASE AuthNext
  <2>1. Steps
    BY <1>2, AllSteps
  <2>2. CASE RedirectBrowser
    BY <2>2, RedirectAnswers
  <2>3. CASE ~RedirectBrowser
    <3>1. workflow' = workflow /\ answers' = answers
      BY <1>2, <2>3, OthersTellNothing, KindStays DEF outcome, WriteHistory
    <3> QED BY <2>1, <2>3, <3>1, CrashAnswers, OthersAnswer DEF Steps
  <2> QED BY <2>2, <2>3
<1> QED BY <1>1, <1>2

\* A caller is answered exactly once before its workflow ends, whatever is
\* cancelled, removed or lost (StateRedirectBrowser, AuthController).
THEOREM CallerIsAnswered == AuthSpec => []CallerAnswered
<1>1. Order /\ Answering => CallerAnswered
  <2> SUFFICES ASSUME Order, Answering PROVE Len(answers) <= 1
    BY DEF Answering, CallerAnswered
  <2>1. answers = <<>> \/ Len(answers) = 1 \/ state = "Crashed"
    BY PhaseIs DEF Order, Ours, AllStates, Answering
  <2>2. CASE answers = <<>>
    BY <2>2
  <2>3. CASE state = "Crashed"
    BY <2>3 DEF Answering
  <2> QED BY <2>1, <2>2, <2>3
<1> QED BY <1>1, AnsweringInit, AnsweringStep, PhasesInOrder, PTL DEF AuthSpec
-----------------------------------------------------------------------------
(* Before PACE: one thing at a time, whatever the status *)

EarlyKnown(s) ==
    /\ s \in Before <=> eac1 = "none"
    /\ s \in (Examining \ {"ExtractCvcsFromEac1InputType"}) \cup {"EditAccessRights"} => dvCvc
    /\ s \in {"CheckCertificates", "EditAccessRights"} => eac1 # "NoDescription"
    /\ s = "EditAccessRights" => certificates \subseteq {"listed"}

\* The states whose abort leads to a later state before PACE, too.
Doubled == {"InitializeFramework", "DidList"}
Alone ==
    /\ jobs = <<>>
    /\ \A r \in NetStates : net[r] # "none" => r = state /\ events = <<>>
    /\ \/ events = <<>>
       \/ events = <<Run(state)>>
       \/ /\ state \in {"SendInitializeFrameworkResponse", "SendDIDListResponse"}
          /\ \E p \in Doubled : events = <<Run(p), Run(state)>>
Beginning == state \in Early => Alone /\ EarlyKnown(state) /\ ~selected

LEMMA BeginningInit == AuthInit => Beginning
<1> SUFFICES ASSUME AuthInit PROVE Beginning
  OBVIOUS
<1>1. state \in Before /\ events = <<Run(state)>> /\ jobs = <<>> /\ \A r \in NetStates : net[r] = "none"
  BY DEF AuthInit, Before
<1>2. state \notin Examining \cup {"EditAccessRights"} /\ eac1 = "none" /\ ~selected
  BY <1>1 DEF Before, Examining, AuthInit
<1> QED BY <1>1, <1>2 DEF Beginning, Alone, EarlyKnown, Examining

LEMMA EarlyStates ==
    /\ Early \cap NetStates \subseteq Before
    /\ Early \cap CardStates = {} /\ Early \cap RemovalStates = {}
    /\ Doubled \subseteq Before /\ Doubled \cap NetStates = {} /\ Doubled \cap WaitStates = {}
    /\ {"Pace", "Ended", "Crashed", "FinalState", "SendResponseEAC1"} \cap Early = {}
    /\ Before \subseteq Early /\ Examining \subseteq Early /\ Early \subseteq States
    /\ Before \cap Examining = {} /\ "EditAccessRights" \notin Before \cup Examining
BY StatesListed DEF Early, Before, Examining, Doubled, NetStates, CardStates, RemovalStates, WaitStates

LEMMA EarlyRun ==
    ASSUME Alone, NEW s, Running(s)
    PROVE  /\ \A r \in NetStates : net[r] = "none"
           /\ \/ s = state /\ Later = <<>>
              \/ s \in Doubled /\ s # state /\ Later = <<Run(state)>>
<1>1. events # <<>> /\ Head(events) = Run(s)
  BY DEF Running
<1>2. CASE events = <<Run(state)>>
  <2>1. Head(events) = Run(state) /\ Later = <<>>
    BY <1>2 DEF Later
  <2> QED BY <1>1, <2>1, EventKinds DEF Alone
<1>3. ASSUME NEW p \in Doubled, events = <<Run(p), Run(state)>>,
             state \in {"SendInitializeFrameworkResponse", "SendDIDListResponse"}
      PROVE  s \in Doubled /\ s # state /\ Later = <<Run(state)>>
  <2>1. Head(events) = Run(p) /\ Later = <<Run(state)>>
    BY <1>3 DEF Later
  <2> QED BY <1>1, <1>3, <2>1, EventKinds DEF Doubled
<1> QED BY <1>1, <1>2, <1>3 DEF Alone

LEMMA EarlyFire ==
    ASSUME Alone, NEW s, Running(s), NEW next, Fire(s, next)
    PROVE  /\ Alone'
           /\ \/ s = state /\ state' = next
              \/ s \in Doubled /\ state' = state
<1>1. /\ jobs = <<>> /\ \A r \in NetStates : net[r] = "none"
      /\ \/ s = state /\ Later = <<>>
         \/ s \in Doubled /\ s # state /\ Later = <<Run(state)>>
  BY EarlyRun DEF Alone
<1>2. CASE s = state
  <2>1. Enter(<<>>, net, next)
    BY <1>1, <1>2 DEF Fire, FireIn
  <2>2. /\ state' = next /\ jobs' = <<>> /\ \A r \in NetStates : net'[r] = "none"
        /\ events' = <<>> \/ events' = <<Run(next)>>
    BY <1>1, <2>1 DEF Enter, EnterIf
  <2> QED BY <1>2, <2>2 DEF Alone
<1>3. CASE s # state
  <2>1. UNCHANGED <<state, jobs, net>> /\ events' = <<Run(state)>>
    BY <1>1, <1>3 DEF Fire, FireIn
  <2> QED BY <1>1, <1>3, <2>1 DEF Alone
<1> QED BY <1>2, <1>3

LEMMA EarlyAsk ==
    ASSUME Alone, NEW s \in NetStates, Running(s), UNCHANGED <<state, jobs>>, events' = Later,
           net' = Requested(s)
    PROVE  Alone' /\ s = state
<1>1. s \notin Doubled
  BY EarlyStates
<1>2. s = state /\ Later = <<>> /\ \A r \in NetStates : net[r] = "none"
  BY <1>1, EarlyRun
<1>3. events' = <<>> /\ \A r \in NetStates : net'[r] # "none" => r = s
  BY <1>2 DEF Requested
<1> QED BY <1>2, <1>3 DEF Alone

LEMMA EarlyReply ==
    ASSUME Alone, NEW s \in NetStates, net[s] # "none", NEW next, FireIn(events, Finished(s), s, next)
    PROVE  Alone' /\ s = state /\ state' = next
<1>1. s = state /\ events = <<>> /\ jobs = <<>> /\ \A r \in NetStates : r # s => net[r] = "none"
  BY DEF Alone
<1>2. Enter(<<>>, Finished(s), next)
  BY <1>1 DEF FireIn
<1>3. /\ state' = next /\ jobs' = <<>> /\ \A r \in NetStates : net'[r] = "none"
      /\ events' = <<>> \/ events' = <<Run(next)>>
  BY <1>1, <1>2 DEF Enter, EnterIf, Finished
<1> QED BY <1>1, <1>3 DEF Alone

LEMMA EarlyWait ==
    ASSUME Alone, net \in NetOf, NEW s \in NetStates, net[s] # "none", UNCHANGED <<state, jobs, events>>,
           net' = Opened(s) \/ net' = Requested(s)
    PROVE  Alone' /\ s = state
<1>1. s = state /\ events = <<>> /\ jobs = <<>> /\ \A r \in NetStates : r # s => net[r] = "none"
  BY DEF Alone
<1>2. events' = <<>> /\ \A r \in NetStates : net'[r] # "none" => r = s
  BY <1>1 DEF Requested, Opened, NetOf
<1> QED BY <1>1, <1>2 DEF Alone


\* The reader is chosen by PACE.
LEMMA SelectedStays == AuthNext => selected' = selected \/ (state = "Pace" /\ state' # "Pace")
<1> SUFFICES ASSUME AuthNext PROVE selected' = selected \/ (state = "Pace" /\ state' # "Pace")
  OBVIOUS
<1>1. CASE MainThread
  BY <1>1 DEF MainThread, Passing, Processing, ParseTcTokenUrl, GetTcToken, Send,
       ExtractCvcsFromEac1InputType, PreVerification, CertificateDescriptionCheck,
       CheckCertificates, ClearPacePasswords, DidAuthenticateEac1,
       EACAdditionalInputType, ProcessCertificatesFromEac2, DidAuthenticateEac2,
       Transmit, StartPaosResponse, UpdateRetryCounter, CleanUpReaderManager,
       CheckError, CheckRefreshAddress, WriteHistory, GetSelfAuthenticationData,
       RedirectBrowser, CommandDone, UpdateRetryCounterDone, Checks, rest, card
<1>2. CASE Network
  BY <1>2 DEF Network, TcTokenHandshake, TcTokenRedirect, TcTokenReply, SelfReply, RequestFails,
       CheckedHandshake, ReceiveMessage, RefreshRedirect, RefreshHandshake, rest, card
<1>3. CASE Execute \/ Approve \/ CardRemoved \/ \E kill \in BOOLEAN : Cancel(kill)
  BY <1>3 DEF Execute, Approve, CardRemoved, Cancel, rest, card
<1>4. CASE PaceEstablished \/ PaceAborted
  BY <1>4, NextStates, AbortLeads DEF PaceEstablished, PaceAborted, Enter, EnterIf
<1> QED BY <1>1, <1>2, <1>3, <1>4 DEF AuthNext

LEMMA TwoQueued ==
    ASSUME NEW x, NEW y PROVE Append(<<x>>, y) = <<x, y>>
<1> DEFINE S == {x, y}
           a == Append(<<x>>, y)
           b == <<x, y>>
<1>1. <<x>> \in Seq(S) /\ Len(<<x>>) = 1 /\ x \in S /\ y \in S /\ b \in Seq(S) /\ Len(b) = 2
  OBVIOUS
<1>2. a \in Seq(S) /\ Len(a) = 2 /\ a[1] = b[1] /\ a[2] = b[2]
  <2> HIDE DEF S
  <2> QED BY <1>1
<1> HIDE DEF a, b, S
<1>3. a = [i \in 1..2 |-> a[i]] /\ b = [i \in 1..2 |-> b[i]]
  BY <1>1, <1>2
<1>4. \A i \in 1..2 : a[i] = b[i]
  BY <1>2
<1>5. a = b
  BY <1>3, <1>4
<1> QED BY <1>5 DEF a, b

LEMMA KnownBefore ==
    ASSUME NEW s \in Before, NEW n \in Before, EarlyKnown(s) PROVE EarlyKnown(n)
BY EarlyStates DEF EarlyKnown

LEMMA EarlyRuns ==
    ASSUME Order, Alone, EarlyKnown(state), state \in Early, state' \in Early,
           \/ Passing \/ Processing \/ ParseTcTokenUrl \/ PreVerification
           \/ CertificateDescriptionCheck \/ CheckCertificates \/ ExtractCvcsFromEac1InputType
    PROVE  Alone' /\ EarlyKnown(state)'
<1> DEFINE Ran(s, next) == /\ Running(s) /\ Fire(s, next) /\ UNCHANGED <<eac1, dvCvc, certificates>>
<1>0. state \in Early \cap Ours
  BY EarlyStates DEF Order
<1>1. ASSUME NEW s, NEW next, Ran(s, next), s = state /\ next \in Early => EarlyKnown(next)
      PROVE  Alone' /\ EarlyKnown(state)'
  <2>1. Alone' /\ ((s = state /\ state' = next) \/ state' = state)
    BY <1>1, EarlyFire
  <2>2. EarlyKnown(state')
    BY <1>1, <2>1
  <2> QED BY <1>1, <2>1, <2>2 DEF EarlyKnown
<1>2. ASSUME NEW s, Running(s), Fire(s, AbortOf(s)), s \notin Doubled PROVE Alone' /\ s # state
  <2>1. s = state => AbortOf(s) \notin Early
    BY <1>0, <1>2, AbortLeads DEF Doubled
  <2>2. Alone' /\ ((s = state /\ state' = AbortOf(s)) \/ s \in Doubled)
    BY <1>2, EarlyFire
  <2> QED BY <1>2, <2>1, <2>2
<1> HIDE DEF Ran
<1>3. CASE Passing
  <2>1. PICK s \in {"LoadTcTokenUrl", "StartPaos", "InitializeFramework", "DidList",
                    "EditAccessRights", "ActivateStoreFeedbackDialog", "ShowSelfInfo",
                    "SendWhitelistSurvey", "FinalState"} : Ran(s, Continue(s))
    BY <1>3 DEF Passing, FireContinue, rest, server, trust, Ran
  <2>2. s = state => s \in Before \cup {"EditAccessRights"}
    BY <2>1, StatesListed DEF Early, Before, Examining
  <2>3. s = state /\ s \in Before => Continue(s) \in Before
    BY <1>0, <2>1, NextStates, NextStatesDiffer DEF Before, Ours, SelfOnly
  <2>4. s = state => Continue(s) \notin Early \/ EarlyKnown(Continue(s))
    BY <2>2, <2>3, KnownBefore, NextStates, EarlyStates
  <2> QED BY <1>1, <2>1, <2>4
<1>4. ASSUME NEW s, NEW good, Running(s), Decides(s, good), UNCHANGED <<eac1, dvCvc, certificates>>,
             s \notin Doubled,
             good /\ EarlyKnown(s) /\ Continue(s) \in Early => EarlyKnown(Continue(s))
      PROVE  Alone' /\ EarlyKnown(state)'
  <2>1. CASE Fire(s, AbortOf(s))
    <3>1. Alone' /\ s # state
      BY <1>2, <1>4, <2>1
    <3>2. state' = state
      BY <2>1, <3>1 DEF Fire, FireIn
    <3> QED BY <1>4, <3>1, <3>2 DEF EarlyKnown
  <2>2. CASE good /\ Fire(s, Continue(s))
    <3>1. Ran(s, Continue(s))
      BY <1>4, <2>2 DEF Ran
    <3> QED BY <1>1, <1>4, <2>2, <3>1
  <2> QED BY <1>4, <2>1, <2>2 DEF Decides, FireContinue, FireAbort
<1>5. CASE Processing \/ ParseTcTokenUrl
  <2>1. \E s \in {"Processing", "ParseTcTokenUrl"} : \E good :
            /\ Running(s) /\ Decides(s, good) /\ UNCHANGED <<eac1, dvCvc, certificates>>
    BY <1>5 DEF Processing, ParseTcTokenUrl, Checks, rest, server, trust
  <2>2. \A s \in {"Processing", "ParseTcTokenUrl"} :
            s \notin Doubled /\ s \in Before /\ Continue(s) \in Before
    BY NextStates DEF Doubled, Before
  <2> QED BY <1>4, <2>1, <2>2, KnownBefore
<1>6. CASE PreVerification \/ CertificateDescriptionCheck \/ CheckCertificates
  <2> DEFINE Good(s) ==
               CASE s = "PreVerification" -> eac1 # "NoChain"
                 [] s = "CertificateDescriptionCheck" ->
                        eac1 \notin {"NoDescription", "BadDescription"}
                 [] OTHER -> certificates \subseteq {"listed"}
  <2>1. \E s \in {"PreVerification", "CertificateDescriptionCheck", "CheckCertificates"} :
            /\ Running(s) /\ Decides(s, Good(s)) /\ UNCHANGED <<eac1, dvCvc, certificates>>
    BY <1>6 DEF PreVerification, CertificateDescriptionCheck, CheckCertificates, Checks, rest,
       server, trust
  <2>2. \A s \in {"PreVerification", "CertificateDescriptionCheck", "CheckCertificates"} :
            s \notin Doubled /\ (Good(s) /\ EarlyKnown(s) => EarlyKnown(Continue(s)))
    BY NextStates DEF Doubled, EarlyKnown, Before, Examining
  <2> HIDE DEF Good
  <2> QED BY <1>4, <2>1, <2>2
<1>7. CASE ExtractCvcsFromEac1InputType
  <2> DEFINE s == "ExtractCvcsFromEac1InputType"
             good == eac1 \notin {"NoTerminal", "TwoTerminals", "NoDv"}
  <2>1. /\ Running(s) /\ Decides(s, good) /\ UNCHANGED <<eac1, certificates>>
        /\ dvCvc' = (dvCvc \/ good) /\ s \notin Doubled
    BY <1>7 DEF ExtractCvcsFromEac1InputType, server, Doubled
  <2>2. CASE Fire(s, AbortOf(s))
    <3>1. Alone' /\ s # state
      BY <1>2, <2>1, <2>2
    <3>2. state' = state
      BY <2>2, <3>1 DEF Fire, FireIn
    <3> QED BY <2>1, <3>1, <3>2 DEF EarlyKnown
  <2>3. CASE good /\ Fire(s, "PreVerification")
    <3>1. Alone' /\ s = state /\ state' = "PreVerification"
      BY <2>1, <2>3, EarlyFire, EarlyRun
    <3>2. eac1 # "none"
      BY <3>1, EarlyStates DEF EarlyKnown, Examining
    <3> QED BY <2>1, <2>3, <3>1, <3>2 DEF EarlyKnown, Before, Examining
  <2> QED BY <2>1, <2>2, <2>3, NextStates DEF Decides, FireContinue, FireAbort
<1> QED BY <1>3, <1>5, <1>6, <1>7

LEMMA EarlyRequests ==
    ASSUME Order, Alone, EarlyKnown(state), state \in Early, state' \in Early, GetTcToken \/ Send
    PROVE  Alone' /\ EarlyKnown(state)'
<1>1. UNCHANGED <<eac1, dvCvc, certificates>>
  BY DEF GetTcToken, Send, trust
<1>2. ASSUME NEW s \in NetStates, Running(s), UNCHANGED <<state, jobs>>, events' = Later,
             net' = Requested(s)
      PROVE  Alone' /\ EarlyKnown(state)'
  BY <1>1, <1>2, EarlyAsk DEF EarlyKnown
<1>3. CASE GetTcToken
  <2>1. Running("GetTcToken") /\ \E address \in Addresses : SendTcTokenRequest(Later, address)
    BY <1>3 DEF GetTcToken
  <2>2. "GetTcToken" \in NetStates /\ "GetTcToken" \notin Doubled
    BY DEF NetStates, Doubled
  <2>3. "GetTcToken" = state /\ Later = <<>> /\ \A r \in NetStates : net[r] = "none"
    BY <2>1, <2>2, EarlyRun
  <2>4. state \in Early \cap Ours
    BY EarlyStates DEF Order
  <2>5. AbortOf("GetTcToken") \notin Early
    BY <2>3, <2>4, AbortLeads
  <2>6. ~FireIn(Later, Finished("GetTcToken"), "GetTcToken", AbortOf("GetTcToken"))
    BY <2>3, <2>5 DEF FireIn, Enter, EnterIf
  <2> QED BY <1>2, <2>1, <2>2, <2>6 DEF SendTcTokenRequest, KeepsState
<1>4. CASE Send
  <2>1. \E s \in SendStates : Running(s) /\ UNCHANGED <<state, jobs>> /\ events' = Later
                              /\ net' = Requested(s)
    BY <1>4 DEF Send, KeepsState
  <2> QED BY <1>2, <2>1 DEF NetStates
<1> QED BY <1>3, <1>4

LEMMA EarlyNetwork ==
    ASSUME Order, Alone, EarlyKnown(state), state \in Early, state' \in Early, Network
    PROVE  Alone' /\ EarlyKnown(state)'
<1>0. net \in NetOf /\ state \in Early \cap Ours
  BY EarlyStates DEF Order
<1>1. ASSUME NEW s \in NetStates, net[s] # "none", UNCHANGED <<state, jobs, events>>,
             net' = Opened(s) \/ net' = Requested(s), UNCHANGED <<eac1, dvCvc>>
      PROVE  Alone' /\ EarlyKnown(state)'
  <2>1. Alone' /\ s = state /\ state \in Before
    BY <1>0, <1>1, EarlyWait, EarlyStates
  <2> QED BY <1>1, <2>1, EarlyStates DEF EarlyKnown
<1>2. ASSUME NEW s \in NetStates, net[s] # "none", FireIn(events, Finished(s), s, AbortOf(s))
      PROVE  FALSE
  <2>1. s = state /\ state' = AbortOf(s) /\ s \notin Doubled
    BY <1>2, EarlyReply, EarlyStates
  <2> QED BY <1>0, <2>1, AbortLeads DEF Doubled
<1>3. ASSUME NEW s \in NetStates, net[s] # "none", FireIn(events, Finished(s), s, Continue(s)),
             UNCHANGED <<eac1, dvCvc, certificates>>, s \in {"GetTcToken", "CheckRefreshAddress",
                                                             "GetSelfAuthenticationData"}
      PROVE  Alone' /\ EarlyKnown(state)'
  <2>1. Alone' /\ s = state /\ state' = Continue(s)
    BY <1>3, EarlyReply
  <2>2. s = "GetTcToken" /\ s \in Before /\ Continue(s) \in Before
    BY <1>3, <2>1, NextStates, EarlyStates DEF Before, Early, Examining
  <2>3. EarlyKnown(Continue(s))
    BY <2>1, <2>2, KnownBefore
  <2> QED BY <1>3, <2>1, <2>3 DEF EarlyKnown
<1>4. ASSUME NEW s \in SendStates, NEW m \in DOMAIN Expected[s], ReceiveMessage(s, m)
      PROVE  Alone' /\ EarlyKnown(state)'
  <2>1. /\ net[s] # "none" /\ FireIn(events, Finished(s), s, Expected[s][m])
        /\ UNCHANGED <<dvCvc, certificates>>
        /\ IF m = "EAC1" THEN eac1' \in Eac1Kinds ELSE UNCHANGED eac1
    BY <1>4 DEF ReceiveMessage, trust
  <2>2. Alone' /\ s = state /\ state' = Expected[s][m] /\ s \in Before
    BY <2>1, EarlyReply, EarlyStates DEF NetStates
  <2>3. CASE m = "EAC1"
    <3>1. state' = "ExtractCvcsFromEac1InputType" /\ eac1' # "none"
      BY <2>1, <2>2, <2>3, MessageGoes DEF Eac1Kinds
    <3> QED BY <2>2, <3>1, EarlyStates DEF EarlyKnown, Examining
  <2>4. CASE m # "EAC1"
    <3>1. state' \in Before /\ eac1' = eac1
      BY <2>1, <2>2, <2>4, MessageGoes
    <3> QED BY <2>1, <2>2, <3>1, EarlyStates DEF EarlyKnown
  <2> QED BY <2>3, <2>4
<1>5. /\ {"GetTcToken", "CheckRefreshAddress", "GetSelfAuthenticationData"} \subseteq NetStates
      /\ SendStates \subseteq NetStates
  BY DEF NetStates
<1>6. CASE TcTokenHandshake \/ TcTokenRedirect \/ TcTokenReply
  <2> DEFINE s == "GetTcToken"
  <2>1. net[s] # "none" /\ UNCHANGED <<eac1, dvCvc>>
    BY <1>6 DEF TcTokenHandshake, TcTokenRedirect, TcTokenReply, server, trust
  <2>2. \/ UNCHANGED <<state, jobs, events>> /\ net' \in {Opened(s), Requested(s)}
        \/ FireIn(events, Finished(s), s, AbortOf(s))
        \/ FireIn(events, Finished(s), s, Continue(s)) /\ UNCHANGED certificates
    BY <1>6 DEF TcTokenHandshake, TcTokenRedirect, TcTokenReply, SendTcTokenRequest, KeepsState, trust
  <2> QED BY <1>1, <1>2, <1>3, <1>5, <2>1, <2>2
<1>7. CASE RefreshRedirect \/ RefreshHandshake \/ SelfReply
  <2>1. PICK s \in {"CheckRefreshAddress", "GetSelfAuthenticationData"} : net[s] # "none"
    BY <1>7 DEF RefreshRedirect, RefreshHandshake, SelfReply
  <2>2. s \notin Early
    BY <2>1 DEF Early, Before, Examining
  <2> QED BY <1>5, <2>1, <2>2 DEF Alone
<1>8. ASSUME NEW s \in SendStates \cup {"GetSelfAuthenticationData"}, CheckedHandshake(s)
      PROVE  Alone' /\ EarlyKnown(state)'
  <2>1. /\ net[s] # "none" /\ UNCHANGED <<eac1, dvCvc>>
        /\ \/ UNCHANGED <<state, jobs, events>> /\ net' = Opened(s)
           \/ FireIn(events, Finished(s), s, AbortOf(s))
    BY <1>8 DEF CheckedHandshake, server
  <2> QED BY <1>1, <1>2, <1>5, <1>8, <2>1
<1>9. ASSUME NEW s \in NetStates, RequestFails(s) PROVE FALSE
  BY <1>2, <1>9 DEF RequestFails
<1> QED BY <1>4, <1>6, <1>7, <1>8, <1>9 DEF Network

LEMMA EarlyUser ==
    ASSUME Order, Alone, EarlyKnown(state), state \in Early, state' \in Early,
           Approve \/ \E kill \in BOOLEAN : Cancel(kill)
    PROVE  Alone' /\ EarlyKnown(state)'
<1>1. CASE Approve
  <2>1. /\ IsUnapproved /\ events' = Append(events, Run(state))
        /\ UNCHANGED <<state, jobs, net, eac1, dvCvc, certificates>>
    BY <1>1 DEF Approve, machine, rest, server, trust
  <2>2. events = <<>>
    <3>1. state \in WaitStates /\ Run(state) \notin {events[i] : i \in DOMAIN events}
      BY <2>1 DEF IsUnapproved
    <3>2. state \notin {"SendInitializeFrameworkResponse", "SendDIDListResponse"}
      BY <3>1 DEF WaitStates
    <3> QED BY <3>1, <3>2 DEF Alone
  <2>3. \A r \in NetStates : net[r] = "none"
    <3> SUFFICES ASSUME NEW r \in NetStates, net[r] # "none" PROVE FALSE
      OBVIOUS
    <3>1. r = state /\ state \in WaitStates /\ state \in NetStates
      BY <2>1 DEF Alone, IsUnapproved
    <3>2. state = "GetTcToken"
      BY <3>1 DEF WaitStates, NetStates, SendStates, Expected
    <3> QED BY <2>1, <3>1, <3>2 DEF IsUnapproved
  <2>4. events' = <<Run(state)>>
    BY <2>1, <2>2
  <2> QED BY <2>1, <2>3, <2>4 DEF Alone, EarlyKnown
<1>2. ASSUME NEW kill \in BOOLEAN, Cancel(kill) PROVE Alone' /\ EarlyKnown(state)'
  <2> DEFINE n == AbortOf(state)
             q == IF kill /\ IsUnapproved THEN Append(events, Run(state)) ELSE events
  <2>1. EnterIf(killed', q, net, n) /\ UNCHANGED <<eac1, dvCvc, certificates>>
    BY <1>2, EarlyStates DEF Cancel, server, trust
  <2>2. state' = n
    BY <2>1 DEF EnterIf
  <2>3. state \in Doubled /\ n = Continue(state)
    BY <2>2, EarlyStates, AbortLeads DEF Order, Doubled
  <2>4. n \in {"SendInitializeFrameworkResponse", "SendDIDListResponse"}
    BY <2>3, NextStates DEF Doubled
  <2>5. q = events
    BY <2>3, EarlyStates DEF IsUnapproved
  <2>6. events' = Append(events, Run(n))
    BY <2>1, <2>4, <2>5 DEF EnterIf, WaitStates
  <2>7. events = <<>> \/ events = <<Run(state)>>
    BY <2>3 DEF Alone, Doubled
  <2>8. events' = <<Run(n)>> \/ events' = <<Run(state), Run(n)>>
    <3>1. Append(<<>>, Run(n)) = <<Run(n)>>
      OBVIOUS
    <3> HIDE DEF n
    <3> QED BY <2>6, <2>7, <3>1, TwoQueued
  <2>9. jobs' = <<>> /\ \A r \in NetStates : net'[r] = "none"
    BY <2>1 DEF EnterIf, Alone
  <2>10. Alone'
    BY <2>2, <2>3, <2>4, <2>8, <2>9 DEF Alone
  <2>11. EarlyKnown(n)
    BY <2>3, <2>4, KnownBefore, EarlyStates DEF Before
  <2> QED BY <2>1, <2>2, <2>10, <2>11 DEF EarlyKnown
<1> QED BY <1>1, <1>2

LEMMA BeginningStep == Order /\ Beginning /\ [AuthNext]_vars => Beginning'
<1> SUFFICES ASSUME Order, Beginning, [AuthNext]_vars, state' \in Early
             PROVE  (Alone /\ EarlyKnown(state) /\ ~selected)'
  BY DEF Beginning
<1>1. CASE UNCHANGED vars
  <2>1. UNCHANGED <<state, events, jobs, net, eac1, dvCvc, certificates, selected>>
    BY <1>1 DEF vars, machine, server, trust, card
  <2> QED BY <2>1 DEF Beginning, Alone, EarlyKnown
<1>2. CASE AuthNext
  <2>1. state \in Early
    <3>1. Advance
      BY <1>2, AllSteps, EarlyStates DEF Steps, Crash
    <3>2. Phase(state) <= Phase(state') /\ Phase(state) \in 1..9 /\ Phase(state') = 1
      BY <3>1, PhaseIs, EarlyStates DEF Advance, AllStates, Order, Ours
    <3>3. Phase(state) = 1
      BY <3>2
    <3> QED BY <3>3, PhaseIs DEF AllStates, Order, Ours
  <2>2. Alone /\ EarlyKnown(state) /\ ~selected /\ jobs = <<>>
    BY <2>1 DEF Beginning, Alone
  <2>3. selected' = selected
    BY <1>2, <2>1, SelectedStays, EarlyStates
  <2>4. ASSUME NEW s, Running(s) PROVE s \in Early /\ s \notin CardStates
    BY <2>1, <2>2, <2>4, EarlyRun, EarlyStates
  <2>5. ASSUME NEW s, NEW r, events # <<>>, Head(events) = Done(s, r) PROVE FALSE
    <3>1. \E t : Head(events) = Run(t)
      BY <2>2, <2>5 DEF Alone
    <3> QED BY <2>5, <3>1, EventKinds
  <2>6. CASE MainThread
    <3>1. CASE \/ Passing \/ Processing \/ ParseTcTokenUrl \/ PreVerification
               \/ CertificateDescriptionCheck \/ CheckCertificates \/ ExtractCvcsFromEac1InputType
      BY <2>1, <2>2, <2>3, <3>1, EarlyRuns
    <3>2. CASE GetTcToken \/ Send
      BY <2>1, <2>2, <2>3, <3>2, EarlyRequests
    <3>3. CASE CommandDone \/ UpdateRetryCounterDone
      BY <2>5, <3>3 DEF CommandDone, UpdateRetryCounterDone
    <3>4. {"ClearPacePasswords", "EACAdditionalInputType", "ProcessCertificatesFromEac2",
           "StartPaosResponse", "CleanUpReaderManager", "CheckError", "CheckRefreshAddress",
           "WriteHistory", "GetSelfAuthenticationData", "RedirectBrowser"} \cap Early = {}
      BY DEF Early, Before, Examining
    <3>5. CASE \/ ClearPacePasswords \/ EACAdditionalInputType \/ ProcessCertificatesFromEac2
               \/ StartPaosResponse \/ CleanUpReaderManager \/ CheckError \/ CheckRefreshAddress
               \/ WriteHistory \/ GetSelfAuthenticationData \/ RedirectBrowser
      BY <2>4, <3>4, <3>5
         DEF ClearPacePasswords, EACAdditionalInputType, ProcessCertificatesFromEac2, Checks,
             StartPaosResponse, CleanUpReaderManager, CheckError, CheckRefreshAddress, WriteHistory,
             GetSelfAuthenticationData, RedirectBrowser
    <3>6. CASE DidAuthenticateEac1 \/ DidAuthenticateEac2 \/ Transmit \/ UpdateRetryCounter
      BY <2>4, <3>6 DEF DidAuthenticateEac1, DidAuthenticateEac2, Transmit, UpdateRetryCounter, CardStates
    <3> QED BY <2>6, <3>1, <3>2, <3>3, <3>5, <3>6 DEF MainThread
  <2>7. CASE Network
    BY <2>1, <2>2, <2>3, <2>7, EarlyNetwork
  <2>8. CASE Approve \/ \E kill \in BOOLEAN : Cancel(kill)
    BY <2>1, <2>2, <2>3, <2>8, EarlyUser
  <2>9. CASE Execute \/ PaceEstablished \/ PaceAborted \/ CardRemoved
    BY <2>1, <2>2, <2>9, EarlyStates DEF Execute, PaceEstablished, PaceAborted, CardRemoved
  <2> QED BY <1>2, <2>6, <2>7, <2>8, <2>9 DEF AuthNext
<1> QED BY <1>1, <1>2
-----------------------------------------------------------------------------
(* What is checked before PACE stays checked *)

Trusted == dvCvc /\ eac1 \notin {"none", "NoDescription"} /\ certificates \subseteq {"listed"}
Quiet == \A r \in NetStates \cap Before : net[r] = "none"
Reading == {"DidAuthenticateEac1", "DidAuthenticateEac2", "Transmit"}
Checked ==
    /\ conn \/ pace => selected
    /\ state = "Pace" => ~selected
    /\ \A i \in DOMAIN jobs : jobs[i].of \in Reading => selected
    /\ selected \/ state = "Pace" => Trusted /\ Quiet /\ RunStates(events) \cap Before = {}

LEMMA TrustStays ==
    ASSUME AuthNext, Trusted, Quiet PROVE Trusted'
<1>1. CASE MainThread
  <2>1. dvCvc' = dvCvc \/ dvCvc'
    BY <1>1 DEF MainThread, Passing, Processing, ParseTcTokenUrl, GetTcToken, Send,
         ExtractCvcsFromEac1InputType, PreVerification, CertificateDescriptionCheck,
         CheckCertificates, ClearPacePasswords, DidAuthenticateEac1,
         EACAdditionalInputType, ProcessCertificatesFromEac2, DidAuthenticateEac2,
         Transmit, StartPaosResponse, UpdateRetryCounter, CleanUpReaderManager,
         CheckError, CheckRefreshAddress, WriteHistory, GetSelfAuthenticationData,
         RedirectBrowser, CommandDone, UpdateRetryCounterDone, Checks, rest, trust, Trusted
  <2>2. UNCHANGED <<eac1, certificates>>
    BY <1>1 DEF MainThread, Passing, Processing, ParseTcTokenUrl, GetTcToken, Send,
         ExtractCvcsFromEac1InputType, PreVerification, CertificateDescriptionCheck,
         CheckCertificates, ClearPacePasswords, DidAuthenticateEac1,
         EACAdditionalInputType, ProcessCertificatesFromEac2, DidAuthenticateEac2,
         Transmit, StartPaosResponse, UpdateRetryCounter, CleanUpReaderManager,
         CheckError, CheckRefreshAddress, WriteHistory, GetSelfAuthenticationData,
         RedirectBrowser, CommandDone, UpdateRetryCounterDone, Checks, rest, trust, server
  <2> QED BY <2>1, <2>2 DEF Trusted
<1>2. CASE Network
  <2>1. ASSUME NEW c \in Certificates, UNCHANGED <<dvCvc, eac1>>,
               certificates' = IF Accepts(c) THEN certificates \cup {c} ELSE certificates
        PROVE  Trusted'
    BY <2>1 DEF Trusted, Accepts
  <2>2. CASE TcTokenHandshake \/ TcTokenRedirect \/ TcTokenReply
    BY <2>2 DEF TcTokenHandshake, TcTokenRedirect, TcTokenReply, Quiet, NetStates, Before
  <2>3. CASE RefreshRedirect \/ SelfReply \/ \E s \in NetStates : RequestFails(s)
    BY <2>3 DEF RefreshRedirect, SelfReply, RequestFails, rest, server, trust, Trusted
  <2>4. CASE RefreshHandshake \/ \E s \in SendStates \cup {"GetSelfAuthenticationData"} : CheckedHandshake(s)
    <3>1. /\ UNCHANGED <<dvCvc, eac1>>
          /\ \E c \in Certificates :
                 certificates' = IF Accepts(c) THEN certificates \cup {c} ELSE certificates
      BY <2>4 DEF RefreshHandshake, CheckedHandshake, server
    <3> QED BY <2>1, <3>1
  <2>5. ASSUME NEW s \in SendStates, NEW m \in DOMAIN Expected[s], ReceiveMessage(s, m)
        PROVE  Trusted'
    <3>1. m # "EAC1"
      <4> SUFFICES ASSUME m = "EAC1" PROVE FALSE
        OBVIOUS
      <4>1. s \in Before
        BY MessageGoes, EarlyStates DEF Examining
      <4> QED BY <2>5, <4>1 DEF Quiet, NetStates, ReceiveMessage
    <3> QED BY <2>5, <3>1 DEF ReceiveMessage, trust, Trusted
  <2> QED BY <1>2, <2>2, <2>3, <2>4, <2>5 DEF Network
<1>3. CASE Execute \/ PaceEstablished \/ PaceAborted \/ Approve \/ CardRemoved
           \/ \E kill \in BOOLEAN : Cancel(kill)
  BY <1>3 DEF Execute, PaceEstablished, PaceAborted, Approve, CardRemoved, Cancel, rest, server,
     trust, Trusted
<1> QED BY <1>1, <1>2, <1>3 DEF AuthNext

\* Only PACE brings a card.
LEMMA CardStays ==
    ASSUME AuthNext, conn \/ pace => selected
    PROVE  conn' \/ pace' => selected'
<1>1. CASE MainThread
  BY <1>1 DEF MainThread, Passing, Processing, ParseTcTokenUrl, GetTcToken, Send,
       ExtractCvcsFromEac1InputType, PreVerification, CertificateDescriptionCheck,
       CheckCertificates, ClearPacePasswords, DidAuthenticateEac1,
       EACAdditionalInputType, ProcessCertificatesFromEac2, DidAuthenticateEac2,
       Transmit, StartPaosResponse, UpdateRetryCounter, CleanUpReaderManager,
       CheckError, CheckRefreshAddress, WriteHistory, GetSelfAuthenticationData,
       RedirectBrowser, CommandDone, UpdateRetryCounterDone, Checks, rest, card
<1>2. CASE Network
  BY <1>2 DEF Network, TcTokenHandshake, TcTokenRedirect, TcTokenReply, SelfReply, RequestFails,
       CheckedHandshake, ReceiveMessage, RefreshRedirect, RefreshHandshake, rest, card
<1>3. CASE Execute \/ PaceEstablished \/ PaceAborted \/ Approve \/ CardRemoved
           \/ \E kill \in BOOLEAN : Cancel(kill)
  BY <1>3 DEF Execute, PaceEstablished, PaceAborted, Approve, CardRemoved, Cancel, rest, card
<1> QED BY <1>1, <1>2, <1>3 DEF AuthNext

LEMMA CheckedInit == AuthInit => Checked
<1> SUFFICES ASSUME AuthInit PROVE Checked
  OBVIOUS
<1>1. state # "Pace"
  BY DEF AuthInit
<1> QED BY <1>1 DEF AuthInit, Checked

LEMMA CheckedStep == Order /\ Beginning /\ Checked /\ [AuthNext]_vars => Checked'
<1> SUFFICES ASSUME Order, Beginning, Checked, [AuthNext]_vars PROVE Checked'
  OBVIOUS
<1>1. CASE UNCHANGED vars
  <2>1. UNCHANGED <<state, events, jobs, net, eac1, dvCvc, certificates, selected, conn, pace>>
    BY <1>1 DEF vars, machine, server, trust, card
  <2> QED BY <2>1 DEF Checked, Trusted, Quiet, RunStates
<1>2. CASE AuthNext
  <2>1. Steps
    BY <1>2, AllSteps
  <2>2. (selected => selected') /\ (conn' \/ pace' => selected')
    BY <1>2, SelectedStays, CardStays DEF Checked
  <2>3. CASE Crash
    <3>1. jobs' = <<>> /\ RunStates(events') = {} /\ Quiet' /\ state' # "Pace"
      BY <2>3 DEF Crash, RunStates, Quiet
    <3>2. selected' => selected \/ state = "Pace"
      BY <1>2, SelectedStays
    <3>3. selected' => Trusted'
      BY <1>2, <3>2, TrustStays DEF Checked
    <3> QED BY <2>2, <3>1, <3>3 DEF Checked
  <2>4. CASE Advance /\ Arrival
    <3>1. Phase(state) \in 1..9 /\ Phase(state') \in 1..9 /\ Phase(state) <= Phase(state')
      BY <2>1, <2>4, PhaseIs DEF Order, Ours, AllStates, Advance, Steps
    <3>2. /\ state = "Pace" => Phase(state) = 2
          /\ Phase(state) = 1 => state \in Early
          /\ state' \in Early => Phase(state') = 1
          /\ state' = "Pace" => Phase(state') = 2
          /\ state \in Deep => Phase(state) = 5
          /\ state = "SendResponseEAC1" => Phase(state) = 4
      BY <2>1, <2>4, PhaseIs DEF Order, Ours, AllStates, Steps
    <3>3. state' = "Pace" => state \in {"Pace", "EditAccessRights"}
      BY <2>4, StatesListed DEF Arrival, Goes, Deep
    <3>4. state' = "Pace" => ~selected'
      <4> SUFFICES ASSUME state' = "Pace" PROVE ~selected'
        OBVIOUS
      <4>1. selected' = selected
        BY <1>2, SelectedStays
      <4>2. state = "EditAccessRights" => ~selected
        BY DEF Beginning, Early
      <4> QED BY <3>3, <4>1, <4>2 DEF Checked
    <3>5. \A i \in DOMAIN jobs' : jobs'[i].of \in Reading => selected'
      BY <2>2, <2>4 DEF Advance, Checked
    <3>6. ASSUME selected' \/ state' = "Pace"
          PROVE  /\ Trusted /\ Quiet /\ RunStates(events) \cap Before = {}
                 /\ state \notin Before /\ state' \notin Before
      <4>1. \/ selected \/ state = "Pace"
            \/ state = "EditAccessRights" /\ state' = "Pace"
        BY <1>2, <3>3, <3>6, SelectedStays
      <4>2. CASE selected \/ state = "Pace"
        <5>1. state \notin Early
          BY <3>2, <4>2, EarlyStates DEF Beginning
        <5>2. state' \notin Early
          BY <3>1, <3>2, <5>1
        <5> QED BY <4>2, <5>1, <5>2, EarlyStates DEF Checked
      <4>3. CASE state = "EditAccessRights" /\ state' = "Pace"
        <5>1. Alone /\ EarlyKnown(state)
          BY <4>3 DEF Beginning, Early
        <5>2. Trusted
          BY <4>3, <5>1, EarlyStates DEF EarlyKnown, Trusted
        <5>3. Quiet
          BY <4>3, <5>1, EarlyStates DEF Alone, Quiet
        <5>4. events = <<>> \/ events = <<Run(state)>>
          BY <4>3, <5>1 DEF Alone
        <5>5. RunStates(events) \subseteq {state}
          <6>1. \A i \in DOMAIN events : events[i] = Run(state)
            BY <5>4
          <6> QED BY <6>1, EventKinds DEF RunStates
        <5> QED BY <4>3, <5>2, <5>3, <5>5, EarlyStates
      <4> QED BY <4>1, <4>2, <4>3
    <3>7. ASSUME selected' \/ state' = "Pace"
          PROVE  Trusted' /\ Quiet' /\ RunStates(events') \cap Before = {}
      <4>1. Trusted'
        BY <1>2, <3>6, <3>7, TrustStays
      <4>2. RunStates(events') \cap Before = {}
        BY <2>4, <3>6, <3>7 DEF Advance
      <4>3. Quiet'
        <5> SUFFICES ASSUME NEW r \in NetStates \cap Before PROVE net'[r] = "none"
          BY DEF Quiet
        <5>1. net[r] = "none"
          BY <3>6, <3>7 DEF Quiet
        <5>2. ~Running(r)
          BY <3>6, <3>7, QueueTaken, StatesListed DEF Running, Order
        <5> QED BY <2>4, <5>1, <5>2 DEF Advance, Requests
      <4> QED BY <4>1, <4>2, <4>3
    <3> QED BY <2>2, <3>4, <3>5, <3>7 DEF Checked
  <2> QED BY <2>1, <2>3, <2>4 DEF Steps
<1> QED BY <1>1, <1>2

\* No command that reads the card is issued before every certificate met on the way
\* has been compared with the description of the server (StateCheckCertificates,
\* CertificateChecker).
THEOREM ReadsAreChecked == AuthSpec => []CheckedBeforeRead
<1>1. Checked => CheckedBeforeRead
  BY DEF Checked, CheckedBeforeRead, Trusted, Reading
<1> QED BY <1>1, BeginningInit, BeginningStep, CheckedInit, CheckedStep, PhasesInOrder, PTL
        DEF AuthSpec
-----------------------------------------------------------------------------
(* The card is there when it is used, if the server ends the conversation    *)
(* once it has been told of an error                                         *)

Card == conn /\ pace
Using ==
    /\ status \in {"ok", "error"}
    /\ Phase(state) \in {3, 5} => Card
    /\ \A s \in RunStates(events) : Phase(s) \in {3, 5} => Card
    /\ state = "SendResponseEAC1" /\ status = "ok" => Card
    /\ state = "SendResponseEAC1" /\ net[state] # "none" /\ ~reported => Card

LEMMA UsingInit == AuthInit => Using
<1> SUFFICES ASSUME AuthInit PROVE Using
  OBVIOUS
<1>1. state \in Early /\ state # "SendResponseEAC1" /\ status = "ok"
  BY DEF AuthInit, Early, Before
<1>2. Phase(state) = 1
  BY <1>1, PhaseIs, EarlyStates DEF AllStates
<1>3. RunStates(events) \subseteq {state}
  <2>1. \A i \in DOMAIN events : events[i] = Run(state)
    BY DEF AuthInit
  <2> QED BY <2>1, EventKinds DEF RunStates
<1> QED BY <1>1, <1>2, <1>3 DEF Using

\* What the server was told stays told.
LEMMA ReportedStays == AuthNext => (reported => reported')
<1> SUFFICES ASSUME AuthNext PROVE reported => reported'
  OBVIOUS
<1>1. CASE MainThread
  BY <1>1 DEF MainThread, Passing, Processing, ParseTcTokenUrl, GetTcToken, Send,
       ExtractCvcsFromEac1InputType, PreVerification, CertificateDescriptionCheck,
       CheckCertificates, ClearPacePasswords, DidAuthenticateEac1,
       EACAdditionalInputType, ProcessCertificatesFromEac2, DidAuthenticateEac2,
       Transmit, StartPaosResponse, UpdateRetryCounter, CleanUpReaderManager,
       CheckError, CheckRefreshAddress, WriteHistory, GetSelfAuthenticationData,
       RedirectBrowser, CommandDone, UpdateRetryCounterDone, Checks, rest, server
<1>2. CASE Network
  BY <1>2 DEF Network, TcTokenHandshake, TcTokenRedirect, TcTokenReply, SelfReply, RequestFails,
       CheckedHandshake, ReceiveMessage, RefreshRedirect, RefreshHandshake, rest, server
<1>3. CASE Execute \/ PaceEstablished \/ PaceAborted \/ Approve \/ CardRemoved
           \/ \E kill \in BOOLEAN : Cancel(kill)
  BY <1>3 DEF Execute, PaceEstablished, PaceAborted, Approve, CardRemoved, Cancel, rest, server
<1> QED BY <1>1, <1>2, <1>3 DEF AuthNext

\* The card is lost by PACE, by the last states or by an update of its counter.
LEMMA CardLost ==
    ASSUME AuthNext
    PROVE  \/ UNCHANGED <<conn, pace>> \/ PaceEstablished \/ PaceAborted
           \/ Running("CleanUpReaderManager")
           \/ \E r \in Results : events # <<>> /\ Head(events) = Done("UpdateRetryCounter", r)
<1>1. CASE MainThread
  <2>1. CASE CleanUpReaderManager
    BY <2>1 DEF CleanUpReaderManager
  <2>2. CASE UpdateRetryCounterDone
    BY <2>2 DEF UpdateRetryCounterDone, Results
  <2>3. CASE MainThread /\ ~CleanUpReaderManager /\ ~UpdateRetryCounterDone
    BY <2>3 DEF MainThread, Passing, Processing, ParseTcTokenUrl, GetTcToken, Send,
       ExtractCvcsFromEac1InputType, PreVerification, CertificateDescriptionCheck,
       CheckCertificates, ClearPacePasswords, DidAuthenticateEac1,
       EACAdditionalInputType, ProcessCertificatesFromEac2, DidAuthenticateEac2,
       Transmit, StartPaosResponse, UpdateRetryCounter,
       CheckError, CheckRefreshAddress, WriteHistory, GetSelfAuthenticationData,
       RedirectBrowser, CommandDone, Checks, rest, card
  <2> QED BY <1>1, <2>1, <2>2, <2>3
<1>2. CASE Network
  BY <1>2 DEF Network, TcTokenHandshake, TcTokenRedirect, TcTokenReply, SelfReply, RequestFails,
       CheckedHandshake, ReceiveMessage, RefreshRedirect, RefreshHandshake, rest, card
<1>3. CASE Execute \/ Approve \/ CardRemoved \/ \E kill \in BOOLEAN : Cancel(kill)
  BY <1>3 DEF Execute, Approve, CardRemoved, Cancel, rest, card
<1> QED BY <1>1, <1>2, <1>3 DEF AuthNext

LEMMA UsingStep ==
    ASSUME ObeysErrors, Order, Using, [AuthNext]_vars PROVE Using'
<1>1. CASE UNCHANGED vars
  <2>1. UNCHANGED <<state, events, net, status, reported, conn, pace>>
    BY <1>1 DEF vars, machine, server, card
  <2> QED BY <2>1 DEF Using, Card, RunStates
<1>2. CASE AuthNext
  <2> DEFINE e == "SendResponseEAC1"
  <2>1. /\ Order' /\ (Crash \/ (Advance /\ Arrival))
        /\ status' \in {status, "error"} /\ status' \in {"ok", "error"} /\ (reported => reported')
    BY <1>2, AllSteps, StatusStays, ReportedStays DEF Steps, Using
  <2>2. CASE Crash
    <3>1. state' = "Crashed" /\ RunStates(events') = {}
      BY <2>2 DEF Crash, RunStates
    <3>2. Phase(state') = 9
      BY <3>1, PhaseIs DEF AllStates
    <3> QED BY <2>1, <3>1, <3>2 DEF Using
  <2>3. CASE Advance /\ Arrival
    <3>1. /\ Phase(state) \in 1..9 /\ Phase(state') \in 1..9 /\ Phase(state) <= Phase(state')
          /\ state \in AllStates /\ state' \in AllStates
      BY <2>1, <2>3, PhaseIs DEF Order, Ours, AllStates, Advance
    <3>2. /\ e \in NetStates /\ e \in SendStates \ {"SendStartPaos"} /\ e \in States /\ Phase(e) = 4
          /\ Phase("Pace") = 2 /\ (Phase(state) = 4 <=> state = e)
      BY <3>1, StatesListed, PhaseIs DEF NetStates, AllStates
    <3>3. /\ RunStates(events') \subseteq RunStates(events) \cup {state, state'}
          /\ \A s \in RunStates(events) : Phase(s) <= Phase(state) /\ Phase(s) \in 1..9
      BY <2>3, PhaseIs DEF Advance, Order, RunStates, AllStates
    <3>4. Running(e) => e \in RunStates(events)
      BY <3>2, QueueTaken DEF Running, Order
    <3>5. net'[e] # "none" => /\ Phase(state) >= 4
                              /\ net[e] # "none" \/ (Running(e) /\ (status = "error" => reported'))
      BY <2>3, <3>2, <3>3, <3>4 DEF Advance, Order, Requests
    <3>6. CASE UNCHANGED <<conn, pace>>
      <4>1. Phase(state') \in {3, 5} => Card
        <5>1. /\ state' \in Deep => Phase(state') = 5
              /\ state' = "ClearPacePasswords" => Phase(state') = 3
          BY <3>1, PhaseIs DEF Fresh
        <5> QED BY <2>3, <3>6, <5>1 DEF Arrival, Goes, Using, Card
      <4>2. \A s \in RunStates(events') : Phase(s) \in {3, 5} => Card
        BY <3>3, <4>1 DEF Using
      <4>3. state' = e /\ status' = "ok" => Card
        <5>1. e \notin Deep
          BY DEF Deep
        <5> QED BY <2>1, <2>3, <5>1 DEF Arrival, Using
      <4>4. state' = e /\ net'[e] # "none" /\ ~reported' => Card
        <5> SUFFICES ASSUME state' = e, net'[e] # "none", ~reported' PROVE Card
          OBVIOUS
        <5>1. state = e
          BY <3>1, <3>2, <3>5
        <5> QED BY <2>1, <3>5, <5>1 DEF Using
      <4> QED BY <2>1, <3>6, <4>1, <4>2, <4>3, <4>4 DEF Using, Card
    <3>7. CASE PaceEstablished
      BY <2>1, <3>7 DEF PaceEstablished, Using, Card
    <3>8. CASE PaceAborted
      <4>1. state = "Pace" /\ state' = e /\ status' = "error"
        BY <3>8, AbortLeads DEF PaceAborted, Enter, EnterIf, UpdateStatus
      <4>2. net'[e] = "none"
        BY <3>2, <3>5, <4>1
      <4>3. \A s \in RunStates(events') : Phase(s) \notin {3, 5}
        BY <3>2, <3>3, <4>1
      <4> QED BY <3>2, <4>1, <4>2, <4>3 DEF Using
    <3>9. ASSUME Phase(state) >= 6, \A s \in RunStates(events) : Phase(s) >= 6
          PROVE  Using'
      <4>1. \A s \in RunStates(events') \cup {state'} : Phase(s) \notin {3, 5}
        BY <3>1, <3>3, <3>9
      <4>2. state' # e
        BY <3>1, <3>2, <3>9
      <4> QED BY <2>1, <4>1, <4>2 DEF Using
    <3>10. CASE Running("CleanUpReaderManager")
      <4> DEFINE c == "CleanUpReaderManager"
      <4>1. c \in States /\ Phase(c) = 6
        BY StatesListed, PhaseIs DEF Late, AllStates
      <4>2. \A s \in RunStates(events) : Phase(s) >= 6
        <5>1. /\ events \in Seq(Events) /\ events # <<>> /\ Head(events) = Run(c)
              /\ \A t \in RunStates(Later) : Phase(c) <= Phase(t)
          BY <3>10, <4>1, QueueLeft DEF Order, Running
        <5>2. RunStates(events) \subseteq RunStates(Later) \cup {c}
          <6>1. /\ events[1] = Run(c)
                /\ \A i \in DOMAIN events : i # 1 =>
                       i - 1 \in DOMAIN Later /\ Later[i - 1] = events[i]
            BY <5>1, TailIsThinned DEF Later
          <6> QED BY <6>1, EventKinds DEF RunStates
        <5> QED BY <4>1, <5>1, <5>2
      <4>3. Phase(state) >= 6
        BY <3>10, <4>1, QueueLeft
      <4> QED BY <3>9, <4>2, <4>3
    <3>11. CASE \E r \in Results : events # <<>> /\ Head(events) = Done("UpdateRetryCounter", r)
      <4>1. Counting
        <5>1. events # <<>> /\ Head(events) = events[1] /\ 1 \in DOMAIN events
          BY <3>11, TailIsThinned DEF Order
        <5> QED BY <3>11, <5>1, EventKinds DEF Counting, Counted
      <4> QED BY <3>9, <4>1 DEF Order
    <3> QED BY <1>2, <3>6, <3>7, <3>8, <3>10, <3>11, CardLost
  <2> QED BY <2>1, <2>2, <2>3
<1> QED BY <1>1, <1>2

\* With a server that ends the conversation once it has been told of an error, the
\* states that use the connection and the output of PACE without a check find them
\* (StateDidAuthenticateEac1, StateProcessCertificatesFromEac2,
\* StateDidAuthenticateEac2, StateTransmit).
THEOREM CardIsThere == ASSUME ObeysErrors PROVE AuthSpec => []CardThere
<1>1. Order /\ Using => CardThere
  <2> SUFFICES ASSUME Order, Using PROVE CardThere
    OBVIOUS
  <2>1. ASSUME NEW s \in States, Running(s), Phase(s) \in {3, 5} PROVE Card
    <3>1. s \in RunStates(events)
      BY <2>1, QueueTaken DEF Running, Order
    <3> QED BY <2>1, <3>1 DEF Using
  <2>2. /\ Phase("DidAuthenticateEac1") = 3 /\ Phase("ProcessCertificatesFromEac2") = 5
        /\ Phase("DidAuthenticateEac2") = 5 /\ Phase("Transmit") = 5
        /\ {"DidAuthenticateEac1", "ProcessCertificatesFromEac2", "DidAuthenticateEac2",
            "Transmit"} \subseteq States
    BY StatesListed, PhaseIs DEF Fresh, Deep, AllStates
  <2> QED BY <2>1, <2>2 DEF CardThere, Card
<1>2. Order /\ Using /\ [AuthNext]_vars => Using'
  BY UsingStep
<1> QED BY <1>1, <1>2, UsingInit, PhasesInOrder, PTL DEF AuthSpec
=============================================================================
