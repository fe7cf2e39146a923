---------------------------- MODULE Authentication ----------------------------
(***************************************************************************)
(* The workflows that authenticate the user: for a caller, mostly a        *)
(* browser (AuthController), or for a look at the own data                 *)
(* (SelfAuthController).  Both share CompositeStateTrustedChannel, the     *)
(* conversation with the eID server, and StateCheckRefreshAddress, the     *)
(* search for the address the caller is sent back to.                      *)
(*                                                                         *)
(* Every state leaves by a continue, an abort or the type of message it    *)
(* received.  Its run() is a queued call, a request of the network or a    *)
(* card command may be answered late, and a cancellation, the removal of   *)
(* the card or the end of the program leaves whatever state is active.     *)
(*                                                                         *)
(* CompositeStatePace is one state here, with the outcomes PaceChannel     *)
(* shows it to have.  Desktop build, no developer mode, history enabled,   *)
(* no survey pending.  A certificate of a TLS handshake is either listed   *)
(* in the certificate description of the server or not.                    *)
(***************************************************************************)
EXTENDS Integers, Sequences, FiniteSets

CONSTANTS
    Workflows,          \* kinds of workflow: "auth", "selfauth"
    Urls,               \* addresses the server redirects to
    SameOrigin,         \* those of the same origin as the subject URL
    ObeysErrors,        \* the server ends the conversation once it is told an error
    MaxExtra,           \* bound: redirects and further transmits of the server
    MaxRemovals,        \* bound: signals of a removed card or reader
    MaxCancels          \* bound: cancellations and ends of the program

ASSUME AuthAssumption ==
    /\ Workflows \subseteq {"auth", "selfauth"} /\ SameOrigin \subseteq Urls
    /\ ObeysErrors \in BOOLEAN /\ {MaxExtra, MaxRemovals, MaxCancels} \subseteq Nat

\* What the server sends with EAC1: all is well, or what is wrong with it
Eac1Kinds == {"Good", "NoTerminal", "TwoTerminals", "NoDv", "NoChain",
              "NoDescription", "BadDescription"}
Certificates == {"listed", "other"}
NoUrl == "no url"

\* Where fireContinue leads to (CompositeStateTrustedChannel,
\* CompositeStateProcessCvcsAndSetRights, AuthController)
AuthContinue == [
    Processing                      |-> "ParseTcTokenUrl",
    ParseTcTokenUrl                 |-> "GetTcToken",
    GetTcToken                      |-> "StartPaos",
    StartPaos                       |-> "SendStartPaos",
    SendStartPaos                   |-> "InitializeFramework",
    InitializeFramework             |-> "SendInitializeFrameworkResponse",
    SendInitializeFrameworkResponse |-> "DidList",
    DidList                         |-> "SendDIDListResponse",
    SendDIDListResponse             |-> "ExtractCvcsFromEac1InputType",
    ExtractCvcsFromEac1InputType    |-> "PreVerification",
    PreVerification                 |-> "CertificateDescriptionCheck",
    CertificateDescriptionCheck     |-> "CheckCertificates",
    CheckCertificates               |-> "EditAccessRights",
    EditAccessRights                |-> "Pace",
    Pace                            |-> "ClearPacePasswords",
    ClearPacePasswords              |-> "DidAuthenticateEac1",
    DidAuthenticateEac1             |-> "SendResponseEAC1",
    SendResponseEAC1                |-> "EACAdditionalInputType",
    EACAdditionalInputType          |-> "ProcessCertificatesFromEac2",
    SendResponseAdditional          |-> "ProcessCertificatesFromEac2",
    ProcessCertificatesFromEac2     |-> "DidAuthenticateEac2",
    DidAuthenticateEac2             |-> "SendResponseEAC2",
    SendResponseEAC2                |-> "Transmit",
    Transmit                        |-> "SendTransmitResponse",
    SendTransmitResponse            |-> "Transmit",
    SendDisconnectResponse          |-> "StartPaosResponse",
    StartPaosResponse               |-> "UpdateRetryCounter",
    UpdateRetryCounter              |-> "CleanUpReaderManager",
    CleanUpReaderManager            |-> "CheckRefreshAddress",
    CheckRefreshAddress             |-> "ActivateStoreFeedbackDialog",
    ActivateStoreFeedbackDialog     |-> "WriteHistory",
    WriteHistory                    |-> "SendWhitelistSurvey",
    SendWhitelistSurvey             |-> "RedirectBrowser",
    RedirectBrowser                 |-> "FinalState",
    FinalState                      |-> "Ended" ]

\* Where one table says nothing, the other counts.
Over(f, g) == [s \in DOMAIN f \cup DOMAIN g |-> IF s \in DOMAIN f THEN f[s] ELSE g[s]]

\* Where fireAbort leads to, if elsewhere
AuthAbort == Over([
    Processing                      |-> "CheckRefreshAddress",
    ParseTcTokenUrl                 |-> "CheckRefreshAddress",
    GetTcToken                      |-> "CleanUpReaderManager",
    StartPaos                       |-> "CleanUpReaderManager",
    SendStartPaos                   |-> "CleanUpReaderManager",
    SendInitializeFrameworkResponse |-> "CleanUpReaderManager",
    SendDIDListResponse             |-> "CleanUpReaderManager",
    ExtractCvcsFromEac1InputType    |-> "SendResponseEAC1",
    PreVerification                 |-> "SendResponseEAC1",
    CertificateDescriptionCheck     |-> "SendResponseEAC1",
    CheckCertificates               |-> "SendResponseEAC1",
    EditAccessRights                |-> "SendResponseEAC1",
    Pace                            |-> "SendResponseEAC1",
    SendResponseEAC1                |-> "UpdateRetryCounter",
    EACAdditionalInputType          |-> "SendResponseAdditional",
    SendResponseAdditional          |-> "UpdateRetryCounter",
    ProcessCertificatesFromEac2     |-> "SendResponseEAC2",
    SendResponseEAC2                |-> "UpdateRetryCounter",
    SendTransmitResponse            |-> "UpdateRetryCounter",
    SendDisconnectResponse          |-> "UpdateRetryCounter",
    CheckRefreshAddress             |-> "RedirectBrowser",
    WriteHistory                    |-> "RedirectBrowser" ], AuthContinue)

\* The same for SelfAuthController
SelfContinue == Over([
    LoadTcTokenUrl                  |-> "GetTcToken",
    CleanUpReaderManager            |-> "CheckError",
    CheckError                      |-> "CheckRefreshAddress",
    WriteHistory                    |-> "GetSelfAuthenticationData",
    GetSelfAuthenticationData       |-> "ShowSelfInfo",
    ShowSelfInfo                    |-> "SendWhitelistSurvey",
    SendWhitelistSurvey             |-> "FinalState" ], AuthContinue)
SelfAbort == Over([
    LoadTcTokenUrl                  |-> "CheckRefreshAddress",
    CleanUpReaderManager            |-> "CheckError",
    CheckError                      |-> "FinalState",
    CheckRefreshAddress             |-> "FinalState",
    WriteHistory                    |-> "GetSelfAuthenticationData",
    GetSelfAuthenticationData       |-> "FinalState",
    ShowSelfInfo                    |-> "FinalState",
    SendWhitelistSurvey             |-> "FinalState" ], AuthAbort)

States == DOMAIN SelfContinue

\* The message each state sends may be answered by (StateGenericSendReceive.h)
Expected == [
    SendStartPaos |-> [INITIALIZE_FRAMEWORK |-> "InitializeFramework", DID_LIST |-> "DidList",
                       EAC1 |-> "ExtractCvcsFromEac1InputType",
                       STARTPAOS_RESPONSE |-> "StartPaosResponse"],
    SendInitializeFrameworkResponse |->
                      [DID_LIST |-> "DidList", EAC1 |-> "ExtractCvcsFromEac1InputType",
                       STARTPAOS_RESPONSE |-> "StartPaosResponse"],
    SendDIDListResponse |->
                      [EAC1 |-> "ExtractCvcsFromEac1InputType",
                       DISCONNECT |-> "SendDisconnectResponse",
                       STARTPAOS_RESPONSE |-> "StartPaosResponse"],
    SendResponseEAC1 |->
                      [EAC2 |-> "EACAdditionalInputType", DISCONNECT |-> "SendDisconnectResponse",
                       STARTPAOS_RESPONSE |-> "StartPaosResponse"],
    SendResponseAdditional |->
                      [ADDITIONAL |-> "ProcessCertificatesFromEac2",
                       STARTPAOS_RESPONSE |-> "StartPaosResponse"],
    SendResponseEAC2 |->
                      [TRANSMIT |-> "Transmit", DISCONNECT |-> "SendDisconnectResponse",
                       STARTPAOS_RESPONSE |-> "StartPaosResponse"],
    SendTransmitResponse |->
                      [TRANSMIT |-> "Transmit", DISCONNECT |-> "SendDisconnectResponse",
                       STARTPAOS_RESPONSE |-> "StartPaosResponse"],
    SendDisconnectResponse |-> [STARTPAOS_RESPONSE |-> "StartPaosResponse"] ]
SendStates == DOMAIN Expected
NetStates == SendStates \cup {"GetTcToken", "CheckRefreshAddress", "GetSelfAuthenticationData"}

\* States the user interface does not approve at once
WaitStates == {"GetTcToken", "PreVerification", "EditAccessRights", "FinalState"}
\* States that abort when the card is removed (pConnectOnCardRemoved)
RemovalStates == {"DidAuthenticateEac1", "SendResponseEAC1", "EACAdditionalInputType",
                  "SendResponseAdditional", "ProcessCertificatesFromEac2",
                  "DidAuthenticateEac2", "SendResponseEAC2", "Transmit",
                  "SendTransmitResponse", "SendDisconnectResponse", "StartPaosResponse"}

\* "odd": the card answered a transmit with a status the server did not expect
Results == {"ok", "fail", "odd"}
Run(s) == [type |-> "run", of |-> s, result |-> "ok"]
Done(s, r) == [type |-> "done", of |-> s, result |-> r]
CardStates == {"DidAuthenticateEac1", "DidAuthenticateEac2", "Transmit", "UpdateRetryCounter"}

VARIABLES
    workflow,           \* the kind of workflow
    state,              \* the active state
    events,             \* event queue of the main thread: run() and results of the card
    jobs,               \* card commands the reader thread has yet to execute
    net,                \* the request of each state: "none", "sent" or "open" (TLS is up)
    status,             \* mStatus
    response,           \* mStartPaosResponse: its result
    paosResult,         \* mStartPaosResult
    reported,           \* mErrorReportedToServer
    token,              \* mTcToken is there
    tokenNotFound,      \* mTcTokenNotFound
    eac1,               \* mDIDAuthenticateEAC1
    rights, dvCvc,      \* mAccessRightManager and mDvCvc are there
    certificates,       \* mCertificates
    selected,           \* mReaderName is set
    conn, pace,         \* mCardConnection and mPaceOutputData are there
    pw,                 \* a password is in the context
    step, url, verified,\* StateCheckRefreshAddress: kind of request, mUrl, mVerifiedRefreshUrlHosts
    refreshUrl,         \* mRefreshUrl
    history,            \* entries written to the history
    answers,            \* what the caller was sent
    cancelled, killed,  \* mWorkflowCancelled, mWorkflowKilled
    extra, removals, cancels

machine == <<state, jobs, net>>
server  == <<response, paosResult, reported, token, tokenNotFound, eac1>>
trust   == <<rights, dvCvc, certificates>>
card    == <<selected, conn, pace, pw>>
refresh == <<step, url, verified, refreshUrl>>
outcome == <<history, answers>>
ending  == <<cancelled, killed>>
bounds  == <<extra, removals, cancels>>
rest == <<server, trust, card, refresh, outcome, ending, bounds>>
vars == <<workflow, machine, events, status, server, trust, card, refresh, outcome, ending, bounds>>

AuthInit ==
    /\ workflow \in Workflows
    /\ state = (IF workflow = "auth" THEN "Processing" ELSE "LoadTcTokenUrl")
    /\ events = <<Run(state)>> /\ jobs = <<>> /\ net = [s \in NetStates |-> "none"]
    /\ status = "ok" /\ response = "none" /\ paosResult = "ok" /\ reported = FALSE
    /\ token = FALSE /\ tokenNotFound = TRUE /\ eac1 = "none"
    /\ rights = FALSE /\ dvCvc = FALSE /\ certificates = {}
    /\ selected = FALSE /\ conn = FALSE /\ pace = FALSE /\ pw = FALSE
    /\ step = "get" /\ url = NoUrl /\ verified = {} /\ refreshUrl = NoUrl
    /\ history = 0 /\ answers = <<>> /\ cancelled = FALSE /\ killed = FALSE
    /\ extra = 0 /\ removals = 0 /\ cancels = 0
-----------------------------------------------------------------------------
(* The state machine *)

Continue(s) == IF workflow = "auth" THEN AuthContinue[s] ELSE SelfContinue[s]
MutAbortOf(s) ==                       \* faulty: no card is taken for a card
    IF s = "Pace" THEN "ClearPacePasswords"
    ELSE IF workflow = "auth" THEN AuthAbort[s] ELSE SelfAbort[s]
AbortOf(s)  == IF workflow = "auth" THEN AuthAbort[s] ELSE SelfAbort[s]

\* A state is left and another entered: replies and results nobody waits for
\* are dropped, those already in the event queue are not.  The user interface
\* approves at once what needs no user; a killed workflow approves itself.
MutEnterIf(dead, queue, requests, s) ==        \* faulty: run() is forgotten, too
    /\ state' = s
    /\ jobs' = [i \in DOMAIN jobs |-> IF jobs[i].of = state THEN [jobs[i] EXCEPT !.wanted = FALSE]
                                      ELSE jobs[i]]
    /\ net' = [r \in NetStates |-> IF r = state THEN "none" ELSE requests[r]]
    /\ LET left == SelectSeq(queue, LAMBDA e : e # Run(state))
       IN  events' = IF s \in {"Pace", "Ended"} \/ (s \in WaitStates /\ ~dead) THEN left
                     ELSE Append(left, Run(s))
EnterIf(dead, queue, requests, s) ==
    /\ state' = s
    /\ jobs' = [i \in DOMAIN jobs |-> IF jobs[i].of = state THEN [jobs[i] EXCEPT !.wanted = FALSE]
                                      ELSE jobs[i]]
    /\ net' = [r \in NetStates |-> IF r = state THEN "none" ELSE requests[r]]
    /\ events' = IF s \in {"Pace", "Ended"} \/ (s \in WaitStates /\ ~dead) THEN queue
                 ELSE Append(queue, Run(s))
Enter(queue, requests, s) == EnterIf(killed, queue, requests, s)

\* A state signals its end: without effect when it is not the active one.
FireIn(queue, requests, s, next) ==
    IF state = s THEN Enter(queue, requests, next)
    ELSE UNCHANGED <<state, jobs>> /\ net' = requests /\ events' = queue

Running(s) == events # <<>> /\ Head(events) = Run(s)
Later == Tail(events)
Fire(s, next) == FireIn(Later, net, s, next)
FireContinue(s) == Fire(s, Continue(s))
FireAbort(s) == Fire(s, AbortOf(s))
\* updateStatus: the first error is kept.
UpdateStatus == status' = "error"

\* run() of s either continues, or meets an error and aborts.
Decides(s, good) ==
    IF good THEN FireContinue(s) /\ UNCHANGED status ELSE FireAbort(s) /\ UpdateStatus

Crash == state' = "Crashed" /\ events' = <<>> /\ jobs' = <<>> /\ net' = [s \in NetStates |-> "none"]
-----------------------------------------------------------------------------
(* run() of the states that neither use the network nor the card *)

\* States that only go on.
Passing ==
    \E s \in {"LoadTcTokenUrl", "StartPaos", "InitializeFramework", "DidList", "EditAccessRights",
              "ActivateStoreFeedbackDialog", "ShowSelfInfo", "SendWhitelistSurvey", "FinalState"} :
        Running(s) /\ FireContinue(s) /\ UNCHANGED <<workflow, status, rest>>

\* States that go on when what they check is good, and abort with an error else.
Checks(s, good) == Running(s) /\ Decides(s, good) /\ UNCHANGED <<workflow, rest>>

Processing == \E isSent \in BOOLEAN : Checks("Processing", isSent)
ParseTcTokenUrl == \E isValid \in BOOLEAN : Checks("ParseTcTokenUrl", isValid)
PreVerification == Checks("PreVerification", eac1 # "NoChain")
CertificateDescriptionCheck ==
    Checks("CertificateDescriptionCheck", eac1 \notin {"NoDescription", "BadDescription"})
MutCheckCertificates == Checks("CheckCertificates", TRUE)      \* faulty: nothing is compared
CheckCertificates == Checks("CheckCertificates", certificates \subseteq {"listed"})

\* A second terminal certificate is noticed when the first one is in use.
ExtractCvcsFromEac1InputType ==
    /\ Running("ExtractCvcsFromEac1InputType")
    /\ rights' = (rights \/ eac1 # "NoTerminal")
    /\ dvCvc' = (dvCvc \/ eac1 \notin {"NoTerminal", "TwoTerminals", "NoDv"})
    /\ Decides("ExtractCvcsFromEac1InputType", eac1 \notin {"NoTerminal", "TwoTerminals", "NoDv"})
    /\ UNCHANGED <<workflow, server, certificates, card, refresh, outcome, ending, bounds>>

ClearPacePasswords ==
    /\ Running("ClearPacePasswords")
    /\ pw' = FALSE
    /\ FireContinue("ClearPacePasswords")
    /\ UNCHANGED <<workflow, status, server, trust, selected, conn, pace, refresh, outcome,
                   ending, bounds>>

\* Without a signature in EAC2 the server is asked for it.
EACAdditionalInputType ==
    /\ Running("EACAdditionalInputType")
    /\ \E next \in {Continue("EACAdditionalInputType"), "SendResponseAdditional"} :
         Fire("EACAdditionalInputType", next)
    /\ UNCHANGED <<workflow, status, rest>>

\* The card's authority may lack a chain of certificates.  The output of PACE
\* is used without a check.
ProcessCertificatesFromEac2 ==
    IF pace THEN \E hasChain \in BOOLEAN : Checks("ProcessCertificatesFromEac2", hasChain)
    ELSE Running("ProcessCertificatesFromEac2") /\ Crash /\ UNCHANGED <<workflow, status, rest>>

StartPaosResponse ==
    /\ Running("StartPaosResponse")
    /\ paosResult' = IF response = "ok" THEN paosResult ELSE "error"
    /\ Decides("StartPaosResponse", response = "ok")
    /\ UNCHANGED <<workflow, response, reported, token, tokenNotFound, eac1, trust, card,
                   refresh, outcome, ending, bounds>>

CleanUpReaderManager ==
    /\ Running("CleanUpReaderManager")
    /\ conn' = FALSE
    /\ FireContinue("CleanUpReaderManager")
    /\ UNCHANGED <<workflow, status, server, trust, selected, pace, pw, refresh, outcome,
                   ending, bounds>>

\* mErrorReportedToUser is true until the first error, isErrorReportedToUser
\* also when the workflow is killed.
CheckError ==
    /\ Running("CheckError")
    /\ IF status = "ok" \/ killed THEN FireContinue("CheckError") ELSE FireAbort("CheckError")
    /\ UNCHANGED <<workflow, status, rest>>

\* The user may have left no right effective.
WriteHistory ==
    /\ Running("WriteHistory")
    /\ \/ eac1 = "none" /\ FireAbort("WriteHistory") /\ UNCHANGED history
       \/ eac1 # "none" /\ ~rights /\ Crash /\ UNCHANGED history
       \/ rights /\ FireAbort("WriteHistory") /\ UNCHANGED history
       \/ /\ rights /\ FireContinue("WriteHistory")
          /\ history' = IF status = "ok" THEN history + 1 ELSE history
    /\ UNCHANGED <<workflow, status, server, trust, card, refresh, answers, ending, bounds>>

\* What StateRedirectBrowser sends to the caller.
MutAnswer ==                           \* faulty: the result of the server is forgotten
    IF tokenNotFound \/ (refreshUrl = NoUrl /\ ~token) THEN "page"
    ELSE IF refreshUrl # NoUrl THEN "success" ELSE "error"
Answer ==
    IF tokenNotFound \/ (refreshUrl = NoUrl /\ ~token) THEN "page"
    ELSE IF refreshUrl # NoUrl /\ paosResult = "ok" /\ status = "ok" THEN "success" ELSE "error"
\* A token may be without an address for errors.
Answers == IF Answer = "error" /\ refreshUrl = NoUrl THEN {"error", "page", "lost"}
           ELSE {Answer, "lost"}
RedirectBrowser ==
    /\ Running("RedirectBrowser")
    /\ \E a \in Answers :
         /\ answers' = Append(answers, a)
         /\ Decides("RedirectBrowser", a # "lost")
    /\ UNCHANGED <<workflow, server, trust, card, refresh, history, ending, bounds>>
-----------------------------------------------------------------------------
(* The network: requests, TLS handshakes and replies *)

Requested(s) == [net EXCEPT ![s] = "sent"]
Opened(s)    == [net EXCEPT ![s] = "open"]
Finished(s)  == [net EXCEPT ![s] = "none"]
KeepsState   == UNCHANGED <<state, jobs>>

\* No connection, a fatal TLS error, a time-out, an unexpected answer.
RequestFails(s) ==
    /\ net[s] # "none"
    /\ FireIn(events, Finished(s), s, AbortOf(s)) /\ UpdateStatus
    /\ UNCHANGED <<workflow, rest>>

\* CertificateChecker: certificates are compared with the description of the
\* server once that and the certificate of its document verifier are known.
Accepts(c) == c = "listed" \/ ~dvCvc \/ eac1 \in {"none", "NoDescription"}

\* An address has to be https to be asked for (isValidRedirectUrl).
SendTcTokenRequest(queue, address) ==
    IF address = "https"
    THEN KeepsState /\ net' = Requested("GetTcToken") /\ events' = queue
         /\ UNCHANGED <<status, tokenNotFound>>
    ELSE FireIn(queue, Finished("GetTcToken"), "GetTcToken", AbortOf("GetTcToken"))
         /\ UpdateStatus /\ tokenNotFound' = (tokenNotFound /\ address # "http")
Addresses == {"https", "http", "none"}

GetTcToken ==
    /\ Running("GetTcToken")
    /\ \E address \in Addresses : SendTcTokenRequest(Later, address)
    /\ UNCHANGED <<workflow, response, paosResult, reported, token, eac1, trust, card, refresh,
                   outcome, ending, bounds>>

\* The certificate is kept without a check: there is nothing to compare it with.
TcTokenHandshake ==
    /\ net.GetTcToken = "sent"
    /\ \E c \in Certificates : certificates' = certificates \cup {c}
    /\ net' = Opened("GetTcToken")
    /\ UNCHANGED <<workflow, state, jobs, events, status, server, rights, dvCvc, card, refresh,
                   outcome, ending, bounds>>

TcTokenRedirect ==
    /\ net.GetTcToken = "open" /\ extra < MaxExtra /\ extra' = extra + 1
    /\ \E address \in Addresses : SendTcTokenRequest(events, address)
    /\ UNCHANGED <<workflow, response, paosResult, reported, token, eac1, trust, card, refresh,
                   outcome, ending, removals, cancels>>

\* The assertion that there is no token yet holds: the request is sent once.
TcTokenReply ==
    /\ net.GetTcToken = "open"
    /\ token' = TRUE
    /\ \/ /\ tokenNotFound' = FALSE /\ UNCHANGED status
          /\ FireIn(events, Finished("GetTcToken"), "GetTcToken", Continue("GetTcToken"))
       \/ /\ tokenNotFound' \in BOOLEAN /\ UpdateStatus
          /\ FireIn(events, Finished("GetTcToken"), "GetTcToken", AbortOf("GetTcToken"))
    /\ UNCHANGED <<workflow, response, paosResult, reported, eac1, trust, card, refresh, outcome,
                   ending, bounds>>

\* StateGenericSendReceive: the message tells the server of the first error,
\* once; StartPAOS has no result.
Send ==
    \E s \in SendStates :
        /\ Running(s)
        /\ reported' = (reported \/ (s # "SendStartPaos" /\ status = "error"))
        /\ net' = Requested(s) /\ events' = Later /\ KeepsState
        /\ UNCHANGED <<workflow, status, response, paosResult, token, tokenNotFound, eac1, trust,
                       card, refresh, outcome, ending, bounds>>

\* The certificate is checked and saved; resuming the TLS session of the token,
\* or the length of the key, may be bad all the same.
CheckedHandshake(s) ==
    /\ net[s] = "sent" /\ (s = "GetSelfAuthenticationData" => refreshUrl # NoUrl)
    /\ \E c \in Certificates :
         LET saved == Accepts(c) IN
         /\ certificates' = IF saved THEN certificates \cup {c} ELSE certificates
         /\ \/ /\ saved /\ net' = Opened(s)
               /\ UNCHANGED <<state, jobs, events, status>>
            \/ FireIn(events, Finished(s), s, AbortOf(s)) /\ UpdateStatus
    /\ UNCHANGED <<workflow, server, rights, dvCvc, card, refresh, outcome, ending, bounds>>

\* What the server may send: one that obeys errors ends the conversation once
\* it has been told of one, and never reports success then.
Obeys(m, result) ==
    ObeysErrors /\ reported => m \in {"STARTPAOS_RESPONSE", "DISCONNECT"} /\ result # "ok"
ReceiveMessage(s, m) ==
    /\ net[s] # "none"
    /\ extra' = IF <<s, m>> = <<"SendTransmitResponse", "TRANSMIT">> THEN extra + 1 ELSE extra
    /\ extra' <= MaxExtra
    /\ IF m = "EAC1" THEN eac1' \in Eac1Kinds ELSE UNCHANGED eac1
    /\ IF m = "STARTPAOS_RESPONSE" THEN response' \in {"ok", "error"} ELSE UNCHANGED response
    /\ Obeys(m, response')
    /\ FireIn(events, Finished(s), s, Expected[s][m])
    /\ UNCHANGED <<workflow, status, paosResult, reported, token, tokenNotFound, trust, card,
                   refresh, outcome, ending, removals, cancels>>
-----------------------------------------------------------------------------
(* The address the caller is sent back to *)

RefreshDone(queue, u) ==
    /\ refreshUrl' = u /\ UNCHANGED step
    /\ FireIn(queue, Finished("CheckRefreshAddress"), "CheckRefreshAddress",
              Continue("CheckRefreshAddress"))
\* fetchServerCertificate: not needed where the search has been already.
MutFetch(queue, u) == url' = u /\ RefreshDone(queue, u)    \* faulty: no certificate is fetched
Fetch(queue, u) ==
    /\ url' = u
    /\ IF u \in verified THEN RefreshDone(queue, u)
       ELSE /\ step' = "fetch" /\ UNCHANGED refreshUrl
            /\ KeepsState /\ net' = Requested("CheckRefreshAddress") /\ events' = queue
Get(queue, u) ==
    /\ url' = u /\ step' = "get" /\ UNCHANGED refreshUrl
    /\ KeepsState /\ net' = Requested("CheckRefreshAddress") /\ events' = queue

\* Without a token, or with no refresh address that is valid and https, there
\* is nothing to do.
CheckRefreshAddress ==
    /\ Running("CheckRefreshAddress")
    /\ \/ FireContinue("CheckRefreshAddress") /\ UNCHANGED refresh
       \/ /\ token
          /\ \E u \in Urls : IF u \in SameOrigin THEN Fetch(Later, u) ELSE Get(Later, u)
          /\ UNCHANGED verified
    /\ UNCHANGED <<workflow, status, server, trust, card, outcome, ending, bounds>>

RefreshRedirect ==
    /\ net.CheckRefreshAddress # "none" /\ step = "get"
    /\ extra < MaxExtra /\ extra' = extra + 1
    /\ \E u \in Urls : IF url \in SameOrigin THEN Fetch(events, u) ELSE Get(events, u)
    /\ UNCHANGED <<workflow, status, server, trust, card, verified, outcome, ending, removals, cancels>>

\* With its certificate fetched, the address is the one wanted.
RefreshHandshake ==
    /\ net.CheckRefreshAddress = "sent"
    /\ \E c \in Certificates :
         LET saved == Accepts(c) IN
         /\ certificates' = IF saved THEN certificates \cup {c} ELSE certificates
         /\ verified' = IF saved THEN verified \cup {url} ELSE verified
         /\ \/ /\ saved /\ step = "get" /\ net' = Opened("CheckRefreshAddress")
               /\ UNCHANGED <<state, jobs, events, status, step, refreshUrl>>
            \/ saved /\ step = "fetch" /\ RefreshDone(events, url) /\ UNCHANGED status
            \/ /\ FireIn(events, Finished("CheckRefreshAddress"), "CheckRefreshAddress",
                         AbortOf("CheckRefreshAddress"))
               /\ UpdateStatus /\ UNCHANGED <<step, refreshUrl>>
    /\ UNCHANGED <<workflow, server, rights, dvCvc, card, url, outcome, ending, bounds>>

GetSelfAuthenticationData ==
    /\ Running("GetSelfAuthenticationData")
    /\ net' = Requested("GetSelfAuthenticationData") /\ events' = Later /\ KeepsState
    /\ UNCHANGED <<workflow, status, rest>>

SelfReply ==
    /\ net.GetSelfAuthenticationData # "none" /\ refreshUrl # NoUrl
    /\ FireIn(events, Finished("GetSelfAuthenticationData"), "GetSelfAuthenticationData",
              Continue("GetSelfAuthenticationData"))
    /\ UNCHANGED <<workflow, status, rest>>
-----------------------------------------------------------------------------
(* The card *)

CallCard(s) ==
    /\ jobs' = Append(jobs, [of |-> s, wanted |-> TRUE])
    /\ events' = Later /\ UNCHANGED <<state, net>>

\* Connection and output of PACE are used without a check.
DidAuthenticateEac1 ==
    /\ Running("DidAuthenticateEac1")
    /\ IF conn THEN CallCard("DidAuthenticateEac1") ELSE Crash
    /\ UNCHANGED <<workflow, status, rest>>
DidAuthenticateEac2 ==
    /\ Running("DidAuthenticateEac2")
    /\ IF conn /\ pace THEN CallCard("DidAuthenticateEac2") ELSE Crash
    /\ UNCHANGED <<workflow, status, rest>>
Transmit ==
    /\ Running("Transmit")
    /\ IF conn THEN CallCard("Transmit") ELSE Crash
    /\ UNCHANGED <<workflow, status, rest>>
MutUpdateRetryCounter ==               \* faulty: waits for a card that is not there
    /\ Running("UpdateRetryCounter")
    /\ IF conn THEN CallCard("UpdateRetryCounter") ELSE UNCHANGED machine /\ events' = Later
    /\ UNCHANGED <<workflow, status, rest>>
UpdateRetryCounter ==
    /\ Running("UpdateRetryCounter")
    /\ IF conn THEN CallCard("UpdateRetryCounter") ELSE FireAbort("UpdateRetryCounter")
    /\ UNCHANGED <<workflow, status, rest>>

\* The reader thread; what the card answers is left open.
Execute ==
    /\ jobs # <<>> /\ jobs' = Tail(jobs)
    /\ \E r \in Results :
         /\ r = "odd" => Head(jobs).of = "Transmit"
         /\ events' = IF Head(jobs).wanted THEN Append(events, Done(Head(jobs).of, r)) ELSE events
    /\ UNCHANGED <<workflow, state, net, status, rest>>

\* onCardCommandDone: an odd status is an error for the server, not for the
\* workflow.
CommandDone ==
    \E s \in CardStates \ {"UpdateRetryCounter"}, r \in Results :
        /\ events # <<>> /\ Head(events) = Done(s, r)
        /\ IF r = "fail" THEN FireAbort(s) ELSE FireContinue(s)
        /\ IF r = "ok" THEN UNCHANGED status ELSE UpdateStatus
        /\ UNCHANGED <<workflow, rest>>

\* A card that does not answer is given up.
UpdateRetryCounterDone ==
    \E r \in {"ok", "fail"} :
        /\ events # <<>> /\ Head(events) = Done("UpdateRetryCounter", r)
        /\ IF r = "ok" THEN FireContinue("UpdateRetryCounter") ELSE FireAbort("UpdateRetryCounter")
        /\ conn' = (conn /\ r = "ok")
        /\ UNCHANGED <<workflow, status, server, trust, selected, pace, pw, refresh, outcome,
                       ending, bounds>>

\* CompositeStatePace: see PaceChannel.  It aborts with an error and without
\* passwords; a cancellation need not abort it.
PaceEstablished ==
    /\ state = "Pace"
    /\ selected' = TRUE /\ conn' = TRUE /\ pace' = TRUE /\ pw' \in BOOLEAN
    /\ Enter(events, net, Continue("Pace"))
    /\ UNCHANGED <<workflow, status, server, trust, refresh, outcome, ending, bounds>>
PaceAborted ==
    /\ state = "Pace"
    /\ selected' \in BOOLEAN /\ conn' \in BOOLEAN /\ pace' \in BOOLEAN /\ pw' = FALSE
    /\ conn' \/ pace' => selected'
    /\ Enter(events, net, AbortOf("Pace")) /\ UpdateStatus
    /\ UNCHANGED <<workflow, server, trust, refresh, outcome, ending, bounds>>
-----------------------------------------------------------------------------
(* Users, readers and the end of the program *)

Active == state \notin {"Ended", "Crashed"}
\* GetTcToken stays active after its run().
IsUnapproved ==
    /\ state \in WaitStates /\ Run(state) \notin {events[i] : i \in DOMAIN events}
    /\ state = "GetTcToken" => net.GetTcToken = "none"

Approve ==
    /\ IsUnapproved
    /\ events' = Append(events, Run(state))
    /\ UNCHANGED <<workflow, machine, status, rest>>

\* A reader that is unplugged signals the removal of its card and its own.
CardRemoved ==
    /\ state \in RemovalStates /\ selected
    /\ removals < MaxRemovals /\ removals' = removals + 1
    /\ Enter(events, net, AbortOf(state)) /\ UpdateStatus
    /\ UNCHANGED <<workflow, server, trust, card, refresh, outcome, ending, extra, cancels>>

\* fireCancelWorkflow by the user, or killWorkflow, which approves the active
\* state first.  FinalState gets its transitions in run() only.
Cancel(kill) ==
    /\ Active /\ cancels < MaxCancels /\ cancels' = cancels + 1
    /\ cancelled' = TRUE /\ killed' = (killed \/ kill) /\ UpdateStatus
    /\ LET queue == IF kill /\ IsUnapproved THEN Append(events, Run(state)) ELSE events
       IN  IF state \in {"Pace", "FinalState"}
           THEN UNCHANGED machine /\ events' = queue
           ELSE EnterIf(killed', queue, net, AbortOf(state))
    /\ UNCHANGED <<workflow, server, trust, card, refresh, outcome, extra, removals>>

MainThread ==
    \/ Passing \/ Processing \/ ParseTcTokenUrl \/ GetTcToken \/ Send
    \/ ExtractCvcsFromEac1InputType \/ PreVerification \/ CertificateDescriptionCheck
    \/ CheckCertificates \/ ClearPacePasswords \/ DidAuthenticateEac1
    \/ EACAdditionalInputType \/ ProcessCertificatesFromEac2 \/ DidAuthenticateEac2
    \/ Transmit \/ StartPaosResponse \/ UpdateRetryCounter \/ CleanUpReaderManager
    \/ CheckError \/ CheckRefreshAddress \/ WriteHistory \/ GetSelfAuthenticationData
    \/ RedirectBrowser \/ CommandDone \/ UpdateRetryCounterDone
Network ==
    \/ TcTokenHandshake \/ TcTokenRedirect \/ TcTokenReply
    \/ RefreshRedirect \/ RefreshHandshake \/ SelfReply
    \/ \E s \in NetStates : RequestFails(s)
    \/ \E s \in SendStates \cup {"GetSelfAuthenticationData"} : CheckedHandshake(s)
    \/ \E s \in SendStates : \E m \in DOMAIN Expected[s] : ReceiveMessage(s, m)

AuthNext ==
    \/ state # "Ended" /\ MainThread
    \/ Active /\ Network
    \/ Active /\ Execute
    \/ PaceEstablished \/ PaceAborted \/ Approve \/ CardRemoved
    \/ \E kill \in BOOLEAN : Cancel(kill)
AuthSpec == AuthInit /\ [][AuthNext]_vars

\* The event loops run, requests are answered or time out, the user answers.
AuthFairSpec ==
    /\ AuthSpec
    /\ WF_vars(state # "Ended" /\ MainThread) /\ WF_vars(Active /\ Network)
    /\ WF_vars(Active /\ Execute) /\ WF_vars(PaceEstablished \/ PaceAborted) /\ WF_vars(Approve)
-----------------------------------------------------------------------------
(* Properties *)

\* A caller is answered exactly once, whatever happens: StateRedirectBrowser
\* is on every way to the end, and run() of a state that a cancellation has left
\* is still called.
CallerAnswered ==
    /\ Len(answers) <= 1
    /\ state = "Ended" => Len(answers) = IF workflow = "auth" THEN 1 ELSE 0

\* The caller is only told of a success the server has reported, with no
\* cancellation or error before, over connections whose certificates are those
\* the server has described (TR-03124-1, StateCheckCertificates); and only such
\* an authentication is written to the history, once.
SuccessIsTrue ==
    [][/\ answers' # answers /\ answers'[Len(answers')] = "success"
           => /\ response = "ok" /\ ~cancelled /\ ~reported
              /\ eac1 # "none" => certificates \subseteq {"listed"}
       /\ history' # history
           => history = 0 /\ response = "ok" /\ ~cancelled /\ certificates \subseteq {"listed"}]_vars

\* States that use the connection or the output of PACE find them
\* (StateDidAuthenticateEac1, StateProcessCertificatesFromEac2,
\* StateDidAuthenticateEac2, StateTransmit).
CardThere ==
    /\ Running("DidAuthenticateEac1") => conn /\ pace
    /\ Running("ProcessCertificatesFromEac2") => pace
    /\ Running("DidAuthenticateEac2") => conn /\ pace
    /\ Running("Transmit") => conn

\* Before data is read from the card, every certificate met on the way has been
\* compared with the description of the server (StateCheckCertificates).
CheckedBeforeRead ==
    \A i \in DOMAIN jobs : jobs[i].of \in {"DidAuthenticateEac1", "DidAuthenticateEac2", "Transmit"}
        => dvCvc /\ certificates \subseteq {"listed"}

\* The caller is sent to an address whose certificate has been fetched while
\* the address was searched for (StateCheckRefreshAddress.cpp:350).
RefreshVerified == refreshUrl # NoUrl => refreshUrl \in verified

\* "No EAC1 structure or effective CHAT in model." (StateWriteHistory.cpp:33):
\* the case is handled, but the access rights are used before it is known that
\* there are any.
HistoryFindsRights == Running("WriteHistory") /\ eac1 # "none" => rights

\* Every workflow ends.
AuthenticationEnds == <>(state \in {"Ended", "Crashed"})
=============================================================================
