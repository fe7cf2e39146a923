----------------------------- MODULE UpdatesProofs -----------------------------
(***************************************************************************)
(* A theorem about Updates, for every set of icons and all bounds.         *)
(*                                                                         *)
(* Downloads run one after the other.  That of an icon which is running    *)
(* was started after the configuration in the cache had arrived, so that   *)
(* what it brings is at least as new.                                      *)
(***************************************************************************)
EXTENDS Updates, TLAPS

VersionsTyped ==
    /\ cached \in [Files -> Nat] /\ served \in [Configs -> Nat] /\ release \in Nat
    /\ current.since \in Nat
CacheBehindServer == \A c \in Configs : cached[c] <= served[c]
IconStartedLater == \A i \in Icons : current.what = i => current.since >= cached[Owner[i]]
UpdatesIInv == VersionsTyped /\ CacheBehindServer /\ IconStartedLater /\ CleanIsCurrent

\* An icon is asked for after the configuration in the cache has come.
LEMMA StartsLater ==
    ASSUME VersionsTyped, NEW requests, StartDownloadIfPending(requests)
    PROVE  /\ current'.since \in Nat
           /\ \A i \in Icons : current'.what = i => current'.since >= served[Owner[i]]
<1>1. CASE requests = <<>>
  BY <1>1, UpdatesAssumption DEF StartDownloadIfPending, NoReply
<1>2. CASE requests # <<>>
  <2>1. /\ current'.what = Head(requests).what
        /\ current'.since = Since(Head(requests).what)
    BY <1>2 DEF StartDownloadIfPending
  <2>2. \A f \in Files : VersionOf(f) \in Nat
    BY UpdatesAssumption DEF VersionOf, VersionsTyped, Files
  <2> QED
    BY <2>1, <2>2, UpdatesAssumption DEF Since, VersionOf, VersionsTyped, Files
<1> QED BY <1>1, <1>2

\* What is left when only the queue of downloads goes on.
LEMMA QueueStep ==
    ASSUME UpdatesIInv, UNCHANGED <<dirty, cached, lost, server>>,
           \/ \E requests : StartDownloadIfPending(requests)
           \/ UNCHANGED current
    PROVE  UpdatesIInv'
<1>1. current'.since \in Nat /\ \A i \in Icons : current'.what = i => current'.since >= cached[Owner[i]]
  <2>1. CASE UNCHANGED current
    BY <2>1 DEF UpdatesIInv, VersionsTyped, IconStartedLater
  <2>2. CASE \E requests : StartDownloadIfPending(requests)
    BY <2>2, StartsLater, UpdatesAssumption
    DEF UpdatesIInv, CacheBehindServer, VersionsTyped, Files
  <2> QED BY <2>1, <2>2
<1> QED
  BY <1>1 DEF UpdatesIInv, VersionsTyped, CacheBehindServer, IconStartedLater,
              CleanIsCurrent, server

LEMMA Scheduled ==
    ASSUME NEW requests, ScheduleDownload(requests)
    PROVE  (\E rs : StartDownloadIfPending(rs)) \/ UNCHANGED current
BY DEF ScheduleDownload

\* The running download of f has brought a version at least as new as the
\* configuration if f is an icon; those named by f are marked or lost if f is none.
LEMMA StoredKeeps ==
    ASSUME UpdatesIInv, NEW f \in Files, NEW marks, Stored(f, marks), UNCHANGED server,
           dirty' = dirty \cup marks \/ dirty' = (dirty \cup marks) \ {f},
           \E requests : StartDownloadIfPending(requests)
    PROVE  UpdatesIInv'
<1>1. PICK v \in current.since..VersionOf(f) : cached' = [cached EXCEPT ![f] = v]
  BY DEF Stored
<1>2. VersionOf(f) \in Nat /\ v \in Nat /\ current.since <= v /\ v <= VersionOf(f)
  BY <1>1, UpdatesAssumption DEF UpdatesIInv, VersionsTyped, VersionOf, Files
<1>3. UNCHANGED <<served, release>> /\ current.what = f
  BY DEF Stored, server
<1>4. /\ current'.since \in Nat
      /\ \A i \in Icons : current'.what = i => current'.since >= served[Owner[i]]
  BY StartsLater DEF UpdatesIInv
<1>5. VersionsTyped'
  BY <1>1, <1>2, <1>3, <1>4 DEF UpdatesIInv, VersionsTyped
<1>6. CacheBehindServer'
  BY <1>1, <1>2, <1>3, UpdatesAssumption
  DEF UpdatesIInv, VersionsTyped, CacheBehindServer, VersionOf, Files
<1>7. IconStartedLater'
  BY <1>3, <1>4, <1>5, <1>6, UpdatesAssumption
  DEF CacheBehindServer, VersionsTyped, IconStartedLater, Files
<1>8. CleanIsCurrent'
  <2> SUFFICES ASSUME NEW i \in Icons, i \notin dirty', i \notin lost'
               PROVE  cached'[i] >= cached'[Owner[i]]
    BY DEF CleanIsCurrent
  <2>1. Owner[i] \in Configs /\ Owner[i] # i /\ Owner[i] \in Files /\ i \in Files
    BY UpdatesAssumption DEF Files
  <2>2. CASE f = i
    BY <1>1, <1>2, <1>3, <2>1, <2>2 DEF UpdatesIInv, VersionsTyped, IconStartedLater
  <2>3. CASE f # i
    <3>1. i \notin dirty \cup marks
      BY <2>3
    <3>2. Owner[i] # f /\ i \notin lost
      BY <2>3, <3>1 DEF Stored, Marked
    <3> QED
      BY <1>1, <2>1, <2>3, <3>1, <3>2 DEF UpdatesIInv, VersionsTyped, CleanIsCurrent
  <2> QED BY <2>2, <2>3
<1> QED BY <1>5, <1>6, <1>7, <1>8 DEF UpdatesIInv

\* Written and marked in whole, in part because marks fail, or because the program ends.
LEMMA FileArrivesKeeps ==
    ASSUME UpdatesIInv, NEW f \in Files, FileArrives(f) \/ MarkFails(f)
    PROVE  UpdatesIInv'
<1>1. UNCHANGED server /\ \E requests : StartDownloadIfPending(requests)
  BY DEF FileArrives, MarkFails, Finished
<1>2. CASE FileArrives(f)
  <2>1. Stored(f, Marked(f)) /\ dirty' = (dirty \cup Marked(f)) \ {f}
    BY <1>2 DEF FileArrives
  <2> QED BY <1>1, <2>1, StoredKeeps
<1>3. CASE MarkFails(f)
  <2>1. PICK marks \in SUBSET Marked(f) : Stored(f, marks) /\ dirty' = dirty \cup marks
    BY <1>3 DEF MarkFails
  <2> QED BY <1>1, <2>1, StoredKeeps
<1> QED BY <1>2, <1>3

LEMMA KilledKeeps ==
    ASSUME UpdatesIInv, NEW f \in Files, KilledAfterWrite(f)
    PROVE  UpdatesIInv'
<1>1. PICK marks \in SUBSET Marked(f) : Stored(f, marks) /\ dirty' = dirty \cup marks
  BY DEF KilledAfterWrite
<1>2. UNCHANGED server /\ StartDownloadIfPending(<<>>)
  BY DEF KilledAfterWrite, Starts, StartDownloadIfPending
<1> QED BY <1>1, <1>2, StoredKeeps

\* A file that is as it was, is not written or fails.
LEMMA FileStaysKeeps ==
    ASSUME UpdatesIInv, NEW f \in Files,
           FileNotWritten(f) \/ FileUnchanged(f) \/ FileFails(f)
    PROVE  UpdatesIInv'
<1>1. UNCHANGED <<cached, served, release>> /\ current.what = f
  BY DEF FileNotWritten, FileUnchanged, FileFails, server
<1>2. PICK requests : StartDownloadIfPending(requests)
  BY DEF FileNotWritten, FileUnchanged, FileFails, Finished
<1>3. /\ current'.since \in Nat
      /\ \A i \in Icons : current'.what = i => current'.since >= served[Owner[i]]
  BY <1>2, StartsLater DEF UpdatesIInv
<1>4. VersionsTyped' /\ CacheBehindServer'
  BY <1>1, <1>3 DEF UpdatesIInv, VersionsTyped, CacheBehindServer
<1>5. IconStartedLater'
  BY <1>1, <1>3, <1>4, UpdatesAssumption
  DEF CacheBehindServer, VersionsTyped, IconStartedLater, Files
<1>6. CleanIsCurrent'
  <2> SUFFICES ASSUME NEW i \in Icons, i \notin dirty', i \notin lost'
               PROVE  cached[i] >= cached[Owner[i]]
    BY <1>1 DEF CleanIsCurrent
  <2>1. CASE f # i \/ FileFails(f)
    BY <2>1 DEF FileNotWritten, FileUnchanged, FileFails, UpdatesIInv, CleanIsCurrent
  <2>2. CASE f = i /\ FileNotWritten(f)
    BY <2>2 DEF FileNotWritten
  <2>3. CASE f = i /\ FileUnchanged(f)
    <3>1. cached[i] >= current.since /\ current.since >= cached[Owner[i]]
      BY <2>3, UpdatesAssumption
      DEF FileUnchanged, UpdatesIInv, IconStartedLater, VersionsTyped, VersionOf, Files
    <3>2. cached[i] \in Nat /\ cached[Owner[i]] \in Nat /\ current.since \in Nat
      BY UpdatesAssumption DEF UpdatesIInv, VersionsTyped, Files
    <3> QED BY <3>1, <3>2
  <2> QED BY <2>1, <2>2, <2>3
<1> QED BY <1>4, <1>5, <1>6 DEF UpdatesIInv

LEMMA UpdaterKeeps ==
    ASSUME UpdatesIInv, UpdaterEnds \/ DownloadUpdate \/ AbortDownload
    PROVE  UpdatesIInv'
<1>1. UNCHANGED <<dirty, cached, lost, server>>
  BY DEF UpdaterEnds, AppcastArrives, AppcastFails, NotesArrive, ChecksumArrives, StageEnds,
         Unknown, DownloadUpdate, AbortDownload, Cleared, Goes, files
<1>2. (\E requests : StartDownloadIfPending(requests)) \/ UNCHANGED current
  <2>1. CASE DownloadUpdate
    BY <2>1, Scheduled DEF DownloadUpdate
  <2>2. CASE UpdaterEnds \/ AbortDownload
    BY <2>2 DEF UpdaterEnds, AppcastArrives, AppcastFails, NotesArrive, ChecksumArrives,
                StageEnds, Unknown, AbortDownload, Cleared, Goes, Finished
  <2> QED BY <2>1, <2>2
<1> QED BY <1>1, <1>2, QueueStep

LEMMA ServiceKeeps ==
    ASSUME UpdatesIInv,
           \/ \E i \in Icons : LookUp(i)
           \/ RunJob \/ UpdateAppcast \/ TimerFires \/ ShowUi \/ UNCHANGED vars
    PROVE  UpdatesIInv'
<1>1. UNCHANGED <<dirty, cached, lost, server>>
  BY DEF LookUp, RunJob, UpdateAppcast, DoAppUpdate, TimerFires, ShowUi, vars, files
<1>2. (\E requests : StartDownloadIfPending(requests)) \/ UNCHANGED current
  BY Scheduled
  DEF LookUp, RunJob, UpdateAppcast, DoAppUpdate, CheckAppUpdate, TimerFires, ShowUi, vars, queue
<1> QED BY <1>1, <1>2, QueueStep

\* What the server publishes makes a running download no older.
LEMMA WorldKeeps ==
    ASSUME UpdatesIInv, (\E c \in Configs : Publish(c)) \/ Release \/ Restart
    PROVE  UpdatesIInv'
<1>1. CASE \E c \in Configs : Publish(c)
  BY <1>1 DEF Publish, queue, files, UpdatesIInv, VersionsTyped, CacheBehindServer,
              IconStartedLater, CleanIsCurrent, Files
<1>2. CASE Release
  BY <1>2 DEF Release, queue, files, UpdatesIInv, VersionsTyped, CacheBehindServer,
              IconStartedLater, CleanIsCurrent
<1>3. CASE Restart
  BY <1>3, UpdatesAssumption
  DEF Restart, Starts, NoReply, server, UpdatesIInv, VersionsTyped, CacheBehindServer,
      IconStartedLater, CleanIsCurrent
<1> QED BY <1>1, <1>2, <1>3

LEMMA UpdatesIInvInit == UpdatesInit => UpdatesIInv
BY UpdatesAssumption
DEF UpdatesInit, NoReply, UpdatesIInv, VersionsTyped, CacheBehindServer, IconStartedLater,
    CleanIsCurrent, Files

LEMMA UpdatesIInvStep == UpdatesIInv /\ [UpdatesNext]_vars => UpdatesIInv'
BY FileArrivesKeeps, KilledKeeps, FileStaysKeeps, UpdaterKeeps, ServiceKeeps, WorldKeeps
DEF UpdatesNext, DownloadEnds, FileEnds

\* An icon whose mark is gone is at least as new as the configuration that names
\* it (ProviderConfiguration::onFileUpdated, UpdatableFile::clearDirty), however
\* downloads are queued or fail, and wherever the end of the program cuts them off;
\* because Downloader runs one at a time.  Icons that could not be written or marked
\* are excepted until they are marked again.
THEOREM CleanIconsAreCurrent == UpdatesSpec => []CleanIsCurrent
<1>1. UpdatesIInv => CleanIsCurrent
  BY DEF UpdatesIInv
<1> QED BY <1>1, UpdatesIInvInit, UpdatesIInvStep, PTL DEF UpdatesSpec
=============================================================================
