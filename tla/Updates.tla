-------------------------------- MODULE Updates --------------------------------
(***************************************************************************)
(* What the program downloads: the queue of Downloader, the files it keeps *)
(* in its cache (UpdatableFile) and its own updates (AppUpdater), driven   *)
(* once a day or by the user (Service).  Everything is on the main thread, *)
(* and a slot that asks for a download is called by the end of another.    *)
(*                                                                         *)
(* What a file contains is the number of the version the server had of it. *)
(* A configuration and the icons it names are published together.          *)
(***************************************************************************)
EXTENDS Naturals, Sequences

CONSTANTS
    Icons,             \* the files named by the configurations
    Owner,             \* [Icons -> Configs], the configuration that names them
    MaxVersion,        \* [Configs -> Nat], bound: versions of the configurations
    MaxReleases,       \* bound: releases of the program
    MaxRestarts,       \* bound: how often the program is started again
    MaxWriteFailures   \* bound: downloads of which a file or a mark cannot be written

Configs == {"providers", "readers"}   \* supported-providers.json, -readers.json
Files == Configs \cup Icons
Stages == {"appcast", "notes", "checksum", "package"}   \* of an update of the program

ASSUME UpdatesAssumption ==
    /\ Owner \in [Icons -> Configs] /\ Icons \cap (Configs \cup Stages \cup {"none"}) = {}
    /\ MaxVersion \in [Configs -> Nat]
    /\ {MaxReleases, MaxRestarts, MaxWriteFailures} \subseteq Nat

VARIABLES
    current,      \* Downloader::mCurrentReply
    pending,      \* Downloader::mPendingRequests
    updating,     \* the files with mUpdateRunning
    dirty,        \* the icons marked in the file system
    cached,       \* the version of each file in the cache, 0: the one of the bundle
    lost,         \* observes which icons are taken for clean though they could not be
                  \* written, or not be marked
    inProgress,   \* AppUpdater::mDownloadInProgress, connected to Downloader
    offer,        \* AppUpdater::mAppUpdateData, 0 when it is not valid
    timer,        \* Service::mTimer is active
    scheduled,    \* Service::mUpdateScheduled
    job,          \* doAppUpdate(APPCAST) is in the event queue
    served,       \* the version the server has of each configuration
    release,      \* the newest release of the program there, 1: this one
    restarts, failures

queue == <<current, pending>>
files == <<updating, dirty, cached, lost>>
updater == <<inProgress, offer>>
service == <<timer, scheduled, job>>
server == <<served, release>>
bounds == <<restarts, failures>>
vars == <<queue, files, updater, service, server, bounds>>

\* Requests.  Those of the program's updates have an URL for each release.
Request(what, version) == [what |-> what, version |-> version]
NoReply == [what |-> "none", version |-> 0, since |-> 0]
VersionOf(f) == served[IF f \in Icons THEN Owner[f] ELSE f]
Stage(what) == current.what = what /\ current.version = offer /\ inProgress

UpdatesInit ==
    /\ current = NoReply /\ pending = <<>>
    /\ updating = {} /\ dirty = {} /\ cached = [f \in Files |-> 0] /\ lost = {}
    /\ inProgress = FALSE /\ offer = 0
    /\ timer = TRUE /\ scheduled = TRUE /\ job = FALSE
    /\ served = [c \in Configs |-> 1] /\ release = 1
    /\ restarts = 0 /\ failures = 0
-----------------------------------------------------------------------------
(* Downloader *)

\* The server may be asked for a file now and send what it has by then or later.
Since(what) ==
    IF what \in Files THEN VersionOf(what) ELSE IF what = "appcast" THEN release ELSE 0

StartDownloadIfPending(requests) ==
    IF requests = <<>>
    THEN current' = NoReply /\ pending' = <<>>
    ELSE /\ current' = [what |-> Head(requests).what, version |-> Head(requests).version,
                        since |-> Since(Head(requests).what)]
         /\ pending' = Tail(requests)

\* Downloads asked for while no other ends.
ScheduleDownload(requests) ==
    IF current = NoReply THEN StartDownloadIfPending(pending \o requests)
    ELSE pending' = pending \o requests /\ UNCHANGED current

\* UpdatableFile::update(): nothing, if the file is being updated.
Update(fs) ==
    IF fs \subseteq updating THEN <<>>
    ELSE <<Request(CHOOSE f \in fs \ updating : TRUE, 0)>>

\* The end of a download.  Whoever is told of it may ask for further ones, which
\* wait behind those that are pending; then the next is started.
Finished(done, next, requests) ==
    /\ updating' = (updating \ done) \cup next
    /\ StartDownloadIfPending(pending \o Update(next) \o requests)
-----------------------------------------------------------------------------
(* UpdatableFile and the configurations *)

\* Service: the readers after the providers.
Follow(f) == IF f = "providers" THEN {"readers"} ELSE {}
Marked(f) == {i \in Icons : Owner[i] = f}

\* writeDataToFile, then onFileUpdated of the configuration, which marks its icons one
\* by one: those in marks.  A mark that is set already cannot fail.
Stored(f, marks) ==
    /\ current.what = f
    /\ \E v \in current.since..VersionOf(f) :
           v # cached[f] /\ cached' = [cached EXCEPT ![f] = v]
    /\ marks \subseteq Marked(f)
    /\ lost' = (lost \ ({f} \cup marks)) \cup (Marked(f) \ (dirty \cup marks))

FileArrives(f) ==
    /\ Stored(f, Marked(f))
    /\ dirty' = (dirty \cup Marked(f)) \ {f}
    /\ Finished({f}, Follow(f), <<>>)
    /\ UNCHANGED <<updater, service, server, bounds>>

\* markDirty logs that a mark cannot be created, and the update goes on.
MarkFails(f) ==
    /\ failures < MaxWriteFailures /\ failures' = failures + 1
    /\ \E marks \in SUBSET Marked(f) :
           /\ Stored(f, marks) /\ ~(Marked(f) \subseteq dirty \cup marks)
           /\ dirty' = dirty \cup marks
    /\ Finished({f}, Follow(f), <<>>)
    /\ UNCHANGED <<updater, service, server, restarts>>

\* The file is taken for clean nevertheless.
FileNotWritten(f) ==
    /\ current.what = f /\ failures < MaxWriteFailures
    /\ \E v \in current.since..VersionOf(f) : v # cached[f]
    /\ dirty' = dirty \ {f}
    /\ lost' = lost \cup ({f} \cap Icons)
    /\ failures' = failures + 1
    /\ Finished({f}, {}, <<>>)
    /\ UNCHANGED <<cached, updater, service, server, restarts>>

\* Faulty variants: a failed download takes the mark away; configurations that are
\* not modified end the updates of the day.
MutFileFails(f) ==
    /\ current.what = f
    /\ dirty' = dirty \ {f}
    /\ Finished({f}, {}, <<>>)
    /\ UNCHANGED <<cached, lost, updater, service, server, bounds>>
MutFileUnchanged(f) ==
    /\ current.what = f /\ cached[f] \in current.since..VersionOf(f)
    /\ dirty' = dirty \ {f}
    /\ lost' = lost \ {f}
    /\ Finished({f}, {}, <<>>)
    /\ UNCHANGED <<cached, updater, service, server, bounds>>

\* HTTP_STATUS_NOT_MODIFIED, by the time stamp of the file in the cache.
FileUnchanged(f) ==
    /\ current.what = f /\ cached[f] \in current.since..VersionOf(f)
    /\ dirty' = dirty \ {f}
    /\ lost' = lost \ {f}
    /\ Finished({f}, Follow(f), <<>>)
    /\ UNCHANGED <<cached, updater, service, server, bounds>>

FileFails(f) ==
    /\ current.what = f
    /\ Finished({f}, {}, <<>>)
    /\ UNCHANGED <<dirty, cached, lost, updater, service, server, bounds>>

\* A view shows an icon: lookupPath() updates one that is dirty.
LookUp(i) ==
    /\ i \in dirty \ updating
    /\ updating' = updating \cup {i}
    /\ ScheduleDownload(Update({i}))
    /\ UNCHANGED <<dirty, cached, lost, updater, service, server, bounds>>
-----------------------------------------------------------------------------
(* AppUpdater *)

\* clearDownloaderConnection(), and what is begun by whoever hears of the end.
Cleared(next) ==
    /\ inProgress' = FALSE
    /\ Finished({}, next, <<>>)
    /\ UNCHANGED <<dirty, cached, lost, service, server, bounds>>

Goes(requests) ==
    /\ Finished({}, {}, requests)
    /\ UNCHANGED <<dirty, cached, lost, inProgress, service, server, bounds>>

\* A release that is newer and was not skipped has its notes downloaded.
AppcastArrives ==
    /\ current.what = "appcast" /\ inProgress
    /\ \E v \in current.since..release :
           /\ offer' = v
           /\ \/ v > 1 /\ Goes(<<Request("notes", v)>>)
              \/ Cleared({"providers"})

\* It failed, or cannot be used.  Service only goes on if there is nothing for
\* this platform.
AppcastFails ==
    /\ current.what = "appcast" /\ inProgress
    /\ Cleared({}) \/ Cleared({"providers"})
    /\ UNCHANGED offer

NotesArrive == Stage("notes") /\ Cleared({"providers"}) /\ UNCHANGED offer

\* The package is downloaded, unless the one from an earlier time fits.
ChecksumArrives ==
    /\ Stage("checksum")
    /\ Goes(<<Request("package", offer)>>) \/ Cleared({})
    /\ UNCHANGED offer

\* The package, which may be broken, or the failure of a download.
StageEnds ==
    /\ Stage("package") \/ Stage("notes") \/ Stage("checksum")
    /\ Cleared({}) /\ UNCHANGED offer

\* The data were reset since: the URL is not known any more.
Unknown ==
    /\ current.what \in Stages \ {"appcast"} /\ ~Stage(current.what)
    /\ Goes(<<>>) /\ UNCHANGED offer

DownloadUpdate ==
    /\ offer # 0 /\ ~inProgress
    /\ inProgress' = TRUE
    /\ ScheduleDownload(<<Request("checksum", offer)>>)
    /\ UNCHANGED <<offer, files, service, server, bounds>>

\* Only the package can be aborted, running or waiting.
AbortDownload ==
    /\ offer # 0
    /\ \/ Stage("package") /\ Cleared({})
       \/ /\ inProgress /\ ~Stage("package")
          /\ \E i \in DOMAIN pending : pending[i] = Request("package", offer)
          /\ pending' = SelectSeq(pending, LAMBDA r : r # Request("package", offer))
          /\ inProgress' = FALSE
          /\ UNCHANGED <<current, files, service, server, bounds>>
    /\ UNCHANGED offer
-----------------------------------------------------------------------------
(* Service *)

CheckAppUpdate ==
    /\ offer' = 0 /\ inProgress' = TRUE
    /\ IF inProgress THEN UNCHANGED queue ELSE ScheduleDownload(<<Request("appcast", 0)>>)
    /\ UNCHANGED updating

\* The setting isAutoUpdateCheck decides, unless the user asks.
DoAppUpdate(forced) ==
    /\ timer' = TRUE
    /\ \/ CheckAppUpdate
       \/ /\ ~forced
          /\ ScheduleDownload(Update({"providers"}))
          /\ updating' = updating \cup {"providers"}
          /\ UNCHANGED updater
    /\ UNCHANGED <<dirty, cached, lost, server, bounds>>

RunJob == job /\ job' = FALSE /\ DoAppUpdate(FALSE) /\ UNCHANGED scheduled
UpdateAppcast == DoAppUpdate(TRUE) /\ UNCHANGED <<scheduled, job>>

\* A day has passed; a queued call does not wait that long.  The UI is asked.
TimerFires ==
    /\ timer /\ ~job
    /\ timer' = FALSE
    /\ \E visible \in BOOLEAN : job' = visible /\ scheduled' = ~visible
    /\ UNCHANGED <<queue, files, updater, server, bounds>>

ShowUi ==
    /\ scheduled
    /\ scheduled' = FALSE /\ job' = TRUE
    /\ UNCHANGED <<timer, queue, files, updater, server, bounds>>
-----------------------------------------------------------------------------
(* The server, and the program that ends and starts again *)

Publish(c) ==
    /\ served[c] < MaxVersion[c]
    /\ served' = [served EXCEPT ![c] = @ + 1]
    /\ UNCHANGED <<release, queue, files, updater, service, bounds>>

Release ==
    /\ release < MaxReleases
    /\ release' = release + 1
    /\ UNCHANGED <<served, queue, files, updater, service, bounds>>

\* What is in the file system stays.
Starts ==
    /\ restarts < MaxRestarts
    /\ restarts' = restarts + 1
    /\ current' = NoReply /\ pending' = <<>> /\ updating' = {}
    /\ inProgress' = FALSE /\ offer' = 0
    /\ timer' = TRUE /\ scheduled' = TRUE /\ job' = FALSE
    /\ UNCHANGED <<server, failures>>
Restart == Starts /\ UNCHANGED <<dirty, cached, lost>>

\* The program ends inside onDownloadSuccess: the file is written, some of the icons it
\* names are marked, and its own mark is still there.
KilledAfterWrite(f) ==
    /\ \E marks \in SUBSET Marked(f) : Stored(f, marks) /\ dirty' = dirty \cup marks
    /\ Starts
-----------------------------------------------------------------------------
FileEnds(f) ==
    FileArrives(f) \/ MarkFails(f) \/ FileNotWritten(f) \/ FileUnchanged(f) \/ FileFails(f)
UpdaterEnds ==
    AppcastArrives \/ AppcastFails \/ NotesArrive \/ ChecksumArrives \/ StageEnds \/ Unknown
DownloadEnds == UpdaterEnds \/ \E f \in Files : FileEnds(f)

UpdatesNext ==
    \/ DownloadEnds
    \/ \E i \in Icons : LookUp(i)
    \/ DownloadUpdate \/ AbortDownload
    \/ RunJob \/ UpdateAppcast \/ TimerFires \/ ShowUi
    \/ \E c \in Configs : Publish(c)
    \/ Release \/ Restart \/ \E f \in Files : KilledAfterWrite(f)

UpdatesSpec == UpdatesInit /\ [][UpdatesNext]_vars

\* Downloads end, and one that is tried again and again succeeds at some time;
\* days pass, the user looks at the program and at its lists.
FairUpdatesSpec ==
    /\ UpdatesSpec
    /\ WF_vars(DownloadEnds)
    /\ \A f \in Files : SF_vars(FileArrives(f) \/ FileUnchanged(f))
    /\ SF_vars(AppcastArrives) /\ SF_vars(NotesArrive)
    /\ WF_vars(RunJob) /\ WF_vars(TimerFires) /\ WF_vars(ShowUi)
    /\ \A i \in Icons : WF_vars(LookUp(i))
-----------------------------------------------------------------------------
(* Properties *)

\* An icon that is not marked is at least as new as the configuration that names
\* it: no download that was begun before the icons were marked takes the mark
\* away (onFileUpdated, clearDirty), whatever is queued, and across restarts.
\* Excepted is an icon that could not be written, or whose mark could not, because of
\* an error or because the program ended between the two: it counts as clean until
\* it is marked again.
CleanIsCurrent ==
    \A i \in Icons : i \in dirty \/ i \in lost \/ cached[i] >= cached[Owner[i]]

\* A check for updates has reset what AppUpdater waits for (checkAppUpdate): its
\* download has become unknown or will, and mDownloadInProgress stays set, and
\* every further check is refused, until the program is started again.
Stuck ==
    /\ inProgress /\ offer = 0 /\ current.what # "appcast"
    /\ \A i \in DOMAIN pending : pending[i].what # "appcast"

\* What is published arrives in the cache in the end, over the checks, the files that
\* are queued behind each other and the configurations that follow each other;
\* unless AppUpdater is stuck, or an icon is one of those excepted above.
UpdatesArrive ==
    \A f \in Files : []<>(cached[f] = VersionOf(f) \/ Stuck \/ f \in lost)
=============================================================================
