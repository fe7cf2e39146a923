------------------------- MODULE ReaderManagerProofs -------------------------
(***************************************************************************)
(* CacheSettles and CardNotLeaked for every number of readers, cards,      *)
(* commands and scans.                                                     *)
(***************************************************************************)
EXTENDS ReaderManager, QueuesProofs

(* Types *)

JobSet == [job : {"start", "stop", "create", "destroy", "release", "use"} \cup Calls,
           arg : Readers \cup Nat \cup {None}]
NewsSet ==
    [type : {"news"}, kind : {"removed", "added", "changed"}, reader : Readers, info : Nat,
     told : SUBSET Commands]
CreatedSet == [type : {"created"}, command : Commands, worker : Nat \cup {None}]
EventSet ==
    [type : {"status"}] \cup NewsSet \cup CreatedSet
        \cup [type : {"execute", "delete"}, command : Commands]
Connection == [worker : Nat, info : Nat]

TypeOK ==
    /\ plugged \in SUBSET Readers /\ slot \in [Readers -> Nat] /\ changes \in Nat
    /\ known \in SUBSET Readers /\ info \in [Readers -> Nat]
    /\ linked \in [Readers -> BOOLEAN]
    /\ DOMAIN workers \in SUBSET Nat /\ IsFiniteSet(DOMAIN workers)
    /\ workers \in [DOMAIN workers -> Readers \cup {None}]
    /\ jobs \in Seq(JobSet)
    /\ cache \in [Readers -> Int]
    /\ events \in Seq(EventSet)
    /\ target \in [Commands -> Readers \cup {None}]
    /\ conn \in [Commands -> Connection \cup {None}]

(* Who holds a worker *)
Holders(cn, es) ==
    {cn[c].worker : c \in {d \in Commands : cn[d] # None}}
    \cup {es[i].worker : i \in {k \in DOMAIN es : es[k].type = "created"}}
Holding(j) == j.job \in {"use", "destroy"}
Owned(ws, held, js) ==
    /\ held \subseteq DOMAIN ws \cup {None}
    /\ \A i \in DOMAIN js : Holding(js[i]) => js[i].arg \in DOMAIN ws
    /\ \A i \in DOMAIN js : js[i].job = "destroy" =>
           /\ js[i].arg \notin held
           /\ \A j \in DOMAIN js : Holding(js[j]) /\ js[j].arg = js[i].arg => i = j
ToldHold(es, cn) ==
    \A i \in DOMAIN es : es[i].type = "news" => \A c \in es[i].told : cn[c] # None
WorkersOwned ==
    Owned(workers, Holders(conn, events), jobs) /\ ToldHold(events, conn)

(* The call the main thread waits for *)
Calling(j) == j.job \in Calls
Waits(what) == blocked # None /\ blocked.call = what
CallsOnce(js) ==
    \A i, j \in DOMAIN js : Calling(js[i]) /\ Calling(js[j]) => i = j
OneCall ==
    /\ blocked # None => /\ blocked = [call |-> blocked.call, reply |-> blocked.reply]
                         /\ blocked.call \in Calls
    /\ \A i \in DOMAIN jobs : Calling(jobs[i]) =>
           Waits(jobs[i].job) /\ blocked.reply = None
    /\ CallsOnce(jobs)
Awaited ==
    /\ Waits("infos") => /\ events # <<>> /\ Head(events).type = "status"
                         /\ blocked.reply # None => blocked.reply \in [Readers -> Int]
    /\ Waits("info") =>
           /\ events # <<>> /\ Head(events).type = "created" /\ Head(events).worker # None
           /\ blocked.reply # None => \A x \in DOMAIN blocked.reply : blocked.reply[x] \in Nat
    /\ \A i \in DOMAIN jobs : jobs[i].job = "info" => jobs[i].arg = Head(events).worker

(* The end *)
NoStartAfter(js) ==
    \A i, j \in DOMAIN js : i < j /\ js[i].job = "shutdown" => js[j].job # "start"
Stopping ==
    /\ NoStartAfter(jobs)
    /\ Waits("shutdown") /\ blocked.reply # None =>
           /\ known = {} /\ ~scanning
           /\ \A i \in DOMAIN jobs : jobs[i].job # "start"
    /\ ~running => known = {}

(* The cache *)
IsNews(e, r) == e.type = "news" /\ e.reader = r
Says(e) == IF e.kind = "removed" THEN Absent ELSE e.info
Silent(es, r) == \A i \in DOMAIN es : ~IsNews(es[i], r)
Latest(es, r, v) ==
    \A i \in DOMAIN es :
        IsNews(es[i], r) /\ (\A j \in DOMAIN es : i < j => ~IsNews(es[j], r))
            => Says(es[i]) = v
Value(r) == IF r \in known THEN info[r] ELSE Absent
CacheFollows ==
    /\ \A r \in Readers : linked[r] => r \in known
    /\ \A r \in Readers : Latest(events, r, Value(r))
    /\ \A r \in Readers : Silent(events, r) =>
           /\ cache[r] = Value(r)
           /\ Waits("infos") /\ blocked.reply # None => blocked.reply[r] = Value(r)

IInv ==
    /\ TypeOK /\ WorkersOwned /\ OneCall /\ Awaited /\ Stopping /\ CacheFollows
    /\ CardNotLeaked
-----------------------------------------------------------------------------
(* Jobs that are taken out, and jobs that are added *)

LEMMA ReleasesTaken ==
    ASSUME NEW js \in Seq(JobSet), NEW rs
    PROVE  /\ WithoutReleases(js, rs) \in Seq(JobSet)
           /\ Thinned(js, WithoutReleases(js, rs))
           /\ \A i \in DOMAIN js : js[i].arg \notin rs =>
                  \E k \in DOMAIN WithoutReleases(js, rs) : WithoutReleases(js, rs)[k] = js[i]
<1> DEFINE places == {i \in DOMAIN js : js[i].job # "release" \/ js[i].arg \notin rs}
           kept == Kept(js, places)
<1>1. WithoutReleases(js, rs) = kept
  BY DEF WithoutReleases
<1>2. \A i \in DOMAIN js : js[i].arg \notin rs => i \in places
  OBVIOUS
<1>3. /\ kept \in Seq(JobSet) /\ Thinned(js, kept)
      /\ \A i \in DOMAIN js : i \in places => \E k \in DOMAIN kept : kept[k] = js[i]
  <2> HIDE DEF places
  <2> QED BY KeptMessages, KeptIsThinned
<1> HIDE DEF places, kept
<1> QED BY <1>1, <1>2, <1>3

\* What is true of any two jobs stays true of those that are left.
LEMMA ThinnedJobs ==
    ASSUME NEW js \in Seq(JobSet), NEW ks \in Seq(JobSet), Thinned(js, ks)
    PROVE  /\ \A i \in DOMAIN ks : \E k \in DOMAIN js : ks[i] = js[k]
           /\ \A ws, held : Owned(ws, held, js) => Owned(ws, held, ks)
           /\ CallsOnce(js) => CallsOnce(ks)
           /\ NoStartAfter(js) => NoStartAfter(ks)
<1>1. PICK f \in [DOMAIN ks -> DOMAIN js] :
          /\ \A i \in DOMAIN ks : ks[i] = js[f[i]]
          /\ \A i, j \in DOMAIN ks : i < j => f[i] < f[j]
  BY DEF Thinned
<1>2. /\ \A i \in DOMAIN ks : f[i] \in DOMAIN js /\ ks[i] = js[f[i]] /\ f[i] \in Nat
      /\ DOMAIN ks \subseteq Nat
  BY <1>1
<1>3. \A i, j \in DOMAIN ks : f[i] = f[j] => i = j
  <2> SUFFICES ASSUME NEW i \in DOMAIN ks, NEW j \in DOMAIN ks, f[i] = f[j], i # j PROVE FALSE
    OBVIOUS
  <2>1. i < j \/ j < i
    BY <1>2
  <2> QED BY <1>1, <1>2, <2>1
<1>4. ASSUME NEW ws, NEW held, Owned(ws, held, js) PROVE Owned(ws, held, ks)
  BY <1>2, <1>3, <1>4 DEF Owned
<1>5. ASSUME CallsOnce(js) PROVE CallsOnce(ks)
  BY <1>2, <1>3, <1>5 DEF CallsOnce
<1>6. ASSUME NoStartAfter(js) PROVE NoStartAfter(ks)
  BY <1>1, <1>2, <1>6 DEF NoStartAfter
<1> QED BY <1>2, <1>4, <1>5, <1>6

\* A number that no worker has
LEMMA FreshWorker ==
    ASSUME IsFiniteSet(DOMAIN workers), DOMAIN workers \in SUBSET Nat
    PROVE  Fresh \in Nat /\ Fresh \notin DOMAIN workers
<1> DEFINE n == Cardinality(DOMAIN workers)
<1>1. n \in Nat
  BY FS_CardinalityType
<1>2. IsFiniteSet(1..(n + 1)) /\ Cardinality(1..(n + 1)) = n + 1
  BY <1>1, FS_Interval
<1>3. \E w \in 1..(n + 1) : w \notin DOMAIN workers
  <2> SUFFICES ASSUME 1..(n + 1) \subseteq DOMAIN workers PROVE FALSE
    OBVIOUS
  <2>1. Cardinality(1..(n + 1)) <= n
    BY FS_Subset
  <2> QED BY <1>1, <1>2, <2>1
<1>4. Fresh \in 1..(n + 1) /\ Fresh \notin DOMAIN workers
  BY <1>3 DEF Fresh
<1> QED BY <1>1, <1>4

LEMMA WithWorker ==
    ASSUME IsFiniteSet(DOMAIN workers), DOMAIN workers \in SUBSET Nat, NEW w \in Nat, NEW r
    PROVE  /\ DOMAIN With(w, r) = DOMAIN workers \cup {w}
           /\ IsFiniteSet(DOMAIN With(w, r)) /\ DOMAIN With(w, r) \in SUBSET Nat
<1>1. DOMAIN With(w, r) = DOMAIN workers \cup {w}
  BY DEF With
<1>2. IsFiniteSet(DOMAIN workers \cup {w})
  BY FS_AddElement
<1> QED BY <1>1, <1>2

\* The workers that nobody holds
LEMMA OrphansDestroyed ==
    ASSUME NEW ws, NEW cn, NEW es, NEW js, IsFiniteSet(DOMAIN ws), DOMAIN ws \in SUBSET Nat
    PROVE  /\ Orphans(ws, cn, es, js) \in Seq(JobSet)
           /\ \A i \in DOMAIN Orphans(ws, cn, es, js) :
                  /\ Orphans(ws, cn, es, js)[i].job = "destroy"
                  /\ Orphans(ws, cn, es, js)[i].arg \in DOMAIN ws \ Held(cn, es, js)
           /\ \A i, j \in DOMAIN Orphans(ws, cn, es, js) :
                  Orphans(ws, cn, es, js)[i].arg = Orphans(ws, cn, es, js)[j].arg => i = j
<1> DEFINE ids == DOMAIN ws \ Held(cn, es, js)
           new == [i \in 1..Cardinality(ids) |-> Job("destroy", SetToSeq(ids)[i])]
<1>1. IsFiniteSet(ids)
  BY FS_Difference
<1>2. Orphans(ws, cn, es, js) = new
  BY DEF Orphans
<1> HIDE DEF ids
<1>3. Cardinality(ids) \in Nat /\ SetToSeq(ids) \in [1..Cardinality(ids) -> ids]
  BY <1>1, SetToSeqNumbers
<1>4. \A i, j \in 1..Cardinality(ids) : SetToSeq(ids)[i] = SetToSeq(ids)[j] => i = j
  BY <1>1, SetToSeqNumbers
<1>5. DOMAIN new = 1..Cardinality(ids)
      /\ \A i \in DOMAIN new : new[i] = Job("destroy", SetToSeq(ids)[i])
  OBVIOUS
<1>6. ids \subseteq Nat
  BY DEF ids
<1>7. \A i \in DOMAIN new : /\ new[i].job = "destroy" /\ new[i].arg = SetToSeq(ids)[i]
                            /\ new[i] \in JobSet
  BY <1>3, <1>5, <1>6 DEF Job, JobSet
<1>8. new \in Seq(JobSet)
  BY <1>3, <1>7
<1> HIDE DEF new
<1>9. /\ new \in Seq(JobSet)
      /\ \A i \in DOMAIN new : new[i].job = "destroy" /\ new[i].arg \in ids
      /\ \A i, j \in DOMAIN new : new[i].arg = new[j].arg => i = j
  BY <1>3, <1>4, <1>5, <1>7, <1>8
<1> QED BY <1>2, <1>9 DEF ids

LEMMA OrphansOwned ==
    ASSUME NEW ws, NEW cn, NEW es, NEW js \in Seq(JobSet), IsFiniteSet(DOMAIN ws),
           DOMAIN ws \in SUBSET Nat, Owned(ws, Holders(cn, es), js)
    PROVE  /\ js \o Orphans(ws, cn, es, js) \in Seq(JobSet)
           /\ Owned(ws, Holders(cn, es), js \o Orphans(ws, cn, es, js))
<1> DEFINE new == Orphans(ws, cn, es, js)
           all == js \o new
           held == Holders(cn, es)
<1>1. /\ new \in Seq(JobSet)
      /\ \A i \in DOMAIN new : new[i].job = "destroy" /\ new[i].arg \in DOMAIN ws \ Held(cn, es, js)
      /\ \A i, j \in DOMAIN new : new[i].arg = new[j].arg => i = j
  BY OrphansDestroyed
<1>2. /\ held \subseteq Held(cn, es, js)
      /\ \A i \in DOMAIN js : Holding(js[i]) => js[i].arg \in Held(cn, es, js)
  BY DEF Held, Holders, Holding
<1> HIDE DEF new, held
<1>3. /\ all \in Seq(JobSet) /\ DOMAIN all \subseteq Nat
      /\ \A i \in DOMAIN js : i \in DOMAIN all /\ all[i] = js[i]
      /\ \A i \in DOMAIN new : Len(js) + i \in DOMAIN all /\ all[Len(js) + i] = new[i]
      /\ \A i \in DOMAIN all : i \in DOMAIN js \/ \E k \in DOMAIN new : i = Len(js) + k
  BY <1>1, Joined
<1> HIDE DEF all
<1>4. Owned(ws, held, js)
  BY DEF held
<1>5. ASSUME NEW i \in DOMAIN all, Holding(all[i]) PROVE all[i].arg \in DOMAIN ws
  <2>1. CASE i \in DOMAIN js
    BY <1>3, <1>4, <1>5, <2>1 DEF Owned
  <2>2. CASE \E k \in DOMAIN new : i = Len(js) + k
    BY <1>1, <1>3, <2>2
  <2> QED BY <1>3, <2>1, <2>2
<1>6. ASSUME NEW i \in DOMAIN all, all[i].job = "destroy"
      PROVE  /\ all[i].arg \notin held
             /\ \A j \in DOMAIN all : Holding(all[j]) /\ all[j].arg = all[i].arg => i = j
  <2>1. CASE i \in DOMAIN js
    <3>1. all[i].arg \notin held
      BY <1>3, <1>4, <1>6, <2>1 DEF Owned
    <3>2. ASSUME NEW j \in DOMAIN all, Holding(all[j]), all[j].arg = all[i].arg PROVE i = j
      <4>1. CASE j \in DOMAIN js
        BY <1>3, <1>4, <1>6, <2>1, <3>2, <4>1 DEF Owned
      <4>2. ASSUME NEW k \in DOMAIN new, j = Len(js) + k PROVE FALSE
        <5>1. all[j].arg \notin Held(cn, es, js)
          BY <1>1, <1>3, <4>2
        <5>2. all[i] = js[i] /\ Holding(js[i])
          BY <1>3, <1>6, <2>1 DEF Holding
        <5> QED BY <1>2, <2>1, <3>2, <5>1, <5>2
      <4> QED BY <1>3, <4>1, <4>2
    <3> QED BY <3>1, <3>2
  <2>2. CASE \E k \in DOMAIN new : i = Len(js) + k
    <3>1. PICK k \in DOMAIN new : i = Len(js) + k
      BY <2>2
    <3>2. all[i] = new[k] /\ all[i].arg \notin Held(cn, es, js)
      BY <1>1, <1>3, <3>1
    <3>3. ASSUME NEW j \in DOMAIN all, Holding(all[j]), all[j].arg = all[i].arg PROVE i = j
      <4>1. CASE j \in DOMAIN js
        BY <1>2, <1>3, <3>2, <3>3, <4>1
      <4>2. ASSUME NEW l \in DOMAIN new, j = Len(js) + l PROVE i = j
        <5>1. all[j] = new[l]
          BY <1>3, <4>2
        <5>2. new[l].arg = new[k].arg
          BY <3>2, <3>3, <5>1
        <5> QED BY <1>1, <3>1, <4>2, <5>2
      <4> QED BY <1>3, <4>1, <4>2
    <3> QED BY <1>2, <3>2, <3>3
  <2> QED BY <1>3, <2>1, <2>2
<1>7. Owned(ws, held, all)
  BY <1>4, <1>5, <1>6 DEF Owned
<1> QED BY <1>3, <1>7 DEF all, new, held
-----------------------------------------------------------------------------
(* Events that are taken out, and events that are added *)

\* What is heard of readers stays the same.
Same(es, fs) ==
    \A r \in Readers : /\ \A v : Latest(es, r, v) => Latest(fs, r, v)
                       /\ Silent(fs, r) => Silent(es, r)

\* Nobody holds a worker, or is told, who did not or was not before.
Fewer(es, fs) ==
    /\ fs \in Seq(EventSet)
    /\ \A i \in DOMAIN fs : fs[i].type = "created" =>
           \E k \in DOMAIN es : es[k].type = "created" /\ fs[i].worker = es[k].worker
    /\ \A i \in DOMAIN fs : fs[i].type = "news" =>
           \E k \in DOMAIN es : es[k].type = "news" /\ fs[i].told \subseteq es[k].told

LEMMA EventTypes ==
    /\ \A e \in EventSet : /\ e.type = "news" => e \in NewsSet
                           /\ e.type = "created" => e \in CreatedSet
                           /\ e.type \in {"execute", "delete"} => e.command \in Commands
    /\ NewsSet \subseteq EventSet /\ CreatedSet \subseteq EventSet
    /\ Status \in EventSet /\ Status.type = "status"
    /\ \A c \in Commands : /\ Execute(c) \in EventSet /\ Execute(c).type = "execute"
                           /\ Delete(c) \in EventSet /\ Delete(c).type = "delete"
<1>1. /\ \A e \in NewsSet : e.type = "news"
      /\ \A e \in CreatedSet : e.type = "created"
  BY DEF NewsSet, CreatedSet
<1> QED BY <1>1 DEF EventSet, Status, Execute, Delete

LEMMA NewsHead ==
    ASSUME NEW es \in Seq(EventSet), es # <<>>
    PROVE  /\ Fewer(es, Tail(es)) /\ Head(es) \in EventSet
           /\ Head(es).type # "news" => Same(es, Tail(es))
           /\ \A r \in Readers : \A v : Latest(es, r, v) =>
                  /\ Latest(Tail(es), r, v)
                  /\ IsNews(Head(es), r) /\ Silent(Tail(es), r) => Says(Head(es)) = v
           /\ \A r \in Readers : ~IsNews(Head(es), r) /\ Silent(Tail(es), r) => Silent(es, r)
<1> DEFINE rest == Tail(es)
<1>1. /\ rest \in Seq(EventSet)
      /\ Head(es) = es[1] /\ 1 \in DOMAIN es
      /\ \A i \in DOMAIN rest : i + 1 \in DOMAIN es /\ rest[i] = es[i + 1]
      /\ \A i \in DOMAIN es : i # 1 => i - 1 \in DOMAIN rest /\ rest[i - 1] = es[i]
  BY TailIsThinned
<1>2. DOMAIN es \subseteq Nat \ {0} /\ DOMAIN rest \subseteq Nat \ {0}
  BY <1>1
<1>3. Head(es) \in EventSet
  BY <1>1
<1> HIDE DEF rest
<1>4. Fewer(es, rest)
  <2>1. \A i \in DOMAIN rest : \E k \in DOMAIN es : rest[i] = es[k]
    BY <1>1
  <2>2. \A i \in DOMAIN rest : rest[i].type = "news" =>
            \E k \in DOMAIN es : es[k].type = "news" /\ rest[i].told \subseteq es[k].told
    BY <2>1
  <2>3. \A i \in DOMAIN rest : rest[i].type = "created" =>
            \E k \in DOMAIN es : es[k].type = "created" /\ rest[i].worker = es[k].worker
    BY <2>1
  <2> QED BY <1>1, <2>2, <2>3 DEF Fewer
<1>5. ASSUME NEW r \in Readers, ~IsNews(Head(es), r), Silent(rest, r) PROVE Silent(es, r)
  BY <1>1, <1>2, <1>5 DEF Silent
<1>6. ASSUME NEW r \in Readers, NEW v, Latest(es, r, v) PROVE Latest(rest, r, v)
  <2> SUFFICES ASSUME NEW i \in DOMAIN rest, IsNews(rest[i], r),
                      \A j \in DOMAIN rest : i < j => ~IsNews(rest[j], r)
               PROVE  Says(rest[i]) = v
    BY DEF Latest
  <2>1. i + 1 \in DOMAIN es /\ IsNews(es[i + 1], r)
    BY <1>1
  <2>2. ASSUME NEW j \in DOMAIN es, i + 1 < j PROVE ~IsNews(es[j], r)
    <3>1. j # 1 /\ i < j - 1
      BY <1>2, <2>2
    <3> QED BY <1>1, <3>1
  <2>3. Says(es[i + 1]) = v
    BY <1>6, <2>1, <2>2 DEF Latest
  <2> QED BY <1>1, <2>3
<1>7. ASSUME NEW r \in Readers, NEW v, Latest(es, r, v), IsNews(Head(es), r), Silent(rest, r)
      PROVE  Says(Head(es)) = v
  <2>1. ASSUME NEW j \in DOMAIN es, 1 < j PROVE ~IsNews(es[j], r)
    <3>1. j # 1
      BY <2>1
    <3> QED BY <1>1, <1>7, <3>1 DEF Silent
  <2> QED BY <1>1, <1>7, <2>1 DEF Latest
<1>8. Head(es).type # "news" => Same(es, rest)
  BY <1>5, <1>6 DEF Same, IsNews
<1> QED BY <1>3, <1>4, <1>5, <1>6, <1>7, <1>8 DEF rest

LEMMA MoreEvents ==
    ASSUME NEW es \in Seq(EventSet), NEW new \in Seq(EventSet)
    PROVE  /\ es \o new \in Seq(EventSet)
           /\ \A r \in Readers : Silent(es \o new, r) => Silent(es, r) /\ Silent(new, r)
           /\ \A r \in Readers : Silent(new, r) =>
                  \A v : Latest(es, r, v) => Latest(es \o new, r, v)
           /\ \A r \in Readers : ~Silent(new, r) =>
                  \A v : Latest(new, r, v) => Latest(es \o new, r, v)
<1> DEFINE all == es \o new
<1>1. /\ all \in Seq(EventSet) /\ DOMAIN all \subseteq Nat
      /\ DOMAIN es \subseteq Nat /\ DOMAIN new \subseteq Nat \ {0} /\ Len(es) \in Nat
      /\ \A i \in DOMAIN es : i \in DOMAIN all /\ all[i] = es[i] /\ i <= Len(es)
      /\ \A i \in DOMAIN new : Len(es) + i \in DOMAIN all /\ all[Len(es) + i] = new[i]
      /\ \A i \in DOMAIN all : i \in DOMAIN es \/ \E k \in DOMAIN new : i = Len(es) + k
  BY Joined
<1> HIDE DEF all
<1>2. ASSUME NEW r \in Readers, Silent(all, r) PROVE Silent(es, r) /\ Silent(new, r)
  BY <1>1, <1>2 DEF Silent
<1>3. ASSUME NEW r \in Readers, Silent(new, r), NEW v, Latest(es, r, v) PROVE Latest(all, r, v)
  <2> SUFFICES ASSUME NEW i \in DOMAIN all, IsNews(all[i], r),
                      \A j \in DOMAIN all : i < j => ~IsNews(all[j], r)
               PROVE  Says(all[i]) = v
    BY DEF Latest
  <2>1. i \in DOMAIN es
    BY <1>1, <1>3 DEF Silent
  <2> QED BY <1>1, <1>3, <2>1 DEF Latest
<1>4. ASSUME NEW r \in Readers, ~Silent(new, r), NEW v, Latest(new, r, v) PROVE Latest(all, r, v)
  <2> SUFFICES ASSUME NEW i \in DOMAIN all, IsNews(all[i], r),
                      \A j \in DOMAIN all : i < j => ~IsNews(all[j], r)
               PROVE  Says(all[i]) = v
    BY DEF Latest
  <2>1. PICK k \in DOMAIN new : IsNews(new[k], r)
    BY <1>4 DEF Silent
  <2>2. i \notin DOMAIN es
    <3>1. ASSUME i \in DOMAIN es PROVE i < Len(es) + k
      BY <1>1, <3>1
    <3> QED BY <1>1, <2>1, <3>1
  <2>3. PICK l \in DOMAIN new : i = Len(es) + l
    BY <1>1, <2>2
  <2>4. \A j \in DOMAIN new : l < j => ~IsNews(new[j], r)
    <3> SUFFICES ASSUME NEW j \in DOMAIN new, l < j PROVE ~IsNews(new[j], r)
      OBVIOUS
    <3>1. i < Len(es) + j
      BY <1>1, <2>3
    <3> QED BY <1>1, <3>1
  <2> QED BY <1>1, <1>4, <2>3, <2>4 DEF Latest
<1> QED BY <1>1, <1>2, <1>3, <1>4 DEF all

LEMMA OtherEvents ==
    ASSUME NEW es \in Seq(EventSet), NEW new \in Seq(EventSet),
           \A i \in DOMAIN new : new[i].type # "news"
    PROVE  Same(es, es \o new)
<1>1. \A r \in Readers : Silent(new, r)
  BY DEF Silent, IsNews
<1> QED BY <1>1, MoreEvents DEF Same

LEMMA UntoldEvents ==
    ASSUME NEW es \in Seq(EventSet), NEW c
    PROVE  /\ Same(es, Untold(es, c)) /\ Fewer(es, Untold(es, c))
           /\ \A i \in DOMAIN Untold(es, c) :
                  Untold(es, c)[i].type = "news" => c \notin Untold(es, c)[i].told
           /\ es # <<>> => /\ Untold(es, c) # <<>>
                           /\ Head(es).type # "news" => Head(Untold(es, c)) = Head(es)
<1> DEFINE fs == Untold(es, c)
<1>1. /\ DOMAIN fs = DOMAIN es
      /\ \A i \in DOMAIN es : fs[i] = IF es[i].type = "news"
                                    THEN [es[i] EXCEPT !.told = es[i].told \ {c}] ELSE es[i]
  BY DEF Untold
<1>2. /\ \A i \in DOMAIN es : es[i] \in EventSet
      /\ DOMAIN es = 1..Len(es) /\ Len(es) \in Nat
  OBVIOUS
<1>3. ASSUME NEW i \in DOMAIN es, es[i].type = "news"
      PROVE  /\ fs[i] \in NewsSet /\ fs[i].type = "news" /\ fs[i].kind = es[i].kind
             /\ fs[i].reader = es[i].reader /\ fs[i].info = es[i].info
             /\ fs[i].told = es[i].told \ {c}
  <2>1. es[i] \in NewsSet
    BY <1>2, <1>3, EventTypes
  <2>2. fs[i] = [es[i] EXCEPT !.told = es[i].told \ {c}]
    BY <1>1, <1>3
  <2> QED BY <2>1, <2>2 DEF NewsSet
<1>4. \A i \in DOMAIN es : fs[i] \in EventSet
  BY <1>1, <1>2, <1>3, EventTypes
<1>5. fs \in Seq(EventSet)
  <2>1. fs = [i \in 1..Len(es) |-> fs[i]]
    BY <1>2 DEF Untold
  <2> HIDE DEF fs
  <2> QED BY <1>2, <1>4, <2>1
<1>6. es # <<>> => /\ fs # <<>>
                   /\ Head(es).type # "news" => Head(fs) = Head(es)
  <2> HIDE DEF fs
  <2>1. SUFFICES ASSUME es # <<>>
                 PROVE  (fs # <<>>) /\ (Head(es).type # "news" => Head(fs) = Head(es))
    OBVIOUS
  <2>2. 1 \in DOMAIN es
    BY <2>1, TailIsThinned
  <2>3. fs # <<>>
    BY <1>1, <2>2
  <2>4. Head(es) = es[1] /\ Head(fs) = fs[1]
    BY <1>5, <2>1, <2>3, TailIsThinned
  <2> QED BY <1>1, <2>2, <2>3, <2>4
<1> HIDE DEF fs
<1>7. ASSUME NEW i \in DOMAIN es, NEW r
      PROVE  /\ IsNews(es[i], r) <=> IsNews(fs[i], r)
             /\ IsNews(es[i], r) => Says(fs[i]) = Says(es[i])
  <2>1. CASE es[i].type = "news"
    BY <1>1, <1>3, <2>1 DEF IsNews, Says
  <2>2. CASE es[i].type # "news"
    BY <1>1, <2>2 DEF IsNews, Says
  <2> QED BY <2>1, <2>2
<1>8. ASSUME NEW r \in Readers
      PROVE  (\A v : Latest(es, r, v) => Latest(fs, r, v)) /\ (Silent(fs, r) => Silent(es, r))
  <2>1. ASSUME Silent(fs, r), NEW i \in DOMAIN es PROVE ~IsNews(es[i], r)
    <3>1. ~IsNews(fs[i], r)
      BY <1>1, <2>1 DEF Silent
    <3> QED BY <1>7, <3>1
  <2>2. ASSUME NEW v, Latest(es, r, v), NEW i \in DOMAIN fs, IsNews(fs[i], r),
               \A j \in DOMAIN fs : i < j => ~IsNews(fs[j], r)
        PROVE  Says(fs[i]) = v
    <3>1. i \in DOMAIN es /\ IsNews(es[i], r) /\ Says(fs[i]) = Says(es[i])
      BY <1>1, <1>7, <2>2
    <3>2. ASSUME NEW j \in DOMAIN es, i < j PROVE ~IsNews(es[j], r)
      <4>1. ~IsNews(fs[j], r)
        BY <1>1, <2>2, <3>2
      <4> QED BY <1>7, <4>1
    <3>3. Says(es[i]) = v
      BY <2>2, <3>1, <3>2 DEF Latest
    <3> QED BY <3>1, <3>3
  <2>3. \A v : Latest(es, r, v) => Latest(fs, r, v)
    BY <2>2 DEF Latest
  <2>4. Silent(fs, r) => Silent(es, r)
    BY <2>1 DEF Silent
  <2> QED BY <2>3, <2>4
<1>10. Same(es, fs)
  BY <1>8 DEF Same
<1>9. Fewer(es, fs)
  BY <1>1, <1>3, <1>5 DEF Fewer
<1> QED BY <1>1, <1>3, <1>6, <1>9, <1>10 DEF fs

LEMMA DroppedEvents ==
    ASSUME NEW es \in Seq(EventSet), NEW c
    PROVE  Same(es, Dropped(es, c)) /\ Fewer(es, Dropped(es, c))
<1> DEFINE places == {i \in DOMAIN es :
                         es[i].type \notin {"created", "delete"} \/ es[i].command # c}
           fs == Kept(es, places)
<1>1. fs = Dropped(es, c)
  BY DEF Dropped
<1>2. \A i \in DOMAIN es : es[i].type = "news" => i \in places
  OBVIOUS
<1> HIDE DEF places
<1>3. fs \in Seq(EventSet) /\ \E order : Orders(order, fs, es, places, Len(es))
  BY KeptIsOrdered
<1> HIDE DEF fs
<1>4. PICK f : Orders(f, fs, es, places, Len(es))
  BY <1>3
<1>5. DOMAIN es = 1..Len(es) /\ DOMAIN fs = 1..Len(fs)
  BY <1>3
<1>6. /\ \A i \in DOMAIN fs : f[i] \in DOMAIN es /\ fs[i] = es[f[i]]
      /\ \A i, j \in DOMAIN fs : i < j => f[i] < f[j]
      /\ \A k \in DOMAIN es : es[k].type = "news" => \E i \in DOMAIN fs : f[i] = k
      /\ \A i \in DOMAIN fs : f[i] \in Nat /\ i \in Nat
  <2>1. /\ f \in [DOMAIN fs -> DOMAIN es]
        /\ \A i \in DOMAIN fs : fs[i] = es[f[i]]
        /\ \A i, j \in DOMAIN fs : i < j => f[i] < f[j]
        /\ \A k \in DOMAIN es : k \in places => \E i \in DOMAIN fs : f[i] = k
    BY <1>4, <1>5 DEF Orders
  <2>2. DOMAIN es \subseteq Nat /\ DOMAIN fs \subseteq Nat
    BY <1>5
  <2> QED BY <1>2, <2>1, <2>2
<1>7. Fewer(es, fs)
  <2>1. \A i \in DOMAIN fs : \E k \in DOMAIN es : fs[i] = es[k]
    BY <1>6
  <2>2. \A i \in DOMAIN fs : fs[i].type = "news" =>
            \E k \in DOMAIN es : es[k].type = "news" /\ fs[i].told \subseteq es[k].told
    BY <2>1
  <2>3. \A i \in DOMAIN fs : fs[i].type = "created" =>
            \E k \in DOMAIN es : es[k].type = "created" /\ fs[i].worker = es[k].worker
    BY <2>1
  <2> QED BY <1>3, <2>2, <2>3 DEF Fewer
<1>8. ASSUME NEW r \in Readers, Silent(fs, r) PROVE Silent(es, r)
  <2> SUFFICES ASSUME NEW k \in DOMAIN es, IsNews(es[k], r) PROVE FALSE
    BY DEF Silent
  <2>1. PICK i \in DOMAIN fs : f[i] = k
    BY <1>6 DEF IsNews
  <2> QED BY <1>6, <1>8, <2>1 DEF Silent
<1>9. ASSUME NEW r \in Readers, NEW v, Latest(es, r, v) PROVE Latest(fs, r, v)
  <2> SUFFICES ASSUME NEW i \in DOMAIN fs, IsNews(fs[i], r),
                      \A j \in DOMAIN fs : i < j => ~IsNews(fs[j], r)
               PROVE  Says(fs[i]) = v
    BY DEF Latest
  <2>1. ASSUME NEW k \in DOMAIN es, f[i] < k PROVE ~IsNews(es[k], r)
    <3> SUFFICES ASSUME IsNews(es[k], r) PROVE FALSE
      OBVIOUS
    <3>1. PICK j \in DOMAIN fs : f[j] = k
      BY <1>6 DEF IsNews
    <3>2. i < j
      <4>1. i = j \/ i < j \/ j < i
        BY <1>6
      <4>2. f[i] < f[j] /\ f[i] \in Nat /\ f[j] \in Nat
        BY <1>6, <2>1, <3>1
      <4>3. ~(i = j) /\ ~(j < i)
        <5>1. ~(f[j] < f[i]) /\ f[i] # f[j]
          BY <4>2
        <5> QED BY <1>6, <5>1
      <4> QED BY <4>1, <4>3
    <3> QED BY <1>6, <3>1, <3>2
  <2> QED BY <1>6, <1>9, <2>1 DEF Latest
<1>10. Same(es, fs)
  BY <1>8, <1>9 DEF Same
<1> QED BY <1>1, <1>7, <1>10

\* Who holds a worker when events are taken out or added
LEMMA EventHolders ==
    ASSUME NEW es \in Seq(EventSet), NEW cn
    PROVE  /\ \A fs : Fewer(es, fs) => /\ Holders(cn, fs) \subseteq Holders(cn, es)
                                       /\ ToldHold(es, cn) => ToldHold(fs, cn)
           /\ \A new \in Seq(EventSet) :
                  /\ (\A i \in DOMAIN new : new[i].type # "created")
                         => Holders(cn, es \o new) \subseteq Holders(cn, es)
                  /\ ToldHold(es, cn) /\ ToldHold(new, cn) => ToldHold(es \o new, cn)
<1>1. ASSUME NEW fs, Fewer(es, fs)
      PROVE  /\ Holders(cn, fs) \subseteq Holders(cn, es)
             /\ ToldHold(es, cn) => ToldHold(fs, cn)
  <2>1. Holders(cn, fs) \subseteq Holders(cn, es)
    BY <1>1 DEF Fewer, Holders
  <2>2. ToldHold(es, cn) => ToldHold(fs, cn)
    BY <1>1 DEF Fewer, ToldHold
  <2> QED BY <2>1, <2>2
<1>2. ASSUME NEW new \in Seq(EventSet)
      PROVE  /\ (\A i \in DOMAIN new : new[i].type # "created")
                    => Holders(cn, es \o new) \subseteq Holders(cn, es)
             /\ ToldHold(es, cn) /\ ToldHold(new, cn) => ToldHold(es \o new, cn)
  <2> DEFINE all == es \o new
  <2>1. /\ \A i \in DOMAIN es : all[i] = es[i]
        /\ \A i \in DOMAIN new : all[Len(es) + i] = new[i]
        /\ \A i \in DOMAIN all : i \in DOMAIN es \/ \E k \in DOMAIN new : i = Len(es) + k
    BY Joined
  <2> HIDE DEF all
  <2>2. \A i \in DOMAIN all : \/ \E k \in DOMAIN es : all[i] = es[k]
                              \/ \E k \in DOMAIN new : all[i] = new[k]
    BY <2>1
  <2>3. (\A i \in DOMAIN new : new[i].type # "created") => Holders(cn, all) \subseteq Holders(cn, es)
    BY <2>2 DEF Holders
  <2>4. ToldHold(es, cn) /\ ToldHold(new, cn) => ToldHold(all, cn)
    BY <2>2 DEF ToldHold
  <2> QED BY <2>3, <2>4 DEF all
<1> QED BY <1>1, <1>2

\* The news of a plug-in, one for each of its readers
LEMMA NewsOfReaders ==
    ASSUME NEW rs \in SUBSET Readers, NEW new \in [1..Cardinality(rs) -> NewsSet],
           NEW said \in [rs -> Int],
           \A i \in 1..Cardinality(rs) :
               /\ new[i].reader = SetToSeq(rs)[i] /\ new[i].told = {}
               /\ Says(new[i]) = said[SetToSeq(rs)[i]]
    PROVE  /\ new \in Seq(EventSet)
           /\ \A i \in DOMAIN new : new[i].type = "news" /\ new[i].told = {}
           /\ \A r \in Readers \ rs : Silent(new, r)
           /\ \A r \in rs : ~Silent(new, r) /\ Latest(new, r, said[r])
<1>1. IsFiniteSet(rs)
  BY FS_Subset, ReaderManagerAssumption
<1> DEFINE f == SetToSeq(rs)
<1>2. /\ Cardinality(rs) \in Nat /\ f \in [1..Cardinality(rs) -> rs]
      /\ \A x \in rs : \E i \in 1..Cardinality(rs) : f[i] = x
  BY <1>1, SetToSeqNumbers
<1>3. DOMAIN new = 1..Cardinality(rs)
  OBVIOUS
<1>4. \A i \in DOMAIN new :
          /\ new[i] \in NewsSet /\ new[i].type = "news" /\ new[i].reader = f[i]
          /\ new[i].told = {} /\ f[i] \in rs /\ Says(new[i]) = said[f[i]]
  BY <1>2, <1>3 DEF NewsSet
<1> HIDE DEF f
<1>5. new \in Seq(EventSet)
  BY <1>2, <1>3, <1>4, EventTypes
<1>6. \A r \in Readers \ rs : Silent(new, r)
  BY <1>4 DEF Silent, IsNews
<1>7. ASSUME NEW r \in rs PROVE ~Silent(new, r)
  <2>1. PICK i \in DOMAIN new : f[i] = r
    BY <1>2, <1>3
  <2> QED BY <1>4, <2>1 DEF Silent, IsNews
<1>8. ASSUME NEW r \in rs PROVE Latest(new, r, said[r])
  BY <1>4 DEF Latest, IsNews
<1> QED BY <1>4, <1>5, <1>6, <1>7, <1>8

LEMMA RemovalSignals ==
    ASSUME NEW rs \in SUBSET Readers
    PROVE  /\ Removals(rs) \in Seq(EventSet)
           /\ \A i \in DOMAIN Removals(rs) :
                  Removals(rs)[i].type = "news" /\ Removals(rs)[i].told = {}
           /\ \A r \in Readers \ rs : Silent(Removals(rs), r)
           /\ \A r \in rs : ~Silent(Removals(rs), r) /\ Latest(Removals(rs), r, Absent)
<1> DEFINE f == SetToSeq(rs)
           new == Removals(rs)
           said == [r \in rs |-> Absent]
<1>1. f \in [1..Cardinality(rs) -> rs]
  BY FS_Subset, ReaderManagerAssumption, SetToSeqNumbers
<1>2. ASSUME NEW i \in 1..Cardinality(rs)
      PROVE  /\ new[i] \in NewsSet /\ new[i].reader = f[i] /\ new[i].told = {}
             /\ Says(new[i]) = said[f[i]]
  <2>1. new[i] = [type |-> "news", kind |-> "removed", reader |-> f[i], info |-> 0, told |-> {}]
    BY DEF News, Removals
  <2>2. f[i] \in rs
    BY <1>1
  <2> HIDE DEF f, new
  <2> QED BY <2>1, <2>2 DEF NewsSet, Says
<1>3. new \in [1..Cardinality(rs) -> NewsSet]
  BY <1>2 DEF Removals
<1>5. said \in [rs -> Int] /\ \A r \in rs : said[r] = Absent
  BY DEF Absent
<1> HIDE DEF new
<1>4. /\ new \in Seq(EventSet)
      /\ \A i \in DOMAIN new : new[i].type = "news" /\ new[i].told = {}
      /\ \A r \in Readers \ rs : Silent(new, r)
      /\ \A r \in rs : ~Silent(new, r) /\ Latest(new, r, said[r])
  <2> HIDE DEF said
  <2> QED BY <1>2, <1>3, <1>5, NewsOfReaders
<1> QED BY <1>4 DEF new

LEMMA AdditionSignals ==
    ASSUME NEW rs \in SUBSET Readers, NEW infos \in [Readers -> Nat]
    PROVE  /\ Additions(rs, infos) \in Seq(EventSet)
           /\ \A i \in DOMAIN Additions(rs, infos) :
                  Additions(rs, infos)[i].type = "news" /\ Additions(rs, infos)[i].told = {}
           /\ \A r \in Readers \ rs : Silent(Additions(rs, infos), r)
           /\ \A r \in rs : /\ ~Silent(Additions(rs, infos), r)
                            /\ Latest(Additions(rs, infos), r, infos[r])
<1> DEFINE f == SetToSeq(rs)
           new == Additions(rs, infos)
           said == [r \in rs |-> infos[r]]
<1>1. f \in [1..Cardinality(rs) -> rs]
  BY FS_Subset, ReaderManagerAssumption, SetToSeqNumbers
<1>2. ASSUME NEW i \in 1..Cardinality(rs)
      PROVE  /\ new[i] \in NewsSet /\ new[i].reader = f[i] /\ new[i].told = {}
             /\ Says(new[i]) = said[f[i]]
  <2>1. new[i] = [type |-> "news", kind |-> "added", reader |-> f[i], info |-> infos[f[i]],
                  told |-> {}]
    BY DEF News, Additions
  <2>2. f[i] \in rs
    BY <1>1
  <2> HIDE DEF f, new
  <2> QED BY <2>1, <2>2 DEF NewsSet, Says
<1>3. new \in [1..Cardinality(rs) -> NewsSet]
  BY <1>2 DEF Additions
<1>5. said \in [rs -> Int]
  OBVIOUS
<1> HIDE DEF new
<1>4. /\ new \in Seq(EventSet)
      /\ \A i \in DOMAIN new : new[i].type = "news" /\ new[i].told = {}
      /\ \A r \in Readers \ rs : Silent(new, r)
      /\ \A r \in rs : ~Silent(new, r) /\ Latest(new, r, said[r])
  <2> HIDE DEF said
  <2> QED BY <1>2, <1>3, <1>5, NewsOfReaders
<1> QED BY <1>4 DEF new

LEMMA StatusSignals ==
    ASSUME NEW new \in Seq({Status})
    PROVE  /\ new \in Seq(EventSet) /\ \A i \in DOMAIN new : new[i].type = "status"
           /\ \A r \in Readers : Silent(new, r)
<1>1. \A i \in DOMAIN new : new[i] = Status
  OBVIOUS
<1>2. new \in Seq(EventSet)
  BY <1>1, EventTypes
<1>3. \A i \in DOMAIN new : new[i].type = "status"
  BY <1>1, EventTypes
<1> QED BY <1>2, <1>3 DEF Silent, IsNews

LEMMA StartingSignals ==
    ASSUME NEW ok, NEW was PROVE StartSignals(ok, was) \in Seq({Status})
<1> DEFINE first == IF enabled # ok THEN <<Status>> ELSE <<>>
           second == IF was THEN <<>> ELSE <<Status>>
<1>1. <<Status>> \in Seq({Status}) /\ <<>> \in Seq({Status})
  OBVIOUS
<1>2. first \in Seq({Status}) /\ second \in Seq({Status})
  BY <1>1
<1>3. StartSignals(ok, was) = first \o second
  BY DEF StartSignals
<1> HIDE DEF first, second
<1> QED BY <1>2, <1>3

LEMMA StoppingSignals ==
    ASSUME known \in SUBSET Readers
    PROVE  /\ StopSignals \in Seq(EventSet)
           /\ \A i \in DOMAIN StopSignals : /\ StopSignals[i].type # "created"
                                            /\ StopSignals[i].type = "news" => StopSignals[i].told = {}
           /\ \A r \in Readers \ known : Silent(StopSignals, r)
           /\ \A r \in known : ~Silent(StopSignals, r) /\ Latest(StopSignals, r, Absent)
<1> DEFINE gone == Removals(known)
           more == IF scanning THEN <<Status>> ELSE <<>>
<1>1. /\ gone \in Seq(EventSet)
      /\ \A i \in DOMAIN gone : gone[i].type = "news" /\ gone[i].told = {}
      /\ \A r \in Readers \ known : Silent(gone, r)
      /\ \A r \in known : ~Silent(gone, r) /\ Latest(gone, r, Absent)
  BY RemovalSignals
<1>2. more \in Seq({Status})
  <2>1. <<Status>> \in Seq({Status}) /\ <<>> \in Seq({Status})
    OBVIOUS
  <2> QED BY <2>1
<1> HIDE DEF more
<1>3. /\ more \in Seq(EventSet) /\ \A i \in DOMAIN more : more[i].type = "status"
      /\ \A r \in Readers : Silent(more, r)
  BY <1>2, StatusSignals
<1> DEFINE all == gone \o more
<1>4. StopSignals = all
  BY DEF StopSignals, more
<1> HIDE DEF gone
<1>5. /\ all \in Seq(EventSet)
      /\ \A i \in DOMAIN gone : all[i] = gone[i]
      /\ \A i \in DOMAIN more : all[Len(gone) + i] = more[i]
      /\ \A i \in DOMAIN all : i \in DOMAIN gone \/ \E k \in DOMAIN more : i = Len(gone) + k
  BY <1>1, <1>3, Joined
<1>6. /\ \A r \in Readers : Silent(all, r) => Silent(gone, r)
      /\ \A r \in Readers : \A v : Latest(gone, r, v) => Latest(all, r, v)
  BY <1>1, <1>3, MoreEvents
<1> HIDE DEF all
<1>7. \A i \in DOMAIN all : all[i].type # "created" /\ (all[i].type = "news" => all[i].told = {})
  BY <1>1, <1>3, <1>5
<1>8. ASSUME NEW r \in Readers \ known PROVE Silent(all, r)
  BY <1>1, <1>3, <1>5 DEF Silent
<1>9. ASSUME NEW r \in known PROVE ~Silent(all, r) /\ Latest(all, r, Absent)
  BY <1>1, <1>6
<1> QED BY <1>4, <1>5, <1>7, <1>8, <1>9

LEMMA BroadcastSignals ==
    ASSUME NEW w \in Nat \cup {None}
    PROVE  /\ Broadcast(w) \in Seq(EventSet)
           /\ \A i \in DOMAIN Broadcast(w) :
                  Broadcast(w)[i].type = "created" /\ Broadcast(w)[i].worker = w
           /\ \A r \in Readers : Silent(Broadcast(w), r)
<1> DEFINE S == {e \in CreatedSet : e.worker = w}
           all == [c \in Commands |-> Created(c, w)]
<1>1. all \in Seq(S)
  <2>1. \A c \in Commands : Created(c, w) \in S
    BY DEF Created, CreatedSet
  <2>2. MaxCommands \in Nat
    BY ReaderManagerAssumption
  <2> QED BY <2>1, <2>2 DEF Commands
<1>2. Broadcast(w) \in Seq(S)
  <2> HIDE DEF all, S
  <2>1. Kept(all, Listening) \in Seq(S)
    BY <1>1, KeptMessages
  <2> QED BY <2>1 DEF Broadcast, all
<1>3. \A e \in S : e \in EventSet /\ e.type = "created" /\ e.worker = w
  BY EventTypes DEF CreatedSet
<1> HIDE DEF S
<1> DEFINE new == Broadcast(w)
<1>4. new \in Seq(S)
  BY <1>2
<1> HIDE DEF new
<1>5. \A i \in DOMAIN new : new[i] \in S
  BY <1>4
<1>6. new \in Seq(EventSet)
  BY <1>3, <1>4
<1>7. \A r \in Readers : Silent(new, r)
  BY <1>3, <1>5 DEF Silent, IsNews
<1> QED BY <1>3, <1>5, <1>6, <1>7 DEF new
-----------------------------------------------------------------------------
(* The calls the main thread waits for *)

\* Jobs are taken out, and jobs are added that are neither calls nor "start".
Passive(js, ks) ==
    /\ ks \in Seq(JobSet)
    /\ CallsOnce(js) => CallsOnce(ks)
    /\ NoStartAfter(js) => NoStartAfter(ks)
    /\ \A i \in DOMAIN ks : Calling(ks[i]) \/ ks[i].job = "start" =>
           \E k \in DOMAIN js : js[k] = ks[i]
Harmless(j) == ~Calling(j) /\ j.job # "start"

LEMMA PassiveType == \A js, ks : Passive(js, ks) => ks \in Seq(JobSet)
BY DEF Passive

LEMMA PassiveJobs ==
    ASSUME NEW js \in Seq(JobSet)
    PROVE  /\ \A ks \in Seq(JobSet) : Thinned(js, ks) => Passive(js, ks)
           /\ \A new \in Seq(JobSet) :
                  (\A i \in DOMAIN new : Harmless(new[i])) => Passive(js, js \o new)
           /\ \A ks, ls : Passive(js, ks) /\ Passive(ks, ls) => Passive(js, ls)
           /\ Passive(js, js)
<1>1. ASSUME NEW ks \in Seq(JobSet), Thinned(js, ks) PROVE Passive(js, ks)
  BY <1>1, ThinnedJobs DEF Passive
<1>2. ASSUME NEW new \in Seq(JobSet), \A i \in DOMAIN new : Harmless(new[i])
      PROVE  Passive(js, js \o new)
  <2> DEFINE all == js \o new
  <2>1. /\ all \in Seq(JobSet) /\ DOMAIN js \subseteq Nat /\ DOMAIN new \subseteq Nat \ {0}
        /\ Len(js) \in Nat
        /\ \A i \in DOMAIN js : i \in DOMAIN all /\ all[i] = js[i] /\ i <= Len(js)
        /\ \A i \in DOMAIN new : Len(js) + i \in DOMAIN all /\ all[Len(js) + i] = new[i]
        /\ \A i \in DOMAIN all : i \in DOMAIN js \/ \E k \in DOMAIN new : i = Len(js) + k
    BY Joined
  <2> HIDE DEF all
  <2>2. \A i \in DOMAIN all : ~Harmless(all[i]) => i \in DOMAIN js /\ all[i] = js[i]
    BY <1>2, <2>1
  <2>3. CallsOnce(js) => CallsOnce(all)
    BY <2>2 DEF CallsOnce, Harmless
  <2>4. NoStartAfter(js) => NoStartAfter(all)
    <3> SUFFICES ASSUME NoStartAfter(js), NEW i \in DOMAIN all, NEW j \in DOMAIN all,
                        i < j, all[i].job = "shutdown", all[j].job = "start"
                 PROVE  FALSE
      BY DEF NoStartAfter
    <3>1. ~Harmless(all[i]) /\ ~Harmless(all[j])
      BY DEF Harmless, Calling, Calls
    <3> QED BY <2>2, <3>1 DEF NoStartAfter
  <2>5. Passive(js, all)
    BY <2>1, <2>2, <2>3, <2>4 DEF Passive, Harmless
  <2> QED BY <2>5 DEF all
<1>3. ASSUME NEW ks, NEW ls, Passive(js, ks), Passive(ks, ls) PROVE Passive(js, ls)
  BY <1>3 DEF Passive
<1>4. Passive(js, js)
  BY DEF Passive
<1> QED BY <1>1, <1>2, <1>3, <1>4

LEMMA JobTypes ==
    \A what \in {"start", "stop", "create", "destroy", "release", "use"} \cup Calls :
        \A arg \in Readers \cup Nat \cup {None} :
            /\ Job(what, arg) \in JobSet /\ Job(what, arg).job = what
            /\ Job(what, arg).arg = arg
            /\ \A js \in Seq(JobSet) : Append(js, Job(what, arg)) = js \o <<Job(what, arg)>>
            /\ <<Job(what, arg)>> \in Seq(JobSet)
            /\ what \notin Calls \cup {"start"} =>
                   \A js \in Seq(JobSet) : Passive(js, Append(js, Job(what, arg)))
<1> TAKE what \in {"start", "stop", "create", "destroy", "release", "use"} \cup Calls
<1> TAKE arg \in Readers \cup Nat \cup {None}
<1> DEFINE j == Job(what, arg)
<1>1. j \in JobSet /\ j.job = what /\ j.arg = arg
  BY DEF Job, JobSet
<1> HIDE DEF j
<1>2. <<j>> \in Seq(JobSet) /\ \A js \in Seq(JobSet) : Append(js, j) = js \o <<j>>
  BY <1>1
<1>3. ASSUME what \notin Calls \cup {"start"}, NEW js \in Seq(JobSet) PROVE Passive(js, Append(js, j))
  <2>1. \A i \in DOMAIN <<j>> : Harmless(<<j>>[i])
    BY <1>1, <1>3 DEF Harmless, Calling
  <2> QED BY <1>2, <2>1, PassiveJobs
<1> QED BY <1>1, <1>2, <1>3 DEF j

LEMMA PassiveOperations ==
    ASSUME NEW js \in Seq(JobSet)
    PROVE  /\ \A rs : Passive(js, WithoutReleases(js, rs))
           /\ js # <<>> => Passive(js, Tail(js))
           /\ \A ws, cn, es : IsFiniteSet(DOMAIN ws) /\ DOMAIN ws \in SUBSET Nat =>
                  Passive(js, js \o Orphans(ws, cn, es, js))
           /\ \A r \in Readers : Passive(js, Examined(js, r))
<1>1. \A rs : Passive(js, WithoutReleases(js, rs))
  BY ReleasesTaken, PassiveJobs
<1>2. js # <<>> => Passive(js, Tail(js))
  BY TailIsThinned, PassiveJobs
<1>3. ASSUME NEW ws, NEW cn, NEW es, IsFiniteSet(DOMAIN ws), DOMAIN ws \in SUBSET Nat
      PROVE  Passive(js, js \o Orphans(ws, cn, es, js))
  <2> DEFINE new == Orphans(ws, cn, es, js)
  <2>1. new \in Seq(JobSet) /\ \A i \in DOMAIN new : Harmless(new[i])
    BY <1>3, OrphansDestroyed DEF Harmless, Calling, Calls
  <2> HIDE DEF new
  <2>2. Passive(js, js \o new)
    BY <2>1, PassiveJobs
  <2> QED BY <2>2 DEF new
<1>4. ASSUME NEW r \in Readers PROVE Passive(js, Examined(js, r))
  <2>1. Passive(js, Append(js, Job("release", r)))
    BY JobTypes DEF Calls
  <2> QED BY <1>1, <2>1 DEF Examined
<1> QED BY <1>1, <1>2, <1>3, <1>4

LEMMA ExaminationJobs ==
    ASSUME NEW rs \in SUBSET Readers
    PROVE  /\ Examinations(rs) \in Seq(JobSet)
           /\ \A i \in DOMAIN Examinations(rs) : Examinations(rs)[i].job = "release"
           /\ \A r \in rs : \E i \in DOMAIN Examinations(rs) : Examinations(rs)[i].arg = r
<1> DEFINE f == SetToSeq(rs)
           new == Examinations(rs)
<1>1. /\ Cardinality(rs) \in Nat /\ f \in [1..Cardinality(rs) -> rs]
      /\ \A x \in rs : \E i \in 1..Cardinality(rs) : f[i] = x
  BY FS_Subset, ReaderManagerAssumption, SetToSeqNumbers
<1>2. new = [i \in 1..Cardinality(rs) |-> Job("release", f[i])]
  BY DEF Examinations
<1> HIDE DEF f, new
<1>3. DOMAIN new = 1..Cardinality(rs)
  BY <1>2
<1>4. \A i \in DOMAIN new : /\ new[i] \in JobSet /\ new[i].job = "release"
                            /\ new[i].arg = f[i]
  BY <1>1, <1>2 DEF Job, JobSet
<1>5. new \in Seq(JobSet)
  BY <1>1, <1>2, <1>3, <1>4
<1>6. /\ new \in Seq(JobSet) /\ \A i \in DOMAIN new : new[i].job = "release"
      /\ \A r \in rs : \E i \in DOMAIN new : new[i].arg = r
  BY <1>1, <1>3, <1>4, <1>5
<1> QED BY <1>6 DEF new

\* What a step does with calls
CallStep ==
    \/ Passive(jobs, jobs') /\ blocked' = blocked
    \/ \E what \in Calls : /\ Running(what) /\ Passive(Tail(jobs), jobs')
                           /\ \E v : Reply(v)
                           /\ what = "shutdown" => known' = {} /\ ~scanning'
    \/ \E what \in Calls : Answered(what) /\ Passive(jobs, jobs') /\ blocked' = None
    \/ /\ Free
       /\ \E what \in Calls, arg \in Readers \cup Nat \cup {None}, js \in Seq(JobSet) :
              Passive(jobs, js) /\ jobs' = Append(js, Job(what, arg)) /\ Block(what)
    \/ Free /\ jobs' = Append(jobs, Job("start", None)) /\ blocked' = blocked

LEMMA ReaderThreadCalls == ASSUME TypeOK, ReaderThread \/ Timers \/ RestartPlugIn PROVE CallStep
<1>1. /\ jobs \in Seq(JobSet) /\ IsFiniteSet(DOMAIN workers) /\ DOMAIN workers \in SUBSET Nat
      /\ plugged \in SUBSET Readers /\ known \in SUBSET Readers
  BY DEF TypeOK
<1>2. ASSUME jobs # <<>> PROVE Tail(jobs) \in Seq(JobSet) /\ Passive(jobs, Tail(jobs))
  BY <1>1, <1>2, PassiveOperations DEF Passive
<1>3. ASSUME jobs # <<>>, Passive(Tail(jobs), jobs') PROVE Passive(jobs, jobs')
  BY <1>1, <1>2, <1>3, PassiveJobs
<1>4. ASSUME jobs # <<>>, NEW ws, NEW cn, NEW es, IsFiniteSet(DOMAIN ws), DOMAIN ws \in SUBSET Nat,
             Leave(ws, cn, es, Tail(jobs))
      PROVE  Passive(Tail(jobs), jobs')
  BY <1>2, <1>4, PassiveOperations DEF Leave
<1>5. CASE StartScan
  BY <1>2, <1>5, PassiveJobs DEF StartScan, Running, CallStep
<1>6. CASE StopScan
  BY <1>2, <1>3, <1>6, PassiveOperations DEF StopScan, Running, CallStep
<1>7. CASE CreateWorker
  <2>1. jobs # <<>> /\ blocked' = blocked
    BY <1>7 DEF CreateWorker, Running
  <2>2. ASSUME NEW w \in Nat, NEW r, NEW es, Leave(With(w, r), conn, es, Tail(jobs))
        PROVE  Passive(Tail(jobs), jobs')
    <3>1. IsFiniteSet(DOMAIN With(w, r)) /\ DOMAIN With(w, r) \in SUBSET Nat
      BY <1>1, WithWorker
    <3> QED BY <1>4, <2>1, <2>2, <3>1
  <2>3. Fresh \in Nat
    BY <1>1, FreshWorker
  <2>4. Passive(Tail(jobs), jobs')
    BY <1>1, <1>4, <1>7, <2>1, <2>2, <2>3 DEF CreateWorker
  <2> QED BY <1>3, <2>1, <2>4 DEF CallStep
<1>8. CASE DestroyWorker
  BY <1>2, <1>8 DEF DestroyWorker, Running, CallStep
<1>9. CASE EndExamination
  BY <1>2, <1>9 DEF EndExamination, Running, CallStep
<1>10. CASE UseCard
  <2>1. jobs # <<>> /\ blocked' = blocked
    BY <1>10 DEF UseCard, Running, mainThread
  <2>2. \E es : Leave(workers, conn, es, Tail(jobs))
    BY <1>10 DEF UseCard
  <2> QED BY <1>1, <1>3, <1>4, <2>1, <2>2 DEF CallStep
<1>11. CASE GetReaderInfos
  BY <1>2, <1>11, PassiveJobs DEF GetReaderInfos, Running, CallStep, Calls
<1>12. CASE GetReaderInfo
  BY <1>2, <1>12, PassiveJobs DEF GetReaderInfo, Running, CallStep, Calls
<1>13. CASE UpdateReaderInfo
  <2>1. jobs # <<>> /\ Running("update") /\ Reply(Nothing)
    BY <1>13 DEF UpdateReaderInfo, Running
  <2>2. \A r \in Readers : Passive(Tail(jobs), Examined(Tail(jobs), r))
    BY <1>2, <2>1, PassiveOperations
  <2>3. Passive(Tail(jobs), jobs')
    <3>1. CASE jobs' = Tail(jobs)
      BY <1>2, <2>1, <3>1, PassiveJobs
    <3>2. CASE Noticed(Head(jobs).arg) /\ jobs' = Examined(Tail(jobs), Head(jobs).arg)
      <4>1. Head(jobs).arg \in Readers
        BY <1>1, <3>2 DEF Noticed
      <4> QED BY <2>2, <3>2, <4>1
    <3> QED BY <1>13, <3>1, <3>2 DEF UpdateReaderInfo
  <2> QED BY <2>1, <2>3 DEF CallStep, Calls
<1>14. CASE ShutDownWorker
  BY <1>2, <1>14, PassiveOperations DEF ShutDownWorker, KeepOnly, Running, CallStep, Calls
<1>15. CASE UpdateReaders
  <2> DEFINE left == WithoutReleases(jobs, known \ plugged)
             added == plugged \ known
             new == Examinations({r \in added : slot[r] # 0})
  <2>1. Passive(jobs, left) /\ left \in Seq(JobSet)
    BY <1>1, PassiveOperations, PassiveType
  <2>2. new \in Seq(JobSet) /\ \A i \in DOMAIN new : Harmless(new[i])
    <3>1. {r \in added : slot[r] # 0} \in SUBSET Readers
      BY <1>1
    <3> HIDE DEF added
    <3> QED BY <3>1, ExaminationJobs DEF Harmless, Calling, Calls
  <2>3. jobs' = left \o new /\ blocked' = blocked
    BY <1>15 DEF UpdateReaders
  <2> HIDE DEF left, new
  <2> QED BY <1>1, <2>1, <2>2, <2>3, PassiveJobs DEF CallStep
<1>16. CASE \E r \in Readers : Poll(r)
  BY <1>1, <1>16, PassiveOperations DEF Poll, CallStep
<1>17. CASE RestartPlugIn
  BY <1>1, <1>17, PassiveOperations DEF RestartPlugIn, CallStep
<1> QED
  BY <1>5, <1>6, <1>7, <1>8, <1>9, <1>10, <1>11, <1>12, <1>13, <1>14, <1>15, <1>16, <1>17
  DEF ReaderThread, Timers

LEMMA MainThreadCalls ==
    ASSUME TypeOK, WorkersOwned, Awaited, MainThread \/ Program \/ Environment PROVE CallStep
<1>1. /\ jobs \in Seq(JobSet) /\ IsFiniteSet(DOMAIN workers) /\ DOMAIN workers \in SUBSET Nat
      /\ target \in [Commands -> Readers \cup {None}]
      /\ events \in Seq(EventSet)
      /\ conn \in [Commands -> Connection \cup {None}]
  BY DEF TypeOK
<1>2. Passive(jobs, jobs)
  BY <1>1, PassiveJobs
<1>3. ASSUME NEW cn, NEW es, Leave(workers, cn, es, jobs) PROVE Passive(jobs, jobs')
  BY <1>1, <1>3, PassiveOperations DEF Leave
<1>4. \A what \in Calls, arg \in Readers \cup Nat \cup {None} :
          Free /\ jobs' = Append(jobs, Job(what, arg)) /\ Block(what) => CallStep
  BY <1>1, <1>2 DEF CallStep
<1>5. CASE FullUpdate
  BY <1>2, <1>4, <1>5 DEF FullUpdate, CallStep, Calls
<1>6. CASE FullUpdateDone
  BY <1>2, <1>6 DEF FullUpdateDone, CallStep, Calls
<1>7. CASE NewsArrives
  BY <1>2, <1>7 DEF NewsArrives, CallStep
<1>8. CASE ExecuteCommand
  <2>1. Arrived \in EventSet /\ Arrived.type = "execute"
    BY <1>1, <1>8, NewsHead DEF ExecuteCommand, Arrives, Arrived
  <2>2. target[Arrived.command] \in Readers \cup Nat \cup {None}
    BY <1>1, <2>1, EventTypes
  <2>3. Passive(jobs, Append(jobs, Job("create", target[Arrived.command])))
    BY <1>1, <2>2, JobTypes DEF Calls
  <2> QED BY <1>2, <1>8, <2>3 DEF ExecuteCommand, CallStep
<1>9. CASE NoConnection
  BY <1>3, <1>9 DEF NoConnection, Answer, CallStep
<1>10. CASE NewConnection
  <2>1. Arrived \in CreatedSet /\ Arrived.worker # None
    BY <1>1, <1>10, NewsHead, EventTypes DEF NewConnection, Arrives, Arrived
  <2>2. Arrived.worker \in Readers \cup Nat \cup {None}
    BY <2>1 DEF CreatedSet
  <2> QED BY <1>4, <1>10, <2>2 DEF NewConnection, Calls
<1>11. CASE ConnectionMade
  BY <1>3, <1>11 DEF ConnectionMade, Answer, CallStep, Calls
<1>12. CASE DeleteCommand
  BY <1>3, <1>12 DEF DeleteCommand, CallStep
<1>13. CASE Resume
  BY <1>2, <1>13 DEF Resume, CallStep, Calls
<1>14. CASE \E c \in Commands, r \in Readers : Call(c, r)
  BY <1>2, <1>14 DEF Call, CallStep
<1>15. ASSUME NEW c \in Commands, NEW polls \in BOOLEAN, GiveUp(c, polls) PROVE CallStep
  <2> DEFINE gone == status[c] = "gone"
             cn == IF gone THEN Without(c) ELSE conn
             es == IF gone THEN Untold(events, c) ELSE events
             left == jobs \o Orphans(workers, cn, es, jobs)
             more == IF polls THEN <<Job("update", target[c])>> ELSE <<>>
  <2>1. Passive(jobs, left) /\ left \in Seq(JobSet)
    <3> HIDE DEF cn, es
    <3> QED BY <1>1, PassiveOperations, PassiveType
  <2>2. jobs' = left \o more
    BY <1>15 DEF GiveUp
  <2> HIDE DEF left
  <2>3. CASE polls
    <3>1. Free /\ Block("update") /\ target[c] \in Readers \cup Nat \cup {None}
      BY <1>1, <1>15, <2>3 DEF GiveUp
    <3>2. jobs' = Append(left, Job("update", target[c]))
      BY <2>1, <2>2, <2>3, <3>1, JobTypes DEF Calls
    <3> QED BY <2>1, <3>1, <3>2 DEF CallStep, Calls
  <2>4. CASE ~polls
    <3>1. jobs' = left \o <<>> /\ blocked' = blocked
      BY <1>15, <2>2, <2>4 DEF GiveUp
    <3>2. left \o <<>> = left
      BY <2>1
    <3> QED BY <2>1, <3>1, <3>2 DEF CallStep
  <2> QED BY <2>3, <2>4
<1>16. ASSUME NEW c \in Commands, Use(c) PROVE CallStep
  <2>1. conn[c].worker \in Nat
    BY <1>1, <1>16 DEF Use, Connection
  <2>2. Passive(jobs, Append(jobs, Job("use", conn[c].worker)))
    BY <1>1, <2>1, JobTypes DEF Calls
  <2> QED BY <1>16, <2>2 DEF Use, CallStep
<1>17. ASSUME NEW what \in {"start", "stop"}, Scan(what) PROVE CallStep
  <2>1. CASE what = "start"
    BY <1>17, <2>1 DEF Scan, CallStep
  <2>2. CASE what = "stop"
    <3>1. Passive(jobs, Append(jobs, Job("stop", None)))
      BY <1>1, JobTypes DEF Calls
    <3> QED BY <1>17, <2>2, <3>1 DEF Scan, CallStep
  <2> QED BY <2>1, <2>2
<1>18. CASE ShutDown
  BY <1>4, <1>18 DEF ShutDown, Calls
<1>19. CASE Environment
  BY <1>2, <1>19 DEF Environment, PlugIn, Unplug, PutCard, TakeCard, software, CallStep
<1> QED
  BY <1>5, <1>6, <1>7, <1>8, <1>9, <1>10, <1>11, <1>12, <1>13, <1>14, <1>15, <1>16, <1>17, <1>18,
     <1>19 DEF MainThread, Program

NoCall(js) == \A i \in DOMAIN js : ~Calling(js[i])

LEMMA CallFacts ==
    ASSUME TypeOK, OneCall
    PROVE  /\ Free => NoCall(jobs)
           /\ \A what \in Calls : Answered(what) => NoCall(jobs)
           /\ \A what \in Calls : Running(what) =>
                  /\ Waits(what) /\ jobs # <<>> /\ NoCall(Tail(jobs))
                  /\ \A v : Reply(v) => blocked' = [call |-> what, reply |-> v]
<1>1. ASSUME Free PROVE NoCall(jobs)
  BY <1>1 DEF OneCall, Free, Waits, NoCall
<1>2. ASSUME NEW what \in Calls, Answered(what) PROVE NoCall(jobs)
  BY <1>2 DEF OneCall, Answered, NoCall
<1>3. ASSUME NEW what \in Calls, Running(what)
      PROVE  /\ Waits(what) /\ jobs # <<>> /\ NoCall(Tail(jobs))
             /\ \A v : Reply(v) => blocked' = [call |-> what, reply |-> v]
  <2>1. jobs \in Seq(JobSet) /\ jobs # <<>> /\ Head(jobs).job = what
    BY <1>3 DEF Running, TypeOK
  <2>2. /\ 1 \in DOMAIN jobs /\ jobs[1].job = what
        /\ \A i \in DOMAIN Tail(jobs) : /\ i \in Nat \ {0} /\ i + 1 \in DOMAIN jobs
                                        /\ Tail(jobs)[i] = jobs[i + 1]
    BY <2>1, TailIsThinned
  <2>3. Waits(what)
    BY <2>2 DEF OneCall, Calling
  <2>4. ASSUME NEW i \in DOMAIN Tail(jobs), Calling(Tail(jobs)[i]) PROVE FALSE
    <3>1. i + 1 = 1
      BY <2>2, <2>4 DEF OneCall, CallsOnce, Calling
    <3> QED BY <2>2, <3>1
  <2>5. NoCall(Tail(jobs))
    BY <2>4 DEF NoCall
  <2>6. blocked = [call |-> what, reply |-> blocked.reply]
    BY <2>3 DEF OneCall, Waits
  <2>7. \A v : Reply(v) => blocked' = [call |-> what, reply |-> v]
    BY <2>6 DEF Reply
  <2> QED BY <2>1, <2>3, <2>5, <2>7
<1> QED BY <1>1, <1>2, <1>3

LEMMA NoCallKept ==
    ASSUME NEW js, NEW ks, Passive(js, ks), NoCall(js) PROVE NoCall(ks)
BY DEF Passive, NoCall

LEMMA OneCallStep == ASSUME TypeOK, OneCall, CallStep PROVE jobs' \in Seq(JobSet) /\ OneCall'
<1>1. jobs \in Seq(JobSet)
  BY DEF TypeOK
<1>2. CASE Passive(jobs, jobs') /\ blocked' = blocked
  BY <1>2, PassiveType DEF Passive, OneCall, Waits
<1>3. ASSUME jobs' \in Seq(JobSet), NoCall(jobs'),
             blocked' = None \/ \E what \in Calls : \E v : blocked' = [call |-> what, reply |-> v]
      PROVE  OneCall'
  BY <1>3 DEF NoCall, OneCall, CallsOnce
<1>4. ASSUME NEW what \in Calls, NEW v, Running(what), Passive(Tail(jobs), jobs'), Reply(v)
      PROVE  jobs' \in Seq(JobSet) /\ OneCall'
  BY <1>3, <1>4, CallFacts, NoCallKept, PassiveType
<1>5. ASSUME NEW what \in Calls, Answered(what), Passive(jobs, jobs'), blocked' = None
      PROVE  jobs' \in Seq(JobSet) /\ OneCall'
  BY <1>3, <1>5, CallFacts, NoCallKept, PassiveType
<1>6. ASSUME Free, NEW what \in Calls, NEW arg \in Readers \cup Nat \cup {None},
             NEW js \in Seq(JobSet), Passive(jobs, js), jobs' = Append(js, Job(what, arg)),
             Block(what)
      PROVE  jobs' \in Seq(JobSet) /\ OneCall'
  <2>1. NoCall(js)
    BY <1>6, CallFacts, NoCallKept
  <2>2. Job(what, arg) \in JobSet /\ Job(what, arg).job = what
    BY JobTypes
  <2> DEFINE j == Job(what, arg)
  <2> HIDE DEF j
  <2>3. jobs' = Append(js, j) /\ j \in JobSet /\ j.job = what
    BY <1>6, <2>2 DEF j
  <2>4. /\ jobs' \in Seq(JobSet)
        /\ \A i \in DOMAIN jobs' : \/ i \in DOMAIN js /\ jobs'[i] = js[i]
                                   \/ i = Len(js) + 1 /\ jobs'[i] = j
    <3> DEFINE all == Append(js, j)
    <3>1. /\ all \in Seq(JobSet)
          /\ \A i \in DOMAIN js : all[i] = js[i]
          /\ all[Len(js) + 1] = j
          /\ \A i \in DOMAIN all : i \in DOMAIN js \/ i = Len(js) + 1
      BY <2>3, Appended
    <3>2. jobs' = all
      BY <2>3
    <3> HIDE DEF all
    <3> QED BY <3>1, <3>2
  <2>5. \A i \in DOMAIN jobs' : Calling(jobs'[i]) => i = Len(js) + 1 /\ jobs'[i] = j
    BY <2>1, <2>4 DEF NoCall
  <2>6. blocked' = [call |-> what, reply |-> None] /\ blocked' # None
    <3>1. [call |-> what, reply |-> None] \in [call : Calls, reply : {None}]
      OBVIOUS
    <3> QED BY <1>6, <3>1, ReaderManagerAssumption DEF Block
  <2>7. CallsOnce(jobs)'
    BY <2>5 DEF CallsOnce
  <2> QED BY <2>3, <2>4, <2>5, <2>6, <2>7 DEF OneCall, Waits
<1>7. ASSUME Free, jobs' = Append(jobs, Job("start", None)), blocked' = blocked
      PROVE  jobs' \in Seq(JobSet) /\ OneCall'
  <2>1. NoCall(jobs)
    BY <1>7, CallFacts
  <2>2. Job("start", None) \in JobSet /\ Job("start", None).job = "start"
    BY JobTypes
  <2> DEFINE j == Job("start", None)
  <2> HIDE DEF j
  <2>3. jobs' = Append(jobs, j) /\ j \in JobSet /\ ~Calling(j)
    BY <1>7, <2>2 DEF j, Calling, Calls
  <2>4. /\ jobs' \in Seq(JobSet)
        /\ \A i \in DOMAIN jobs' : \/ i \in DOMAIN jobs /\ jobs'[i] = jobs[i]
                                   \/ jobs'[i] = j
    BY <1>1, <2>3, Appended
  <2>5. NoCall(jobs') /\ blocked' = None
    BY <1>7, <2>1, <2>3, <2>4 DEF NoCall, Free
  <2> QED BY <1>3, <2>4, <2>5
<1> QED BY <1>2, <1>4, <1>5, <1>6, <1>7 DEF CallStep

LEMMA NoStartStep == ASSUME TypeOK, OneCall, NoStartAfter(jobs), CallStep PROVE NoStartAfter(jobs)'
<1>1. jobs \in Seq(JobSet)
  BY DEF TypeOK
<1>2. ASSUME jobs # <<>> PROVE NoStartAfter(Tail(jobs))
  BY <1>1, <1>2, PassiveOperations DEF Passive
<1>3. CASE Passive(jobs, jobs')
  BY <1>3 DEF Passive
<1>4. CASE jobs # <<>> /\ Passive(Tail(jobs), jobs')
  BY <1>2, <1>4 DEF Passive
<1>5. ASSUME NEW what \in Calls, NEW arg \in Readers \cup Nat \cup {None},
             NEW js \in Seq(JobSet), Passive(jobs, js), jobs' = Append(js, Job(what, arg))
      PROVE  NoStartAfter(jobs)'
  <2> DEFINE j == Job(what, arg)
  <2>1. j \in JobSet /\ j.job # "start"
    BY JobTypes DEF Calls
  <2> HIDE DEF j
  <2>2. NoStartAfter(js)
    BY <1>5 DEF Passive
  <2>3. /\ \A i \in DOMAIN jobs' : \/ i \in DOMAIN js /\ jobs'[i] = js[i]
                                   \/ i = Len(js) + 1 /\ jobs'[i] = j
        /\ \A i \in DOMAIN js : i <= Len(js) /\ i \in Nat
        /\ Len(js) \in Nat
    <3> DEFINE all == Append(js, j)
    <3>1. /\ \A i \in DOMAIN js : all[i] = js[i] /\ i <= Len(js)
          /\ all[Len(js) + 1] = j /\ DOMAIN js \subseteq Nat /\ Len(js) \in Nat
          /\ \A i \in DOMAIN all : i \in DOMAIN js \/ i = Len(js) + 1
      BY <2>1, Appended
    <3>2. jobs' = all
      BY <1>5 DEF j
    <3> HIDE DEF all
    <3> QED BY <3>1, <3>2
  <2>4. ASSUME NEW i \in DOMAIN jobs', NEW k \in DOMAIN jobs', i < k, jobs'[i].job = "shutdown",
               jobs'[k].job = "start"
        PROVE  FALSE
    <3>1. k \in DOMAIN js /\ jobs'[k] = js[k]
      BY <2>1, <2>3, <2>4
    <3>2. i \in DOMAIN js /\ jobs'[i] = js[i]
      BY <2>3, <2>4, <3>1
    <3> QED BY <2>2, <2>4, <3>1, <3>2 DEF NoStartAfter
  <2> QED BY <2>4 DEF NoStartAfter
<1>6. CASE Free /\ jobs' = Append(jobs, Job("start", None))
  <2>1. NoCall(jobs)
    BY <1>6, CallFacts
  <2> DEFINE j == Job("start", None)
  <2>2. j \in JobSet /\ j.job = "start"
    BY JobTypes
  <2> HIDE DEF j
  <2>3. \A i \in DOMAIN jobs' : \/ i \in DOMAIN jobs /\ jobs'[i] = jobs[i]
                                \/ jobs'[i] = j
    BY <1>1, <1>6, <2>2 DEF j
  <2>4. \A i \in DOMAIN jobs' : jobs'[i].job # "shutdown"
    BY <2>1, <2>2, <2>3 DEF NoCall, Calling, Calls
  <2> QED BY <2>4 DEF NoStartAfter
<1> QED BY <1>3, <1>4, <1>5, <1>6 DEF CallStep, Running
-----------------------------------------------------------------------------
(* The end *)

\* What a step does with the plug-in
PlugInStep ==
    /\ running' = running \/ (~running' /\ Answered("shutdown") /\ known' = known)
    /\ \/ known' = known /\ scanning' = scanning
       \/ known' = {} /\ (scanning' => scanning)
       \/ Running("start") /\ known' = known
       \/ running /\ scanning /\ scanning' = scanning

LEMMA PlugInSteps == ASSUME ReaderManagerNext PROVE PlugInStep
<1>1. CASE ReaderThread
  <2>1. running' = running
    BY <1>1 DEF ReaderThread, StartScan, StopScan, CreateWorker, DestroyWorker, EndExamination,
                UseCard, GetReaderInfos, GetReaderInfo, UpdateReaderInfo, ShutDownWorker,
                mainThread
  <2>2. CASE StartScan
    BY <2>1, <2>2 DEF StartScan, PlugInStep
  <2>3. CASE StopScan \/ ShutDownWorker
    BY <2>1, <2>3 DEF StopScan, ShutDownWorker, KeepOnly, PlugInStep
  <2>4. CASE \/ CreateWorker \/ DestroyWorker \/ EndExamination \/ UseCard \/ GetReaderInfos
             \/ GetReaderInfo \/ UpdateReaderInfo
    <3>1. known' = known /\ scanning' = scanning
      BY <2>4 DEF CreateWorker, DestroyWorker, EndExamination, UseCard, GetReaderInfos,
                  GetReaderInfo, UpdateReaderInfo, readers
    <3> QED BY <2>1, <3>1 DEF PlugInStep
  <2> QED BY <1>1, <2>2, <2>3, <2>4 DEF ReaderThread
<1>2. CASE Timers \/ RestartPlugIn
  BY <1>2 DEF Timers, UpdateReaders, Poll, RestartPlugIn, KeepOnly, PlugInStep
<1>3. CASE MainThread
  <2>1. known' = known /\ scanning' = scanning
    BY <1>3 DEF MainThread, FullUpdate, FullUpdateDone, NewsArrives, ExecuteCommand,
                NoConnection, NewConnection, ConnectionMade, DeleteCommand, Resume,
                readerSide, plugIn
  <2>2. running' = running \/ (~running' /\ Answered("shutdown"))
    BY <1>3 DEF MainThread, FullUpdate, FullUpdateDone, NewsArrives, ExecuteCommand,
                NoConnection, NewConnection, ConnectionMade, DeleteCommand, Resume
  <2> QED BY <2>1, <2>2 DEF PlugInStep
<1>4. CASE Program \/ Environment
  BY <1>4 DEF Program, Call, GiveUp, Use, Scan, ShutDown, Environment, PlugIn, Unplug, PutCard,
              TakeCard, software, readerSide, plugIn, PlugInStep
<1> QED BY <1>1, <1>2, <1>3, <1>4 DEF ReaderManagerNext

LEMMA StoppingStep ==
    ASSUME TypeOK, OneCall, Stopping, CallStep, PlugInStep PROVE Stopping'
<1>1. NoStartAfter(jobs)'
  BY NoStartStep DEF Stopping
<1>2. ASSUME ~running' PROVE known' = {}
  <2>1. CASE running
    BY <1>2, <2>1 DEF PlugInStep, Stopping, Answered, Waits
  <2>2. CASE ~running
    BY <2>2 DEF PlugInStep, Stopping, Running
  <2> QED BY <2>1, <2>2
<1>3. ASSUME Waits("shutdown")', blocked'.reply # None
      PROVE  known' = {} /\ ~scanning' /\ \A i \in DOMAIN jobs' : jobs'[i].job # "start"
  <2>1. CASE Passive(jobs, jobs') /\ blocked' = blocked
    <3>1. known = {} /\ ~scanning /\ \A i \in DOMAIN jobs : jobs[i].job # "start"
      BY <1>3, <2>1 DEF Stopping, Waits
    <3>2. ~Running("start")
      <4> SUFFICES ASSUME Running("start") PROVE FALSE
        OBVIOUS
      <4>1. jobs \in Seq(JobSet) /\ jobs # <<>> /\ Head(jobs).job = "start"
        BY DEF Running, TypeOK
      <4>2. 1 \in DOMAIN jobs /\ Head(jobs) = jobs[1]
        BY <4>1, TailIsThinned
      <4> QED BY <3>1, <4>1, <4>2
    <3>3. known' = {} /\ ~scanning'
      BY <3>1, <3>2 DEF PlugInStep
    <3> QED BY <2>1, <3>1, <3>3 DEF Passive
  <2>2. ASSUME NEW what \in Calls, NEW v, Running(what), Passive(Tail(jobs), jobs'), Reply(v),
               what = "shutdown" => known' = {} /\ ~scanning'
        PROVE  known' = {} /\ ~scanning' /\ \A i \in DOMAIN jobs' : jobs'[i].job # "start"
    <3>1. what = "shutdown"
      <4>1. blocked' = [call |-> what, reply |-> v]
        BY <2>2, CallFacts
      <4> QED BY <1>3, <4>1 DEF Waits
    <3>2. jobs \in Seq(JobSet) /\ jobs # <<>> /\ Head(jobs).job = "shutdown"
      BY <2>2, <3>1 DEF Running, TypeOK
    <3>3. /\ 1 \in DOMAIN jobs /\ jobs[1].job = "shutdown"
          /\ \A i \in DOMAIN Tail(jobs) : /\ i \in Nat \ {0} /\ i + 1 \in DOMAIN jobs
                                          /\ Tail(jobs)[i] = jobs[i + 1]
      BY <3>2, TailIsThinned
    <3>4. \A i \in DOMAIN Tail(jobs) : Tail(jobs)[i].job # "start"
      BY <3>3 DEF Stopping, NoStartAfter
    <3>5. \A i \in DOMAIN jobs' : jobs'[i].job # "start"
      BY <2>2, <3>4 DEF Passive
    <3> QED BY <2>2, <3>1, <3>5
  <2>3. blocked' # None
    BY <1>3 DEF Waits
  <2>4. ASSUME NEW what, Block(what) PROVE FALSE
    BY <1>3, <2>4 DEF Block
  <2> QED BY <2>1, <2>2, <2>3, <2>4 DEF CallStep, Free
<1> QED BY <1>1, <1>2, <1>3 DEF Stopping
-----------------------------------------------------------------------------
(* What the reader thread tells *)

Heard(new) ==
    \A r \in Readers : \/ Silent(new, r) /\ Value(r)' = Value(r)
                       \/ ~Silent(new, r) /\ Latest(new, r, Value(r)')
Tells(new) ==
    /\ new \in Seq(EventSet) /\ events' = events \o new
    /\ ToldHold(new, conn) /\ Heard(new)
    /\ \A r \in Readers : linked'[r] => r \in known'
    /\ ~CreateWorker => \A i \in DOMAIN new : new[i].type # "created"

LEMMA NothingTold ==
    ASSUME TypeOK, events' = events, \A r \in Readers : Value(r)' = Value(r),
           \A r \in Readers : linked'[r] => r \in known'
    PROVE  Tells(<<>>)
<1>1. events \in Seq(EventSet) /\ <<>> \in Seq(EventSet) /\ DOMAIN <<>> = {}
  BY DEF TypeOK
<1>2. events \o <<>> = events
  BY <1>1
<1>3. \A r : Silent(<<>>, r)
  BY <1>1 DEF Silent
<1> QED BY <1>1, <1>2, <1>3 DEF Tells, ToldHold, Heard

\* Signals that are about no reader
LEMMA QuietSignals ==
    ASSUME NEW new \in Seq(EventSet), \A i \in DOMAIN new : new[i].type # "news"
    PROVE  ToldHold(new, conn) /\ \A r : Silent(new, r)
BY DEF ToldHold, Silent, IsNews

LEMMA OneNews ==
    ASSUME TypeOK, NEW r \in Readers, NEW i \in Nat
    PROVE  LET new == <<News("changed", r, i, Told(r))>>
           IN  /\ new \in Seq(EventSet) /\ ToldHold(new, conn)
               /\ \A k \in DOMAIN new : new[k].type # "created"
               /\ \A x \in Readers \ {r} : Silent(new, x)
               /\ ~Silent(new, r) /\ Latest(new, r, i)
               /\ Append(events, News("changed", r, i, Told(r))) = events \o new
<1> DEFINE e == News("changed", r, i, Told(r))
           new == <<e>>
<1>1. /\ e \in NewsSet /\ e.type = "news" /\ e.reader = r /\ Says(e) = i /\ e.told = Told(r)
  BY DEF News, NewsSet, Told, Says
<1>2. e \in EventSet
  BY <1>1, EventTypes
<1> HIDE DEF e
<1>3. /\ new \in Seq(EventSet) /\ DOMAIN new = {1} /\ new[1] = e
      /\ Append(events, e) = events \o new
  BY <1>2 DEF TypeOK
<1> HIDE DEF new
<1>4. ToldHold(new, conn)
  BY <1>1, <1>3 DEF ToldHold, Told
<1>5. /\ \A k \in DOMAIN new : new[k].type # "created"
      /\ \A x \in Readers \ {r} : Silent(new, x)
      /\ ~Silent(new, r) /\ Latest(new, r, i)
  BY <1>1, <1>3 DEF Silent, Latest, IsNews
<1> QED BY <1>3, <1>4, <1>5 DEF new, e

\* The reader of a card that is examined or changed
LEMMA NewsTold ==
    ASSUME TypeOK, CacheFollows, NEW r \in known, NEW i \in Nat,
           known' = known, info' = [info EXCEPT ![r] = i],
           \A x \in Readers : linked'[x] => linked[x] \/ x = r,
           events' = Append(events, News("changed", r, i, Told(r)))
    PROVE  Tells(<<News("changed", r, i, Told(r))>>)
<1> DEFINE new == <<News("changed", r, i, Told(r))>>
<1>1. r \in Readers
  BY DEF TypeOK
<1>2. /\ new \in Seq(EventSet) /\ ToldHold(new, conn)
      /\ \A k \in DOMAIN new : new[k].type # "created"
      /\ \A x \in Readers \ {r} : Silent(new, x)
      /\ ~Silent(new, r) /\ Latest(new, r, i)
      /\ events' = events \o new
  BY <1>1, OneNews
<1> HIDE DEF new
<1>3. Value(r)' = i /\ \A x \in Readers \ {r} : Value(x)' = Value(x)
  BY <1>1 DEF Value, TypeOK
<1>4. Heard(new)
  BY <1>2, <1>3 DEF Heard
<1>5. \A x \in Readers : linked'[x] => x \in known'
  BY DEF CacheFollows
<1>6. Tells(new)
  BY <1>2, <1>4, <1>5 DEF Tells
<1> QED BY <1>6 DEF new

\* The plug-in stops, and signals of its state may follow.
LEMMA StopTold ==
    ASSUME TypeOK, KeepOnly({}), NEW more \in Seq({Status}),
           events' = (events \o StopSignals) \o more
    PROVE  Tells(StopSignals \o more)
<1> DEFINE stop == StopSignals
           new == stop \o more
<1>1. known \in SUBSET Readers /\ events \in Seq(EventSet)
  BY DEF TypeOK
<1>2. /\ stop \in Seq(EventSet)
      /\ \A i \in DOMAIN stop : /\ stop[i].type # "created"
                                /\ stop[i].type = "news" => stop[i].told = {}
      /\ \A r \in Readers \ known : Silent(stop, r)
      /\ \A r \in known : ~Silent(stop, r) /\ Latest(stop, r, Absent)
  BY <1>1, StoppingSignals
<1>3. /\ more \in Seq(EventSet) /\ \A i \in DOMAIN more : more[i].type = "status"
      /\ \A r \in Readers : Silent(more, r)
  BY StatusSignals
<1> HIDE DEF stop
<1>4. /\ new \in Seq(EventSet)
      /\ \A i \in DOMAIN stop : new[i] = stop[i]
      /\ \A i \in DOMAIN more : new[Len(stop) + i] = more[i]
      /\ \A i \in DOMAIN new : i \in DOMAIN stop \/ \E k \in DOMAIN more : i = Len(stop) + k
  <2> SUFFICES ASSUME NEW es \in Seq(EventSet), NEW fs \in Seq(EventSet)
               PROVE  /\ es \o fs \in Seq(EventSet)
                      /\ \A i \in DOMAIN es : (es \o fs)[i] = es[i]
                      /\ \A i \in DOMAIN fs : (es \o fs)[Len(es) + i] = fs[i]
                      /\ \A i \in DOMAIN (es \o fs) :
                             i \in DOMAIN es \/ \E k \in DOMAIN fs : i = Len(es) + k
    BY <1>2, <1>3
  <2> QED BY Joined
<1>5. /\ \A r \in Readers : Silent(new, r) => Silent(stop, r)
      /\ \A r \in Readers : \A v : Latest(stop, r, v) => Latest(new, r, v)
  BY <1>2, <1>3, MoreEvents
<1>6. events' = events \o new
  <2>1. events' = (events \o stop) \o more
    BY DEF stop
  <2> QED BY <1>1, <1>2, <1>3, <2>1
<1> HIDE DEF new
<1>7. \A i \in DOMAIN new : new[i].type # "created" /\ (new[i].type = "news" => new[i].told = {})
  BY <1>2, <1>3, <1>4
<1>8. ToldHold(new, conn)
  BY <1>7 DEF ToldHold
<1>9. \A r \in Readers \ known : Silent(new, r)
  BY <1>2, <1>3, <1>4 DEF Silent
<1>10. known' = {} /\ \A r \in Readers : ~linked'[r]
  BY DEF KeepOnly
<1>11. \A r \in Readers : Value(r)' = Absent /\ (r \notin known => Value(r) = Absent)
  BY <1>10 DEF Value
<1>12. Heard(new)
  BY <1>1, <1>2, <1>5, <1>9, <1>11 DEF Heard
<1>13. Tells(new)
  BY <1>4, <1>6, <1>7, <1>8, <1>10, <1>12 DEF Tells
<1> QED BY <1>13 DEF new, stop

LEMMA HeadJob ==
    ASSUME TypeOK, jobs # <<>>
    PROVE  /\ Head(jobs) \in JobSet /\ 1 \in DOMAIN jobs /\ Head(jobs) = jobs[1]
           /\ Tail(jobs) \in Seq(JobSet) /\ Thinned(jobs, Tail(jobs))
           /\ WorkersOwned /\ Holding(Head(jobs)) => Head(jobs).arg \in DOMAIN workers
<1>1. jobs \in Seq(JobSet)
  BY DEF TypeOK
<1>2. /\ 1 \in DOMAIN jobs /\ Head(jobs) = jobs[1] /\ Head(jobs) \in JobSet
      /\ Tail(jobs) \in Seq(JobSet) /\ Thinned(jobs, Tail(jobs))
  BY <1>1, TailIsThinned
<1>3. WorkersOwned /\ Holding(Head(jobs)) => Head(jobs).arg \in DOMAIN workers
  BY <1>2 DEF WorkersOwned, Owned
<1> QED BY <1>2, <1>3

LEMMA ReadersAddedTold == ASSUME TypeOK, CacheFollows, UpdateReaders PROVE \E new : Tells(new)
<1> DEFINE gone == Removals(known \ plugged)
           added == plugged \ known
           came == Additions(added, slot)
           new == gone \o came
<1>1. /\ known \in SUBSET Readers /\ plugged \in SUBSET Readers /\ slot \in [Readers -> Nat]
      /\ events \in Seq(EventSet) /\ added \in SUBSET Readers
  BY DEF TypeOK
<1>2. /\ gone \in Seq(EventSet)
      /\ \A i \in DOMAIN gone : gone[i].type = "news" /\ gone[i].told = {}
      /\ \A r \in Readers \ (known \ plugged) : Silent(gone, r)
      /\ \A r \in known \ plugged : ~Silent(gone, r) /\ Latest(gone, r, Absent)
  BY <1>1, RemovalSignals
<1>3. /\ came \in Seq(EventSet)
      /\ \A i \in DOMAIN came : came[i].type = "news" /\ came[i].told = {}
      /\ \A r \in Readers \ added : Silent(came, r)
      /\ \A r \in added : ~Silent(came, r) /\ Latest(came, r, slot[r])
  <2> HIDE DEF added
  <2> QED BY <1>1, AdditionSignals
<1>4. events' = (events \o gone) \o came
  BY DEF UpdateReaders
<1>5. /\ known' = plugged
      /\ info' = [r \in Readers |-> IF r \in added THEN slot[r]
                                    ELSE IF r \in plugged THEN info[r] ELSE 0]
      /\ \A r \in Readers : linked'[r] => r \in added \/ (linked[r] /\ r \in plugged)
  BY DEF UpdateReaders
<1> HIDE DEF gone, came
<1>6. /\ new \in Seq(EventSet)
      /\ \A i \in DOMAIN gone : new[i] = gone[i]
      /\ \A i \in DOMAIN came : new[Len(gone) + i] = came[i]
      /\ \A i \in DOMAIN new : i \in DOMAIN gone \/ \E k \in DOMAIN came : i = Len(gone) + k
  BY <1>2, <1>3, Joined
<1>7. /\ \A r \in Readers : Silent(new, r) => Silent(gone, r) /\ Silent(came, r)
      /\ \A r \in Readers : Silent(came, r) => \A v : Latest(gone, r, v) => Latest(new, r, v)
      /\ \A r \in Readers : ~Silent(came, r) => \A v : Latest(came, r, v) => Latest(new, r, v)
  BY <1>2, <1>3, MoreEvents
<1>8. events' = events \o new
  BY <1>1, <1>2, <1>3, <1>4
<1> HIDE DEF new
<1>9. \A i \in DOMAIN new : new[i].type = "news" /\ new[i].told = {}
  BY <1>2, <1>3, <1>6
<1>10. ToldHold(new, conn)
  BY <1>9 DEF ToldHold
<1>11. ASSUME NEW r \in Readers
       PROVE  \/ Silent(new, r) /\ Value(r)' = Value(r)
              \/ ~Silent(new, r) /\ Latest(new, r, Value(r)')
  <2>1. CASE r \in added
    BY <1>3, <1>5, <1>7, <2>1 DEF Value
  <2>2. CASE r \in known \ plugged
    <3>1. Value(r)' = Absent /\ Silent(came, r)
      BY <1>3, <1>5, <2>2 DEF Value
    <3> QED BY <1>2, <1>7, <2>2, <3>1
  <2>3. CASE r \notin added /\ r \notin known \ plugged
    <3>1. Value(r)' = Value(r)
      BY <1>5, <2>3 DEF Value
    <3>2. Silent(gone, r) /\ Silent(came, r)
      BY <1>2, <1>3, <2>3
    <3>3. Silent(new, r)
      BY <1>6, <3>2 DEF Silent
    <3> QED BY <3>1, <3>3
  <2> QED BY <2>1, <2>2, <2>3
<1>12. \A r \in Readers : linked'[r] => r \in known'
  BY <1>5
<1>13. Tells(new)
  BY <1>6, <1>8, <1>9, <1>10, <1>11, <1>12 DEF Tells, Heard
<1> QED BY <1>13

LEMMA ReaderThreadTells ==
    ASSUME TypeOK, WorkersOwned, CacheFollows,
           ReaderThread \/ Timers \/ RestartPlugIn \/ Environment
    PROVE  \E new : Tells(new)
<1>1. /\ events \in Seq(EventSet) /\ known \in SUBSET Readers /\ linked \in [Readers -> BOOLEAN]
      /\ plugged \in SUBSET Readers /\ slot \in [Readers -> Nat] /\ changes \in Nat
      /\ info \in [Readers -> Nat]
  BY DEF TypeOK
<1>2. \A r \in Readers : linked[r] => r \in known
  BY DEF CacheFollows
<1>3. ASSUME known' = known, info' = info, events' = events,
             \A r \in Readers : linked'[r] => r \in known
      PROVE  \E new : Tells(new)
  <2>1. \A r \in Readers : Value(r)' = Value(r)
    BY <1>3 DEF Value
  <2> QED BY <1>3, <2>1, NothingTold
<1>4. ASSUME NEW r \in known, Noticed(r), UpdateCard(r), known' = known PROVE \E new : Tells(new)
  <2>1. slot[r] \in Nat /\ r \in Readers
    BY <1>1
  <2>2. \A x \in Readers : linked'[x] => linked[x] \/ x = r
    BY <1>1, <1>4 DEF UpdateCard
  <2> QED BY <1>4, <2>1, <2>2, NewsTold DEF UpdateCard
<1>5. ASSUME NEW new \in Seq(EventSet), \A i \in DOMAIN new : new[i].type # "news",
             ~CreateWorker => \A i \in DOMAIN new : new[i].type # "created",
             events' = events \o new, known' = known, info' = info,
             \A r \in Readers : linked'[r] => r \in known
      PROVE  Tells(new)
  <2>1. \A r \in Readers : Value(r)' = Value(r)
    BY <1>5 DEF Value
  <2> QED BY <1>5, <2>1, QuietSignals DEF Tells, Heard
<1>6. CASE StartScan
  <2>1. PICK ok : events' = events \o StartSignals(ok, scanning)
    BY <1>6 DEF StartScan
  <2> DEFINE new == StartSignals(ok, scanning)
  <2>2. new \in Seq(EventSet) /\ \A i \in DOMAIN new : new[i].type = "status"
    BY StartingSignals, StatusSignals
  <2>3. known' = known /\ info' = info /\ linked' = linked
    BY <1>6 DEF StartScan
  <2> HIDE DEF new
  <2>4. events' = events \o new
    BY <2>1 DEF new
  <2> QED BY <1>2, <1>5, <2>2, <2>3, <2>4
<1>7. CASE StopScan \/ ShutDownWorker
  <2>1. KeepOnly({}) /\ events' = events \o StopSignals
    BY <1>7 DEF StopScan, ShutDownWorker
  <2>2. StopSignals \in Seq(EventSet) /\ <<>> \in Seq({Status})
    BY <1>1, StoppingSignals
  <2>3. events' = (events \o StopSignals) \o <<>>
    <3> DEFINE all == events \o StopSignals
    <3>1. all \in Seq(EventSet)
      BY <1>1, <2>2
    <3> HIDE DEF all
    <3>2. all \o <<>> = all
      BY <3>1
    <3> QED BY <2>1, <3>2 DEF all
  <2> QED BY <2>1, <2>2, <2>3, StopTold
<1>8. CASE CreateWorker
  <2>1. PICK w \in Nat \cup {None} :
            /\ events' = events \o Broadcast(w)
            /\ \/ linked' = linked
               \/ /\ Connectable(Head(jobs).arg)
                  /\ linked' = [linked EXCEPT ![Head(jobs).arg] = TRUE]
    <3>1. Fresh \in Nat
      BY FreshWorker DEF TypeOK
    <3> QED BY <1>8, <3>1 DEF CreateWorker, Leave
  <2> DEFINE new == Broadcast(w)
  <2>2. new \in Seq(EventSet) /\ \A i \in DOMAIN new : new[i].type = "created"
    BY BroadcastSignals
  <2>3. known' = known /\ info' = info
    BY <1>8 DEF CreateWorker, readers
  <2>4. \A r \in Readers : linked'[r] => r \in known
    BY <1>1, <1>2, <2>1 DEF Connectable
  <2> HIDE DEF new
  <2>5. events' = events \o new
    BY <2>1 DEF new
  <2> QED BY <1>5, <1>8, <2>2, <2>3, <2>4, <2>5
<1>9. CASE DestroyWorker \/ EndExamination
  <2>1. \A r \in Readers : linked'[r] => linked[r]
    BY <1>1, <1>9 DEF DestroyWorker, EndExamination, Disconnected
  <2>2. known' = known /\ info' = info /\ events' = events
    BY <1>9 DEF DestroyWorker, EndExamination, readers
  <2> QED BY <1>2, <1>3, <2>1, <2>2
<1>10. CASE UseCard
  <2> DEFINE r == workers[Head(jobs).arg]
  <2>1. known' = known /\ linked' = linked
    BY <1>10 DEF UseCard
  <2>2. CASE /\ r # None /\ linked[r] /\ info' = [info EXCEPT ![r] = (changes + 1) + 1]
             /\ events' = Append(events, News("changed", r, (changes + 1) + 1, Told(r)))
    <3>1. Head(jobs).arg \in DOMAIN workers
      BY <1>10, HeadJob DEF UseCard, Running, Holding
    <3>2. r \in Readers
      BY <2>2, <3>1 DEF TypeOK
    <3> HIDE DEF r
    <3>3. r \in known /\ (changes + 1) + 1 \in Nat
      BY <1>1, <1>2, <2>2, <3>2
    <3> QED BY <2>1, <2>2, <3>3, NewsTold
  <2>3. CASE info' = info /\ events' = events
    BY <1>2, <1>3, <2>1, <2>3
  <2> QED BY <1>10, <2>2, <2>3 DEF UseCard, Leave
<1>11. CASE GetReaderInfos \/ GetReaderInfo
  <2>1. known' = known /\ info' = info /\ linked' = linked /\ events' = events
    BY <1>11 DEF GetReaderInfos, GetReaderInfo, readers
  <2> QED BY <1>2, <1>3, <2>1
<1>12. CASE UpdateReaderInfo
  <2>1. known' = known
    BY <1>12 DEF UpdateReaderInfo, readers
  <2>2. CASE Noticed(Head(jobs).arg) /\ UpdateCard(Head(jobs).arg)
    BY <1>4, <2>1, <2>2 DEF Noticed
  <2>3. CASE info' = info /\ linked' = linked /\ events' = events
    BY <1>2, <1>3, <2>1, <2>3
  <2> QED BY <1>12, <2>2, <2>3 DEF UpdateReaderInfo
<1>13. CASE \E r \in Readers : Poll(r)
  BY <1>4, <1>13 DEF Poll, Noticed
<1>14. CASE RestartPlugIn
  <2>1. PICK ok : events' = events \o StopSignals \o StartSignals(ok, FALSE)
    BY <1>14 DEF RestartPlugIn
  <2>2. KeepOnly({}) /\ StartSignals(ok, FALSE) \in Seq({Status})
    BY <1>14, StartingSignals DEF RestartPlugIn
  <2> QED BY <2>1, <2>2, StopTold
<1>15. CASE Environment
  <2>1. known' = known /\ info' = info /\ linked' = linked /\ events' = events
    BY <1>15 DEF Environment, PlugIn, Unplug, PutCard, TakeCard, software, plugIn
  <2> QED BY <1>2, <1>3, <2>1
<1> QED
  BY <1>6, <1>7, <1>8, <1>9, <1>10, <1>11, <1>12, <1>13, <1>14, <1>15, ReadersAddedTold
  DEF ReaderThread, Timers
-----------------------------------------------------------------------------
(* The answer the main thread waits for *)

LEMMA TellsHead ==
    ASSUME TypeOK, NEW new, Tells(new), events # <<>>
    PROVE  events' # <<>> /\ Head(events') = Head(events)
<1>1. events \in Seq(EventSet) /\ new \in Seq(EventSet) /\ events' = events \o new
  BY DEF TypeOK, Tells
<1>2. /\ 1 \in DOMAIN events /\ Head(events) = events[1] /\ events' \in Seq(EventSet)
      /\ 1 \in DOMAIN events' /\ events'[1] = events[1]
  BY <1>1, Joined, TailIsThinned
<1>3. events' # <<>>
  BY <1>2
<1>4. Head(events') = events'[1]
  BY <1>2, <1>3, TailIsThinned
<1> QED BY <1>2, <1>3, <1>4

LEMMA NotAwaited ==
    ASSUME OneCall', ~Waits("info")', ~Waits("infos")' PROVE Awaited'
<1>1. \A i \in DOMAIN jobs' : jobs'[i].job # "info"
  BY DEF OneCall, Calling, Calls
<1> QED BY <1>1 DEF Awaited

LEMMA StillAwaited ==
    ASSUME TypeOK, OneCall, Awaited, OneCall', NEW new, Tells(new), Passive(jobs, jobs'),
           blocked # None, blocked' # None, blocked'.call = blocked.call,
           blocked'.reply # None => \/ blocked'.reply = blocked.reply
                                    \/ Waits("infos") /\ blocked'.reply \in [Readers -> Int]
                                    \/ /\ Waits("info")
                                       /\ \A x \in DOMAIN blocked'.reply : blocked'.reply[x] \in Nat
    PROVE  Awaited'
<1>1. \A what : Waits(what)' <=> Waits(what)
  BY DEF Waits
<1>2. Waits("info") \/ Waits("infos") => events' # <<>> /\ Head(events') = Head(events)
  BY TellsHead DEF Awaited
<1>3. Waits("infos")' =>
          /\ events' # <<>> /\ Head(events').type = "status"
          /\ blocked'.reply # None => blocked'.reply \in [Readers -> Int]
  BY <1>1, <1>2 DEF Awaited, Waits
<1>4. Waits("info")' =>
          /\ events' # <<>> /\ Head(events').type = "created" /\ Head(events').worker # None
          /\ blocked'.reply # None => \A x \in DOMAIN blocked'.reply : blocked'.reply[x] \in Nat
  BY <1>1, <1>2 DEF Awaited, Waits
<1>5. ASSUME NEW i \in DOMAIN jobs', jobs'[i].job = "info"
      PROVE  jobs'[i].arg = Head(events').worker
  <2>1. PICK k \in DOMAIN jobs : jobs[k] = jobs'[i]
    BY <1>5 DEF Passive, Calling, Calls
  <2>2. Waits("info") /\ jobs[k].arg = Head(events).worker
    BY <1>5, <2>1 DEF OneCall, Awaited, Calling, Calls
  <2> QED BY <1>2, <2>1, <2>2
<1> QED BY <1>3, <1>4, <1>5 DEF Awaited

LEMMA AwaitedReader ==
    ASSUME TypeOK, WorkersOwned, CacheFollows, OneCall, Awaited, CallStep, OneCall',
           ReaderThread \/ Timers \/ RestartPlugIn \/ Environment
    PROVE  Awaited'
<1>1. PICK new : Tells(new)
  BY ReaderThreadTells
<1>2. ASSUME NEW what \in Calls, Running(what)
      PROVE  /\ Waits(what) /\ Passive(jobs, Tail(jobs)) /\ jobs # <<>>
             /\ \A v : Reply(v) => blocked' = [call |-> what, reply |-> v]
  <2>1. /\ Waits(what) /\ jobs # <<>>
        /\ \A v : Reply(v) => blocked' = [call |-> what, reply |-> v]
    BY <1>2, CallFacts
  <2> QED BY <2>1, PassiveOperations DEF TypeOK
<1>3. CASE GetReaderInfos
  <2>1. Running("infos") /\ Reply(KnownInfos) /\ jobs' = Tail(jobs)
    BY <1>3 DEF GetReaderInfos
  <2>2. Waits("infos") /\ Passive(jobs, jobs') /\ blocked' = [call |-> "infos", reply |-> KnownInfos]
    BY <1>2, <2>1 DEF Calls
  <2>3. KnownInfos \in [Readers -> Int]
    BY DEF KnownInfos, TypeOK, Absent
  <2>4. blocked' = None => Awaited'
    BY NotAwaited DEF Waits
  <2> QED BY <1>1, <2>2, <2>3, <2>4, StillAwaited DEF Waits
<1>4. CASE GetReaderInfo
  <2> DEFINE r == workers[Head(jobs).arg]
             answer == [x \in {r} |-> IF r = None THEN 0 ELSE info[r]]
  <2>1. Running("info") /\ Reply(answer) /\ jobs' = Tail(jobs)
    BY <1>4 DEF GetReaderInfo
  <2>2. Waits("info") /\ Passive(jobs, jobs') /\ blocked' = [call |-> "info", reply |-> answer]
    BY <1>2, <2>1 DEF Calls
  <2>3. \A x \in DOMAIN answer : answer[x] \in Nat
    <3>1. /\ events # <<>> /\ Head(events).type = "created" /\ Head(events).worker # None
      BY <2>2 DEF Awaited
    <3>2. Head(jobs).arg = Head(events).worker
      <4>1. jobs # <<>> /\ Head(jobs).job = "info"
        BY <2>1 DEF Running
      <4>2. 1 \in DOMAIN jobs /\ Head(jobs) = jobs[1]
        BY <4>1, HeadJob
      <4> QED BY <4>1, <4>2 DEF Awaited
    <3>3. 1 \in DOMAIN events /\ Head(events) = events[1]
      BY <3>1, TailIsThinned DEF TypeOK
    <3>4. Head(events).worker \in Holders(conn, events)
      BY <3>1, <3>3 DEF Holders
    <3>5. Head(jobs).arg \in DOMAIN workers
      BY <3>1, <3>2, <3>4 DEF WorkersOwned, Owned
    <3>6. r \in Readers \cup {None}
      BY <3>5 DEF TypeOK
    <3> HIDE DEF r
    <3> QED BY <3>6 DEF TypeOK
  <2> HIDE DEF answer
  <2>4. blocked' = None => Awaited'
    BY NotAwaited DEF Waits
  <2> QED BY <1>1, <2>2, <2>3, <2>4, StillAwaited DEF Waits
<1>5. CASE UpdateReaderInfo \/ ShutDownWorker
  <2>1. PICK what \in {"update", "shutdown"} : \E v : Running(what) /\ Reply(v)
    BY <1>5 DEF UpdateReaderInfo, ShutDownWorker
  <2>2. \E v : blocked' = [call |-> what, reply |-> v]
    BY <1>2, <2>1 DEF Calls
  <2> QED BY <2>2, NotAwaited DEF Waits
<1>6. CASE blocked' = blocked
  <2>1. CASE blocked = None
    BY <1>6, <2>1, NotAwaited DEF Waits
  <2>2. CASE blocked # None
    <3>1. Passive(jobs, jobs')
      <4>1. ASSUME NEW what \in Calls, Running(what), Passive(Tail(jobs), jobs')
            PROVE  Passive(jobs, jobs')
        BY <1>2, <4>1, PassiveJobs DEF TypeOK
      <4> QED BY <1>6, <2>2, <4>1 DEF CallStep, Free
    <3> QED BY <1>1, <1>6, <2>2, <3>1, StillAwaited
  <2> QED BY <2>1, <2>2
<1>7. CASE \/ StartScan \/ StopScan \/ CreateWorker \/ DestroyWorker \/ EndExamination
           \/ UseCard \/ Timers \/ RestartPlugIn \/ Environment
  <2>1. blocked' = blocked
    BY <1>7 DEF StartScan, StopScan, CreateWorker, DestroyWorker, EndExamination, UseCard, Timers,
                UpdateReaders, Poll, RestartPlugIn, Environment, PlugIn, Unplug, PutCard, TakeCard,
                software
  <2> QED BY <1>6, <2>1
<1> QED BY <1>3, <1>4, <1>5, <1>7 DEF ReaderThread

LEMMA AwaitedMain ==
    ASSUME TypeOK, OneCall, Awaited, OneCall', MainThread \/ Program
    PROVE  Awaited'
<1>1. ASSUME blocked' = None \/ \E what \in {"update", "shutdown"} : Block(what)
      PROVE  Awaited'
  BY <1>1, NotAwaited DEF Block, Waits
<1>2. ASSUME NEW what \in {"infos", "info"}, NEW arg \in Nat \cup {None}, Free, Block(what),
             jobs' = Append(jobs, Job(what, arg)), events' = events, events # <<>>,
             what = "infos" => Head(events).type = "status",
             what = "info" => Head(events).type = "created" /\ Head(events).worker = arg /\ arg # None
      PROVE  Awaited'
  <2>1. \A i \in DOMAIN jobs' : jobs'[i].job = "info" =>
            jobs'[i].arg = Head(events').worker
    <3>1. NoCall(jobs)
      BY <1>2, CallFacts
    <3> DEFINE j == Job(what, arg)
    <3>2. j \in JobSet /\ j.job = what /\ j.arg = arg
      BY JobTypes DEF Calls
    <3> HIDE DEF j
    <3>3. jobs \in Seq(JobSet) /\ jobs' = Append(jobs, j)
      BY <1>2 DEF TypeOK, j
    <3>4. \A i \in DOMAIN jobs' : \/ i \in DOMAIN jobs /\ jobs'[i] = jobs[i]
                                  \/ jobs'[i] = j
      BY <3>2, <3>3, Appended
    <3>5. \A i \in DOMAIN jobs' : jobs'[i].job = "info" => jobs'[i] = j
      BY <3>1, <3>4 DEF NoCall, Calling, Calls
    <3> QED BY <1>2, <3>2, <3>5
  <2> QED BY <1>2, <2>1 DEF Awaited, Block, Waits
<1>3. CASE FullUpdate
  <2>1. CASE running
    BY <1>2, <1>3, <2>1 DEF FullUpdate, Arrives
  <2>2. CASE ~running
    BY <1>1, <1>3, <2>2 DEF FullUpdate, Free
  <2> QED BY <2>1, <2>2
<1>4. CASE NewConnection
  <2>1. Arrived.worker \in Nat
    <3>1. Head(events) \in EventSet
      BY <1>4, NewsHead DEF NewConnection, Arrives, TypeOK
    <3>2. Head(events) \in CreatedSet
      BY <1>4, <3>1, EventTypes DEF NewConnection, Arrives
    <3> QED BY <1>4, <3>2 DEF CreatedSet, NewConnection, Arrived
  <2> QED BY <1>2, <1>4, <2>1 DEF NewConnection, Arrives, Arrived
<1>5. CASE \/ FullUpdateDone \/ NewsArrives \/ ExecuteCommand \/ NoConnection \/ ConnectionMade
           \/ DeleteCommand \/ Resume
  <2>1. blocked' = None
    BY <1>5 DEF FullUpdateDone, NewsArrives, ExecuteCommand, NoConnection, ConnectionMade,
                DeleteCommand, Resume, Free
  <2> QED BY <1>1, <2>1
<1>6. CASE Program
  <2>1. blocked' = None \/ \E what \in {"update", "shutdown"} : Block(what)
    BY <1>6 DEF Program, Call, GiveUp, Use, Scan, ShutDown, Free
  <2> QED BY <1>1, <2>1
<1> QED BY <1>3, <1>4, <1>5, <1>6 DEF MainThread
-----------------------------------------------------------------------------
(* What the main thread does with its events and connections *)

ConnSet == [Commands -> Connection \cup {None}]

\* What is left of the events, and of those that hold a worker
EventsLeft(cn, es) ==
    /\ es \in Seq(EventSet) /\ cn \in ConnSet
    /\ Holders(cn, es) \subseteq Holders(conn, events)
    /\ ToldHold(es, cn)

LEMMA MoreLeft ==
    ASSUME NEW cn, NEW es, EventsLeft(cn, es), NEW c \in Commands,
           NEW e \in {Execute(c), Delete(c)}
    PROVE  EventsLeft(cn, Append(es, e)) /\ Same(es, Append(es, e))
<1>1. e \in EventSet /\ e.type \in {"execute", "delete"}
  BY EventTypes
<1> DEFINE new == <<e>>
<1>2. /\ es \in Seq(EventSet) /\ new \in Seq(EventSet) /\ Append(es, e) = es \o new
      /\ \A i \in DOMAIN new : new[i].type \in {"execute", "delete"}
  BY <1>1 DEF EventsLeft
<1> HIDE DEF new
<1>3. ToldHold(new, cn)
  BY <1>2 DEF ToldHold
<1>4. Same(es, es \o new) /\ es \o new \in Seq(EventSet)
  BY <1>2, OtherEvents, MoreEvents
<1>5. Holders(cn, es \o new) \subseteq Holders(cn, es) /\ ToldHold(es \o new, cn)
  BY <1>2, <1>3, EventHolders DEF EventsLeft
<1> QED BY <1>2, <1>4, <1>5 DEF EventsLeft

LEMMA FewerLeft ==
    ASSUME NEW cn, NEW es, EventsLeft(cn, es), NEW fs, Fewer(es, fs)
    PROVE  EventsLeft(cn, fs)
<1>1. Holders(cn, fs) \subseteq Holders(cn, es) /\ ToldHold(fs, cn)
  BY EventHolders DEF EventsLeft
<1> QED BY <1>1 DEF EventsLeft, Fewer

\* The connection of c is gone.
LEMMA UntoldLeft ==
    ASSUME NEW es, EventsLeft(conn, es), NEW c \in Commands
    PROVE  EventsLeft(Without(c), Untold(es, c)) /\ Same(es, Untold(es, c))
<1> DEFINE fs == Untold(es, c)
<1>1. /\ Same(es, fs) /\ Fewer(es, fs)
      /\ \A i \in DOMAIN fs : fs[i].type = "news" => c \notin fs[i].told
  BY UntoldEvents DEF EventsLeft
<1>2. EventsLeft(conn, fs)
  BY <1>1, FewerLeft
<1> HIDE DEF fs
<1>3. /\ conn \in ConnSet /\ Without(c) \in ConnSet
      /\ \A d \in Commands : Without(c)[d] = IF d = c THEN None ELSE conn[d]
  BY <1>2 DEF EventsLeft, Without, ConnSet
<1>4. Holders(Without(c), fs) \subseteq Holders(conn, fs)
  BY <1>3 DEF Holders
<1>5. ToldHold(fs, Without(c))
  <2> SUFFICES ASSUME NEW i \in DOMAIN fs, fs[i].type = "news", NEW d \in fs[i].told
               PROVE  Without(c)[d] # None
    BY DEF ToldHold
  <2>1. d \in Commands
    BY <1>2, EventTypes DEF EventsLeft, NewsSet
  <2> QED BY <1>1, <1>2, <1>3, <2>1 DEF EventsLeft, ToldHold
<1>6. EventsLeft(Without(c), fs)
  BY <1>2, <1>3, <1>4, <1>5 DEF EventsLeft
<1> QED BY <1>1, <1>6 DEF fs

LEMMA EventsNow == ASSUME TypeOK, WorkersOwned PROVE EventsLeft(conn, events)
BY DEF TypeOK, WorkersOwned, EventsLeft, ConnSet

LEMMA ArrivedEvent ==
    ASSUME TypeOK, WorkersOwned, events # <<>>
    PROVE  /\ Arrived \in EventSet /\ EventsLeft(conn, Tail(events))
           /\ Arrived.type # "news" => Same(events, Tail(events))
           /\ Arrived.type = "news" =>
                  Arrived \in NewsSet /\ \A c \in Arrived.told : c \in Commands /\ conn[c] # None
           /\ Arrived.type = "created" => /\ Arrived \in CreatedSet
                                          /\ Arrived.worker \in Holders(conn, events)
           /\ Arrived.type \in {"execute", "delete"} => Arrived.command \in Commands
<1>1. events \in Seq(EventSet) /\ 1 \in DOMAIN events /\ Head(events) = events[1]
  BY TailIsThinned DEF TypeOK
<1>2. /\ Arrived \in EventSet /\ Fewer(events, Tail(events))
      /\ Arrived.type # "news" => Same(events, Tail(events))
  BY <1>1, NewsHead DEF Arrived
<1>3. EventsLeft(conn, Tail(events))
  BY <1>2, EventsNow, FewerLeft
<1>4. ASSUME Arrived.type = "news"
      PROVE  Arrived \in NewsSet /\ \A c \in Arrived.told : c \in Commands /\ conn[c] # None
  <2>1. Arrived \in NewsSet
    BY <1>2, <1>4, EventTypes
  <2>2. \A c \in Arrived.told : c \in Commands
    BY <2>1 DEF NewsSet
  <2>3. \A c \in Arrived.told : conn[c] # None
    BY <1>1, <1>4 DEF WorkersOwned, ToldHold, Arrived
  <2> QED BY <2>1, <2>2, <2>3
<1>5. Arrived.type = "created" => Arrived.worker \in Holders(conn, events)
  BY <1>1 DEF Holders, Arrived
<1> QED BY <1>2, <1>3, <1>4, <1>5, EventTypes

\* News go to connections that are there.
LEMMA NewsLeft ==
    ASSUME TypeOK, WorkersOwned, NewsArrives PROVE EventsLeft(conn', events')
<1>1. /\ Arrived \in NewsSet /\ \A c \in Arrived.told : c \in Commands /\ conn[c] # None
      /\ EventsLeft(conn, Tail(events))
  BY ArrivedEvent DEF NewsArrives, Arrives, Arrived
<1>2. /\ conn' = [c \in Commands |-> IF c \in Arrived.told
                                     THEN [conn[c] EXCEPT !.info = Arrived.info] ELSE conn[c]]
      /\ events' = Tail(events) /\ Arrived.info \in Nat
  BY <1>1 DEF NewsArrives, NewsSet
<1>3. ASSUME NEW c \in Commands
      PROVE  /\ conn'[c] \in Connection \cup {None}
             /\ conn'[c] = None <=> conn[c] = None
             /\ conn[c] # None => conn'[c].worker = conn[c].worker
  <2>1. conn[c] \in Connection \cup {None}
    BY DEF TypeOK
  <2>2. CASE c \in Arrived.told
    <3>1. conn[c] \in Connection /\ conn'[c] = [conn[c] EXCEPT !.info = Arrived.info]
      BY <1>1, <1>2, <2>1, <2>2
    <3>2. conn'[c] \in Connection /\ conn'[c].worker = conn[c].worker
      BY <1>2, <3>1 DEF Connection
    <3>3. None \notin Connection
      BY ReaderManagerAssumption DEF Connection
    <3> QED BY <1>1, <2>2, <3>2, <3>3
  <2>3. CASE c \notin Arrived.told
    BY <1>2, <2>1, <2>3
  <2> QED BY <2>2, <2>3
<1>4. conn' \in ConnSet
  <2>1. DOMAIN conn' = Commands /\ conn' = [c \in Commands |-> conn'[c]]
    BY <1>2
  <2> QED BY <1>3, <2>1 DEF ConnSet
<1>5. Holders(conn', events') \subseteq Holders(conn, events')
  BY <1>3 DEF Holders
<1>6. ToldHold(events', conn')
  <2> SUFFICES ASSUME NEW i \in DOMAIN events', events'[i].type = "news", NEW c \in events'[i].told
               PROVE  conn'[c] # None
    BY DEF ToldHold
  <2>1. events'[i] \in NewsSet /\ conn[c] # None
    BY <1>1, <1>2, EventTypes DEF EventsLeft, ToldHold
  <2>2. c \in Commands
    BY <2>1 DEF NewsSet
  <2> QED BY <1>3, <2>1, <2>2
<1>7. /\ events' \in Seq(EventSet) /\ conn' \in ConnSet
      /\ Holders(conn', events') \subseteq Holders(conn, events)
      /\ ToldHold(events', conn')
  BY <1>1, <1>2, <1>4, <1>5, <1>6 DEF EventsLeft
<1> QED BY <1>7 DEF EventsLeft

LEMMA NewConnectionLeft ==
    ASSUME TypeOK, WorkersOwned, Awaited, ConnectionMade
    PROVE  EventsLeft(conn', events') /\ Same(events, events')
<1> DEFINE c == Arrived.command
           w == Arrived.worker
           rest == Tail(events)
           fs == Untold(rest, c)
<1>1. /\ events # <<>> /\ Arrived.type = "created" /\ Arrived.worker # None
      /\ \A x \in DOMAIN blocked.reply : blocked.reply[x] \in Nat
  BY DEF ConnectionMade, Answered, Awaited, Waits, Arrived
<1>2. /\ Arrived \in CreatedSet /\ w \in Holders(conn, events)
      /\ EventsLeft(conn, rest) /\ Same(events, rest)
  BY <1>1, ArrivedEvent
<1>3. c \in Commands /\ w \in Nat
  BY <1>1, <1>2 DEF CreatedSet
<1>4. PICK x \in DOMAIN blocked.reply :
          /\ conn' = [conn EXCEPT ![c] = [worker |-> w, info |-> blocked.reply[x]]]
          /\ events' = Append(fs, Delete(c))
  BY DEF ConnectionMade, Answer, Leave
<1> DEFINE made == [worker |-> w, info |-> blocked.reply[x]]
<1>5. made \in Connection /\ made # None /\ made.worker = w
  BY <1>1, <1>3, ReaderManagerAssumption DEF Connection
<1> HIDE DEF c, w, rest
<1>6. /\ EventsLeft(Without(c), fs) /\ Same(rest, fs)
      /\ \A i \in DOMAIN fs : fs[i].type = "news" => c \notin fs[i].told
  BY <1>2, <1>3, UntoldLeft, UntoldEvents DEF EventsLeft
<1> HIDE DEF fs, made
<1>7. /\ conn \in ConnSet /\ conn' \in ConnSet
      /\ \A d \in Commands : conn'[d] = IF d = c THEN made ELSE conn[d]
      /\ \A d \in Commands : Without(c)[d] = IF d = c THEN None ELSE conn[d]
  BY <1>3, <1>4, <1>5 DEF ConnSet, TypeOK, Without, made
<1>8. Holders(conn', fs) \subseteq Holders(Without(c), fs) \cup {w}
  BY <1>5, <1>7 DEF Holders
<1>9. ToldHold(fs, conn')
  <2> SUFFICES ASSUME NEW i \in DOMAIN fs, fs[i].type = "news", NEW d \in fs[i].told
               PROVE  conn'[d] # None
    BY DEF ToldHold
  <2>1. d \in Commands /\ Without(c)[d] # None
    BY <1>6, EventTypes DEF EventsLeft, ToldHold, NewsSet
  <2> QED BY <1>5, <1>7, <2>1
<1>10. EventsLeft(conn', fs)
  BY <1>2, <1>6, <1>7, <1>8, <1>9 DEF EventsLeft
<1>11. EventsLeft(conn', Append(fs, Delete(c))) /\ Same(fs, Append(fs, Delete(c)))
  BY <1>3, <1>10, MoreLeft
<1>12. Same(events, Append(fs, Delete(c)))
  BY <1>2, <1>6, <1>11 DEF Same
<1> QED BY <1>4, <1>11, <1>12

LEMMA MainEvents ==
    ASSUME TypeOK, WorkersOwned, Awaited, MainThread \/ Program
    PROVE  EventsLeft(conn', events') /\ (~NewsArrives => Same(events, events'))
<1> DEFINE Left == EventsLeft(conn', events') /\ Same(events, events')
<1>1. EventsLeft(conn, events) /\ \A es : Same(es, es)
  BY EventsNow DEF Same
<1>2. CASE conn' = conn /\ events' = events
  BY <1>1, <1>2
<1>3. ASSUME conn' = conn, events' = Tail(events), events # <<>>, Head(events).type # "news" PROVE Left
  BY <1>3, ArrivedEvent DEF Arrived
<1>4. ASSUME events # <<>>, Arrived.type # "news", NEW c \in Commands, conn' = conn,
             events' = Append(Tail(events), Delete(c))
      PROVE  Left
  <2>1. EventsLeft(conn, Tail(events)) /\ Same(events, Tail(events))
    BY <1>4, ArrivedEvent
  <2>2. /\ EventsLeft(conn, Append(Tail(events), Delete(c)))
        /\ Same(Tail(events), Append(Tail(events), Delete(c)))
    BY <2>1, MoreLeft
  <2>3. Same(events, Append(Tail(events), Delete(c)))
    BY <2>1, <2>2 DEF Same
  <2> QED BY <1>4, <2>2, <2>3
<1>5. CASE FullUpdate
  BY <1>2, <1>3, <1>5 DEF FullUpdate, Arrives
<1>6. CASE FullUpdateDone
  <2>1. events # <<>> /\ Head(events).type = "status"
    BY <1>6 DEF FullUpdateDone, Answered, Awaited, Waits
  <2> QED BY <1>3, <1>6, <2>1 DEF FullUpdateDone
<1>7. CASE NewsArrives
  BY <1>7, NewsLeft
<1>8. CASE ExecuteCommand
  <2>1. events # <<>> /\ Arrived.type = "execute" /\ Arrived.command \in Commands
    BY <1>8, ArrivedEvent DEF ExecuteCommand, Arrives, Arrived
  <2> QED BY <1>3, <1>4, <1>8, <2>1 DEF ExecuteCommand, Arrived
<1>9. CASE NoConnection
  <2>1. events # <<>> /\ Arrived.type = "created" /\ Arrived \in CreatedSet
    BY <1>9, ArrivedEvent DEF NoConnection, Arrives, Arrived
  <2>2. Arrived.command \in Commands
    BY <2>1 DEF CreatedSet
  <2> QED BY <1>4, <1>9, <2>1, <2>2 DEF NoConnection, Answer, Leave
<1>10. CASE NewConnection
  BY <1>2, <1>10 DEF NewConnection
<1>11. CASE ConnectionMade
  BY <1>11, NewConnectionLeft
<1>12. CASE DeleteCommand
  <2> DEFINE c == Arrived.command
             fs == Dropped(Tail(events), c)
  <2>1. events # <<>> /\ Arrived.type = "delete" /\ c \in Commands
    BY <1>12, ArrivedEvent DEF DeleteCommand, Arrives, Arrived
  <2>2. EventsLeft(conn, Tail(events)) /\ Same(events, Tail(events))
    BY <2>1, ArrivedEvent
  <2>3. EventsLeft(conn, fs) /\ Same(Tail(events), fs)
    BY <2>2, DroppedEvents, FewerLeft DEF EventsLeft
  <2>4. EventsLeft(Without(c), Untold(fs, c)) /\ Same(fs, Untold(fs, c))
    BY <2>1, <2>3, UntoldLeft
  <2>5. \/ conn' = conn /\ events' = fs
        \/ conn' = Without(c) /\ events' = Untold(fs, c)
    BY <1>12 DEF DeleteCommand, Leave
  <2>6. Same(events, fs) /\ Same(events, Untold(fs, c))
    BY <2>2, <2>3, <2>4 DEF Same
  <2> QED BY <2>3, <2>4, <2>5, <2>6
<1>13. CASE Resume
  BY <1>2, <1>13 DEF Resume
<1>14. ASSUME NEW c \in Commands, NEW r \in Readers, Call(c, r) PROVE Left
  BY <1>1, <1>14, MoreLeft DEF Call
<1>15. ASSUME NEW c \in Commands, NEW polls \in BOOLEAN, GiveUp(c, polls) PROVE Left
  <2>1. EventsLeft(Without(c), Untold(events, c)) /\ Same(events, Untold(events, c))
    BY <1>1, UntoldLeft
  <2>2. \/ conn' = conn /\ events' = events
        \/ conn' = Without(c) /\ events' = Untold(events, c)
    BY <1>15 DEF GiveUp
  <2> QED BY <1>1, <2>1, <2>2
<1>16. CASE \/ \E c \in Commands : Use(c)
            \/ \E what \in {"start", "stop"} : Scan(what)
            \/ ShutDown
  BY <1>2, <1>16 DEF Use, Scan, ShutDown
<1> QED
  BY <1>5, <1>6, <1>7, <1>8, <1>9, <1>10, <1>11, <1>12, <1>13, <1>14, <1>15, <1>16
  DEF MainThread, Program
-----------------------------------------------------------------------------
(* The cache *)

LEMMA CacheReader ==
    ASSUME TypeOK, WorkersOwned, OneCall, CacheFollows,
           ReaderThread \/ Timers \/ RestartPlugIn \/ Environment
    PROVE  CacheFollows'
<1>1. PICK new : Tells(new)
  BY ReaderThreadTells
<1>2. /\ new \in Seq(EventSet) /\ events \in Seq(EventSet) /\ events' = events \o new /\ Heard(new)
      /\ \A r \in Readers : linked'[r] => r \in known'
  BY <1>1 DEF Tells, TypeOK
<1>3. /\ \A r \in Readers : Silent(events', r) => Silent(events, r) /\ Silent(new, r)
      /\ \A r \in Readers : Silent(new, r) => \A v : Latest(events, r, v) => Latest(events', r, v)
      /\ \A r \in Readers : ~Silent(new, r) => \A v : Latest(new, r, v) => Latest(events', r, v)
  BY <1>2, MoreEvents
<1>4. \A r \in Readers : Latest(events', r, Value(r)')
  BY <1>2, <1>3 DEF Heard, CacheFollows
<1>5. cache' = cache
  BY DEF ReaderThread, StartScan, StopScan, CreateWorker, DestroyWorker, EndExamination, UseCard,
         GetReaderInfos, GetReaderInfo, UpdateReaderInfo, ShutDownWorker, mainThread, Timers,
         UpdateReaders, Poll, RestartPlugIn, Environment, PlugIn, Unplug, PutCard, TakeCard, software
<1>6. ASSUME Waits("infos")', blocked'.reply # None, NEW r \in Readers, Silent(events', r)
      PROVE  blocked'.reply[r] = Value(r)'
  <2>1. Value(r)' = Value(r) /\ Silent(events, r)
    BY <1>2, <1>3, <1>6 DEF Heard
  <2>2. CASE blocked' = blocked
    BY <1>6, <2>1, <2>2 DEF CacheFollows, Waits
  <2>3. CASE GetReaderInfos
    <3>1. Running("infos") /\ Reply(KnownInfos)
      BY <2>3 DEF GetReaderInfos
    <3>2. blocked' = [call |-> "infos", reply |-> KnownInfos]
      BY <3>1, CallFacts DEF Calls
    <3> QED BY <2>1, <3>2 DEF KnownInfos, Value
  <2>4. ASSUME NEW what \in Calls, what # "infos", NEW v, Running(what), Reply(v) PROVE FALSE
    BY <1>6, <2>4, CallFacts DEF Waits
  <2>5. CASE GetReaderInfo \/ UpdateReaderInfo \/ ShutDownWorker
    BY <2>4, <2>5 DEF GetReaderInfo, UpdateReaderInfo, ShutDownWorker, Calls
  <2>6. CASE ~(GetReaderInfos \/ GetReaderInfo \/ UpdateReaderInfo \/ ShutDownWorker)
    <3>1. blocked' = blocked
      BY <2>6 DEF ReaderThread, StartScan, StopScan, CreateWorker, DestroyWorker, EndExamination,
                  UseCard, Timers, UpdateReaders, Poll, RestartPlugIn, Environment, PlugIn, Unplug,
                  PutCard, TakeCard, software
    <3> QED BY <2>2, <3>1
  <2> QED BY <2>3, <2>5, <2>6
<1>7. \A r \in Readers : Silent(events', r) => cache'[r] = Value(r)'
  BY <1>2, <1>3, <1>5 DEF Heard, CacheFollows
<1> QED BY <1>2, <1>4, <1>6, <1>7 DEF CacheFollows

LEMMA CacheMain ==
    ASSUME TypeOK, WorkersOwned, Awaited, Stopping, CacheFollows, MainThread \/ Program
    PROVE  CacheFollows'
<1>1. events' \in Seq(EventSet) /\ (~NewsArrives => Same(events, events'))
  BY MainEvents DEF EventsLeft
<1>2. known' = known /\ info' = info /\ linked' = linked
  BY DEF MainThread, FullUpdate, FullUpdateDone, NewsArrives, ExecuteCommand, NoConnection,
         NewConnection, ConnectionMade, DeleteCommand, Resume, Program, Call, GiveUp, Use, Scan,
         ShutDown, readerSide, plugIn
<1>3. \A r \in Readers : Value(r)' = Value(r)
  BY <1>2 DEF Value
<1>4. ASSUME \A r \in Readers : Latest(events', r, Value(r)),
             \A r \in Readers : Silent(events', r) => cache'[r] = Value(r),
             (blocked' = blocked /\ cache' = cache) \/ blocked' = None \/ \E what : Block(what),
             ~NewsArrives \/ blocked' = None
      PROVE  CacheFollows'
  <2>1. \A r \in Readers : linked'[r] => r \in known'
    BY <1>2 DEF CacheFollows
  <2>2. \A r \in Readers : Latest(events', r, Value(r)')
    BY <1>3, <1>4
  <2>3. \A r \in Readers : Silent(events', r) => cache'[r] = Value(r)'
    BY <1>3, <1>4
  <2>4. ASSUME NEW r \in Readers, Silent(events', r), Waits("infos")', blocked'.reply # None
        PROVE  blocked'.reply[r] = Value(r)'
    <3>1. ~\E what : Block(what)
      BY <2>4 DEF Block
    <3>2. blocked' = blocked /\ blocked' # None
      BY <1>4, <2>4, <3>1 DEF Waits
    <3>3. Silent(events, r)
      BY <1>1, <1>4, <2>4, <3>2 DEF Same
    <3> QED BY <1>3, <2>4, <3>2, <3>3 DEF CacheFollows, Waits
  <2> QED BY <2>1, <2>2, <2>3, <2>4 DEF CacheFollows
<1>5. ASSUME ~NewsArrives PROVE \A r \in Readers : Latest(events', r, Value(r))
  BY <1>1, <1>5 DEF Same, CacheFollows
<1>6. ASSUME ~NewsArrives, cache' = cache,
             blocked' = blocked \/ blocked' = None \/ \E what : Block(what)
      PROVE  CacheFollows'
  <2>1. \A r \in Readers : Silent(events', r) => cache'[r] = Value(r)
    BY <1>1, <1>6 DEF Same, CacheFollows
  <2> QED BY <1>4, <1>5, <1>6, <2>1
<1>7. CASE NewsArrives
  <2>1. /\ events \in Seq(EventSet) /\ events # <<>> /\ events' = Tail(events)
        /\ Arrived \in NewsSet /\ blocked' = None
        /\ cache' = [cache EXCEPT ![Arrived.reader] =
                         IF Arrived.kind = "removed" THEN Absent ELSE Arrived.info]
    BY <1>7, ArrivedEvent DEF NewsArrives, Arrives, Arrived, Free, TypeOK
  <2>2. \A r \in Readers : \A v : Latest(events, r, v) =>
            /\ Latest(Tail(events), r, v)
            /\ IsNews(Arrived, r) /\ Silent(Tail(events), r) => Says(Arrived) = v
    BY <2>1, NewsHead DEF Arrived
  <2>3. \A r \in Readers : ~IsNews(Arrived, r) /\ Silent(Tail(events), r) => Silent(events, r)
    BY <2>1, NewsHead DEF Arrived
  <2>4. \A r \in Readers : Latest(events', r, Value(r))
    BY <2>1, <2>2 DEF CacheFollows
  <2>5. ASSUME NEW r \in Readers, Silent(events', r) PROVE cache'[r] = Value(r)
    <3>1. cache' = [cache EXCEPT ![Arrived.reader] = Says(Arrived)]
      BY <2>1 DEF Says
    <3>2. cache \in [Readers -> Int]
      BY DEF TypeOK
    <3>3. CASE IsNews(Arrived, r)
      <4>1. Says(Arrived) = Value(r)
        BY <2>1, <2>2, <2>5, <3>3 DEF CacheFollows
      <4> QED BY <3>1, <3>2, <3>3, <4>1 DEF IsNews
    <3>4. CASE ~IsNews(Arrived, r)
      <4>1. Silent(events, r)
        BY <2>1, <2>3, <2>5, <3>4
      <4>2. Arrived.reader # r
        BY <2>1, <3>4 DEF IsNews, NewsSet
      <4> QED BY <3>1, <3>2, <4>1, <4>2 DEF CacheFollows
    <3> QED BY <3>3, <3>4
  <2> QED BY <1>4, <2>1, <2>4, <2>5
<1>8. CASE FullUpdate
  <2>1. ~NewsArrives
    BY <1>8 DEF FullUpdate, NewsArrives, Arrives
  <2>2. CASE running
    BY <1>6, <1>8, <2>1, <2>2 DEF FullUpdate
  <2>3. CASE ~running
    <3>1. \A r \in Readers : cache'[r] = Value(r)
      BY <1>8, <2>3 DEF FullUpdate, Stopping, Value
    <3>2. blocked' = None
      BY <1>8, <2>3 DEF FullUpdate, Free
    <3> QED BY <1>4, <1>5, <2>1, <3>1, <3>2
  <2> QED BY <2>2, <2>3
<1>9. CASE FullUpdateDone
  <2>1. ~NewsArrives
    BY <1>9 DEF FullUpdateDone, NewsArrives, Answered, Free
  <2>2. Waits("infos") /\ blocked.reply # None /\ cache' = blocked.reply /\ blocked' = None
    BY <1>9 DEF FullUpdateDone, Answered, Waits
  <2>3. \A r \in Readers : Silent(events', r) => cache'[r] = Value(r)
    BY <1>1, <2>1, <2>2 DEF Same, CacheFollows
  <2> QED BY <1>4, <1>5, <2>1, <2>2, <2>3
<1>10. CASE Resume
  <2>1. ~NewsArrives
    BY <1>10 DEF Resume, NewsArrives, Answered, Free
  <2>2. CASE cache' = cache
    BY <1>6, <1>10, <2>1, <2>2 DEF Resume
  <2>3. CASE Answered("shutdown") /\ cache' = [r \in Readers |-> Absent]
    <3>1. \A r \in Readers : cache'[r] = Value(r)
      BY <2>3 DEF Answered, Stopping, Waits, Value
    <3> QED BY <1>4, <1>5, <1>10, <2>1, <3>1 DEF Resume
  <2> QED BY <1>10, <2>2, <2>3 DEF Resume
<1>11. CASE ExecuteCommand \/ NoConnection \/ NewConnection \/ ConnectionMade \/ DeleteCommand
  <2>1. ~NewsArrives
    BY <1>11 DEF ExecuteCommand, NoConnection, NewConnection, ConnectionMade, DeleteCommand,
                 NewsArrives, Arrives, Answered, Free
  <2>2. cache' = cache /\ (blocked' = blocked \/ blocked' = None \/ \E what : Block(what))
    BY <1>11 DEF ExecuteCommand, NoConnection, NewConnection, ConnectionMade, DeleteCommand
  <2> QED BY <1>6, <2>1, <2>2
<1>12. CASE Program
  <2>1. cache' = cache /\ (blocked' = blocked \/ blocked' = None \/ \E what : Block(what))
    BY <1>12 DEF Program, Call, GiveUp, Use, Scan, ShutDown
  <2> QED BY <1>6, <1>7, <2>1
<1> QED BY <1>7, <1>8, <1>9, <1>10, <1>11, <1>12 DEF MainThread
-----------------------------------------------------------------------------
(* The workers *)

LEMMA MoreOwned ==
    ASSUME NEW ws, NEW held, NEW js \in Seq(JobSet), Owned(ws, held, js), NEW j \in JobSet,
           ~Holding(j) \/ (j.job = "use" /\ j.arg \in held \cap DOMAIN ws)
    PROVE  Owned(ws, held, Append(js, j))
<1> DEFINE all == Append(js, j)
<1>1. /\ all[Len(js) + 1] = j
      /\ \A i \in DOMAIN js : i \in DOMAIN all /\ all[i] = js[i]
      /\ \A i \in DOMAIN all : i \in DOMAIN js \/ i = Len(js) + 1
  BY Appended
<1> HIDE DEF all
<1>2. ASSUME NEW i \in DOMAIN all, Holding(all[i])
      PROVE  \/ i \in DOMAIN js /\ all[i] = js[i]
             \/ all[i] = j /\ j.job = "use" /\ j.arg \in held \cap DOMAIN ws
  BY <1>1, <1>2
<1>3. ASSUME NEW i \in DOMAIN all, Holding(all[i]) PROVE all[i].arg \in DOMAIN ws
  BY <1>2, <1>3 DEF Owned
<1>4. ASSUME NEW i \in DOMAIN all, all[i].job = "destroy"
      PROVE  /\ all[i].arg \notin held
             /\ \A k \in DOMAIN all : Holding(all[k]) /\ all[k].arg = all[i].arg => i = k
  <2>1. i \in DOMAIN js /\ all[i] = js[i]
    BY <1>2, <1>4 DEF Holding
  <2>2. all[i].arg \notin held
    BY <1>4, <2>1 DEF Owned
  <2>3. ASSUME NEW k \in DOMAIN all, Holding(all[k]), all[k].arg = all[i].arg PROVE i = k
    <3>1. k \in DOMAIN js /\ all[k] = js[k]
      BY <1>2, <2>2, <2>3
    <3> QED BY <1>4, <2>1, <2>3, <3>1 DEF Owned
  <2> QED BY <2>2, <2>3
<1>5. Owned(ws, held, all)
  BY <1>3, <1>4 DEF Owned
<1> QED BY <1>5 DEF all

LEMMA FewerOwned ==
    ASSUME NEW ws, NEW held, NEW less, less \subseteq held, NEW js, Owned(ws, held, js)
    PROVE  /\ Owned(ws, less, js)
           /\ \A vs : DOMAIN vs = DOMAIN ws => Owned(vs, less, js)
BY DEF Owned

\* The jobs of the reader thread that hold no worker
LEMMA OwnedOperations ==
    ASSUME NEW ws, NEW held, NEW js \in Seq(JobSet), Owned(ws, held, js)
    PROVE  /\ \A rs : Owned(ws, held, WithoutReleases(js, rs))
           /\ \A r \in Readers : Owned(ws, held, Examined(js, r))
           /\ \A new \in Seq(JobSet) : (\A i \in DOMAIN new : ~Holding(new[i])) =>
                  Owned(ws, held, js \o new)
<1>1. \A rs : Owned(ws, held, WithoutReleases(js, rs))
  BY ReleasesTaken, ThinnedJobs
<1>2. ASSUME NEW r \in Readers PROVE Owned(ws, held, Examined(js, r))
  <2> DEFINE j == Job("release", r)
  <2>1. j \in JobSet /\ j.job = "release"
    BY DEF Job, JobSet
  <2> HIDE DEF j
  <2>2. Owned(ws, held, Append(js, j))
    BY <2>1, MoreOwned DEF Holding
  <2> QED BY <1>1, <2>2 DEF Examined, j
<1>3. ASSUME NEW new \in Seq(JobSet), \A i \in DOMAIN new : ~Holding(new[i])
      PROVE  Owned(ws, held, js \o new)
  <2> DEFINE all == js \o new
  <2>1. /\ \A i \in DOMAIN js : all[i] = js[i]
        /\ \A i \in DOMAIN new : all[Len(js) + i] = new[i]
        /\ \A i \in DOMAIN all : i \in DOMAIN js \/ \E k \in DOMAIN new : i = Len(js) + k
    BY Joined
  <2> HIDE DEF all
  <2>2. \A i \in DOMAIN all : Holding(all[i]) => i \in DOMAIN js /\ all[i] = js[i]
    BY <1>3, <2>1
  <2>3. Owned(ws, held, all)
    BY <2>2 DEF Owned, Holding
  <2> QED BY <2>3 DEF all
<1> QED BY <1>1, <1>2, <1>3

WorkerTypes ==
    /\ DOMAIN workers \in SUBSET Nat /\ IsFiniteSet(DOMAIN workers)
    /\ workers \in [DOMAIN workers -> Readers \cup {None}]

LEMMA LeftOwned ==
    ASSUME NEW ws, NEW cn, NEW es, NEW js \in Seq(JobSet), IsFiniteSet(DOMAIN ws),
           DOMAIN ws \in SUBSET Nat, Owned(ws, Holders(cn, es), js), Leave(ws, cn, es, js)
    PROVE  Owned(workers', Holders(conn', events'), jobs')
BY OrphansOwned DEF Leave

LEMMA ConnectingOwned ==
    ASSUME TypeOK, WorkersOwned, CreateWorker
    PROVE  Owned(workers', Holders(conn', events'), jobs') /\ WorkerTypes'
<1> DEFINE r == Head(jobs).arg
           held == Holders(conn, events)
           rest == Tail(jobs)
<1>1. /\ jobs \in Seq(JobSet) /\ jobs # <<>> /\ WorkerTypes /\ events \in Seq(EventSet)
      /\ known \in SUBSET Readers
  BY DEF CreateWorker, Running, TypeOK, WorkerTypes
<1>2. rest \in Seq(JobSet) /\ Owned(workers, held, rest)
  BY <1>1, HeadJob, ThinnedJobs DEF WorkersOwned
<1>3. \A i \in DOMAIN rest : Holding(rest[i]) => rest[i].arg \in DOMAIN workers
  BY <1>2 DEF Owned
<1> HIDE DEF held, rest
<1>4. ASSUME NEW w \in Nat \cup {None}
      PROVE  Holders(conn, events \o Broadcast(w)) \subseteq held \cup {w}
  <2> DEFINE new == Broadcast(w)
             all == events \o new
  <2>1. /\ new \in Seq(EventSet)
        /\ \A i \in DOMAIN new : new[i].type = "created" /\ new[i].worker = w
    BY BroadcastSignals
  <2> HIDE DEF new
  <2>2. /\ \A i \in DOMAIN events : all[i] = events[i]
        /\ \A i \in DOMAIN new : all[Len(events) + i] = new[i]
        /\ \A i \in DOMAIN all : i \in DOMAIN events \/ \E k \in DOMAIN new : i = Len(events) + k
    BY <1>1, <2>1, Joined
  <2> HIDE DEF all
  <2>3. \A i \in DOMAIN all : \/ \E k \in DOMAIN events : all[i] = events[k]
                              \/ all[i].worker = w
    BY <2>1, <2>2
  <2>4. Holders(conn, all) \subseteq held \cup {w}
    BY <2>3 DEF Holders, held
  <2> QED BY <2>4 DEF all, new
<1>5. CASE /\ Connectable(r)
           /\ Leave(With(Fresh, r), conn, events \o Broadcast(Fresh), rest)
  <2> DEFINE w == Fresh
             ws == With(w, r)
             es == events \o Broadcast(w)
  <2>1. w \in Nat /\ w \notin DOMAIN workers
    BY <1>1, FreshWorker DEF WorkerTypes
  <2> HIDE DEF w
  <2>2. /\ DOMAIN ws = DOMAIN workers \cup {w}
        /\ IsFiniteSet(DOMAIN ws) /\ DOMAIN ws \in SUBSET Nat
    BY <1>1, <2>1, WithWorker DEF WorkerTypes
  <2>3. ws \in [DOMAIN ws -> Readers \cup {None}]
    <3>1. r \in Readers
      BY <1>1, <1>5 DEF Connectable
    <3> HIDE DEF r
    <3> QED BY <1>1, <2>1, <3>1 DEF With, WorkerTypes
  <2> HIDE DEF ws
  <2>4. Holders(conn, es) \subseteq held \cup {w}
    BY <1>4, <2>1
  <2> HIDE DEF es
  <2>5. Owned(ws, Holders(conn, es), rest)
    <3>1. Holders(conn, es) \subseteq DOMAIN ws \cup {None}
      BY <1>2, <2>2, <2>4 DEF Owned
    <3>2. \A i \in DOMAIN rest : Holding(rest[i]) => rest[i].arg \in DOMAIN ws
      BY <1>3, <2>2
    <3>3. ASSUME NEW i \in DOMAIN rest, rest[i].job = "destroy"
          PROVE  /\ rest[i].arg \notin Holders(conn, es)
                 /\ \A j \in DOMAIN rest : Holding(rest[j]) /\ rest[j].arg = rest[i].arg => i = j
      <4>1. rest[i].arg # w
        BY <1>3, <2>1, <3>3 DEF Holding
      <4> QED BY <1>2, <2>4, <3>3, <4>1 DEF Owned
    <3> QED BY <3>1, <3>2, <3>3 DEF Owned
  <2>6. Leave(ws, conn, es, rest)
    BY <1>5 DEF ws, es, w
  <2>7. Owned(workers', Holders(conn', events'), jobs')
    BY <1>2, <2>2, <2>5, <2>6, LeftOwned
  <2>8. workers' = ws
    BY <2>6 DEF Leave
  <2> QED BY <2>2, <2>3, <2>7, <2>8 DEF WorkerTypes
<1>6. CASE Leave(workers, conn, events \o Broadcast(None), rest)
  <2> DEFINE es == events \o Broadcast(None)
  <2>1. Holders(conn, es) \subseteq held \cup {None}
    BY <1>4
  <2> HIDE DEF es
  <2>2. Owned(workers, Holders(conn, es), rest)
    <3>1. \A i \in DOMAIN rest : rest[i].job = "destroy" => rest[i].arg # None
      BY <1>1, <1>3, ReaderManagerAssumption DEF Holding, WorkerTypes
    <3> QED BY <1>2, <2>1, <3>1 DEF Owned
  <2>3. Leave(workers, conn, es, rest)
    BY <1>6 DEF es
  <2>4. Owned(workers', Holders(conn', events'), jobs')
    BY <1>1, <1>2, <2>2, <2>3, LeftOwned DEF WorkerTypes
  <2>5. workers' = workers
    BY <2>3 DEF Leave
  <2> QED BY <1>1, <2>4, <2>5 DEF WorkerTypes
<1> QED BY <1>5, <1>6 DEF CreateWorker, rest

LEMMA DestroyingOwned ==
    ASSUME TypeOK, WorkersOwned, DestroyWorker
    PROVE  Owned(workers', Holders(conn', events'), jobs') /\ WorkerTypes'
<1> DEFINE w == Head(jobs).arg
           held == Holders(conn, events)
           rest == Tail(jobs)
<1>1. /\ jobs \in Seq(JobSet) /\ jobs # <<>> /\ Head(jobs).job = "destroy" /\ WorkerTypes
      /\ workers' = [v \in DOMAIN workers \ {w} |-> workers[v]]
      /\ jobs' = rest /\ events' = events /\ conn' = conn
  BY DEF DestroyWorker, Running, TypeOK, WorkerTypes
<1>2. /\ 1 \in DOMAIN jobs /\ Head(jobs) = jobs[1] /\ rest \in Seq(JobSet)
      /\ \A i \in DOMAIN rest : i + 1 \in DOMAIN jobs /\ rest[i] = jobs[i + 1]
  BY <1>1, TailIsThinned
<1>3. Owned(workers, held, jobs) /\ Owned(workers, held, rest)
  BY <1>1, HeadJob, ThinnedJobs DEF WorkersOwned
<1>4. w \notin held /\ \A i \in DOMAIN jobs : Holding(jobs[i]) /\ jobs[i].arg = w => i = 1
  BY <1>1, <1>2, <1>3 DEF Owned
<1> HIDE DEF held
<1>5. \A i \in DOMAIN rest : Holding(rest[i]) => rest[i].arg # w
  <2> SUFFICES ASSUME NEW i \in DOMAIN rest, Holding(rest[i]), rest[i].arg = w PROVE FALSE
    OBVIOUS
  <2>1. i + 1 = 1 /\ i \in Nat \ {0}
    BY <1>2, <1>4
  <2> QED BY <2>1
<1> HIDE DEF w, rest
<1>6. DOMAIN workers' = DOMAIN workers \ {w}
  BY <1>1
<1>7. held \subseteq DOMAIN workers' \cup {None}
  BY <1>3, <1>4, <1>6 DEF Owned
<1>8. \A i \in DOMAIN rest : Holding(rest[i]) => rest[i].arg \in DOMAIN workers'
  BY <1>3, <1>5, <1>6 DEF Owned
<1>9. Owned(workers', held, rest)
  BY <1>3, <1>7, <1>8 DEF Owned
<1>10. WorkerTypes'
  <2>1. IsFiniteSet(DOMAIN workers \ {w})
    BY <1>1, FS_Difference DEF WorkerTypes
  <2>2. \A v \in DOMAIN workers : workers[v] \in Readers \cup {None}
    BY <1>1 DEF WorkerTypes
  <2>3. workers' \in [DOMAIN workers \ {w} -> Readers \cup {None}]
    BY <1>1, <2>2
  <2> QED BY <1>1, <1>6, <2>1, <2>3 DEF WorkerTypes
<1> QED BY <1>1, <1>9, <1>10 DEF held

LEMMA ReaderOwned ==
    ASSUME TypeOK, WorkersOwned, CacheFollows, ReaderThread \/ Timers \/ RestartPlugIn \/ Environment
    PROVE  WorkersOwned' /\ WorkerTypes'
<1> DEFINE held == Holders(conn, events)
<1>1. PICK new : Tells(new)
  BY ReaderThreadTells
<1>2. /\ new \in Seq(EventSet) /\ events \in Seq(EventSet) /\ events' = events \o new
      /\ ToldHold(events, conn) /\ ToldHold(new, conn) /\ Owned(workers, held, jobs)
  BY <1>1 DEF Tells, TypeOK, WorkersOwned
<1>3. conn' = conn
  BY DEF ReaderThread, StartScan, StopScan, CreateWorker, DestroyWorker, EndExamination, UseCard,
         GetReaderInfos, GetReaderInfo, UpdateReaderInfo, ShutDownWorker, Leave, Timers,
         UpdateReaders, Poll, RestartPlugIn, Environment, PlugIn, Unplug, PutCard, TakeCard, software
<1>4. ToldHold(events', conn')
  BY <1>2, <1>3, EventHolders
<1>5. ~CreateWorker => Holders(conn', events') \subseteq held
  BY <1>1, <1>2, <1>3, EventHolders DEF Tells
<1>6. ASSUME Owned(workers', Holders(conn', events'), jobs'), WorkerTypes'
      PROVE  WorkersOwned' /\ WorkerTypes'
  BY <1>4, <1>6 DEF WorkersOwned
<1>7. CASE CreateWorker
  BY <1>6, <1>7, ConnectingOwned
<1>8. CASE DestroyWorker
  BY <1>6, <1>8, DestroyingOwned
<1>9. /\ jobs \in Seq(JobSet) /\ WorkerTypes /\ plugged \in SUBSET Readers
      /\ known \in SUBSET Readers
  BY DEF TypeOK, WorkerTypes
<1>10. ASSUME jobs # <<>> PROVE Tail(jobs) \in Seq(JobSet) /\ Owned(workers, held, Tail(jobs))
  BY <1>2, <1>9, <1>10, HeadJob, ThinnedJobs
<1> HIDE DEF held
<1>11. ASSUME ~CreateWorker, DOMAIN workers' = DOMAIN workers, WorkerTypes',
              Owned(workers, held, jobs')
       PROVE  WorkersOwned' /\ WorkerTypes'
  BY <1>5, <1>6, <1>11, FewerOwned
<1>12. ASSUME NEW rs \in SUBSET Readers,
              workers' = [w \in DOMAIN workers |-> IF workers[w] \in rs THEN workers[w] ELSE None]
       PROVE  DOMAIN workers' = DOMAIN workers /\ WorkerTypes'
  <2>1. DOMAIN workers' = DOMAIN workers /\ workers' \in [DOMAIN workers -> Readers \cup {None}]
    BY <1>12
  <2> QED BY <1>9, <2>1 DEF WorkerTypes
<1>13. workers' = workers => DOMAIN workers' = DOMAIN workers /\ WorkerTypes'
  BY <1>9 DEF WorkerTypes
<1>14. CASE StopScan \/ ShutDownWorker
  <2>1. ~CreateWorker
    BY <1>14 DEF StopScan, ShutDownWorker, CreateWorker, Running
  <2>2. KeepOnly({}) /\ jobs' = WithoutReleases(Tail(jobs), Readers) /\ jobs # <<>>
    BY <1>14 DEF StopScan, ShutDownWorker, Running
  <2>3. Owned(workers, held, jobs')
    BY <1>10, <2>2, OwnedOperations
  <2> QED BY <1>11, <1>12, <2>1, <2>2, <2>3 DEF KeepOnly
<1>15. CASE StartScan \/ EndExamination \/ GetReaderInfos \/ GetReaderInfo
  <2>1. ~CreateWorker
    BY <1>15 DEF StartScan, EndExamination, GetReaderInfos, GetReaderInfo, CreateWorker, Running
  <2>2. workers' = workers /\ jobs' = Tail(jobs) /\ jobs # <<>>
    BY <1>15 DEF StartScan, EndExamination, GetReaderInfos, GetReaderInfo, Running
  <2> QED BY <1>10, <1>11, <1>13, <2>1, <2>2
<1>16. CASE UseCard
  <2>1. ~CreateWorker
    BY <1>16 DEF UseCard, CreateWorker, Running
  <2>2. Leave(workers, conn, events', Tail(jobs)) /\ jobs # <<>>
    BY <1>16 DEF UseCard, Running, Leave
  <2>3. Owned(workers, Holders(conn, events'), Tail(jobs))
    BY <1>3, <1>5, <1>10, <2>1, <2>2, FewerOwned
  <2>4. Owned(workers', Holders(conn', events'), jobs')
    BY <1>9, <1>10, <2>2, <2>3, LeftOwned DEF WorkerTypes
  <2>5. workers' = workers
    BY <2>2 DEF Leave
  <2> QED BY <1>6, <1>13, <2>4, <2>5
<1>17. CASE UpdateReaderInfo
  <2>1. ~CreateWorker /\ jobs # <<>> /\ workers' = workers
    BY <1>17 DEF UpdateReaderInfo, CreateWorker, Running
  <2>2. CASE jobs' = Tail(jobs)
    BY <1>10, <1>11, <1>13, <2>1, <2>2
  <2>3. CASE Noticed(Head(jobs).arg) /\ jobs' = Examined(Tail(jobs), Head(jobs).arg)
    <3>1. Head(jobs).arg \in Readers
      BY <1>9, <2>3 DEF Noticed
    <3>2. Owned(workers, held, jobs')
      BY <1>10, <2>1, <2>3, <3>1, OwnedOperations
    <3> QED BY <1>11, <1>13, <2>1, <3>2
  <2> QED BY <1>17, <2>2, <2>3 DEF UpdateReaderInfo
<1>18. CASE UpdateReaders
  <2> DEFINE left == WithoutReleases(jobs, known \ plugged)
             added == plugged \ known
             more == Examinations({r \in added : slot[r] # 0})
  <2>1. left \in Seq(JobSet) /\ Owned(workers, held, left)
    BY <1>2, <1>9, ReleasesTaken, OwnedOperations
  <2>2. more \in Seq(JobSet) /\ \A i \in DOMAIN more : ~Holding(more[i])
    <3>1. {r \in added : slot[r] # 0} \in SUBSET Readers
      BY <1>9
    <3> HIDE DEF added
    <3> QED BY <3>1, ExaminationJobs DEF Holding
  <2>3. jobs' = left \o more
    BY <1>18 DEF UpdateReaders
  <2> HIDE DEF left, more
  <2>4. Owned(workers, held, jobs')
    BY <2>1, <2>2, <2>3, OwnedOperations
  <2>5. DOMAIN workers' = DOMAIN workers /\ WorkerTypes'
    BY <1>9, <1>12, <1>18 DEF UpdateReaders
  <2> QED BY <1>7, <1>11, <2>4, <2>5
<1>19. CASE \E r \in Readers : Poll(r)
  <2>1. Owned(workers, held, jobs') /\ workers' = workers
    BY <1>2, <1>9, <1>19, OwnedOperations DEF Poll
  <2> QED BY <1>7, <1>11, <1>13, <2>1
<1>20. CASE RestartPlugIn
  <2>1. Owned(workers, held, jobs') /\ KeepOnly({})
    BY <1>2, <1>9, <1>20, OwnedOperations DEF RestartPlugIn
  <2> QED BY <1>7, <1>11, <1>12, <2>1 DEF KeepOnly
<1>21. CASE Environment
  <2>1. jobs' = jobs /\ workers' = workers
    BY <1>21 DEF Environment, PlugIn, Unplug, PutCard, TakeCard, software
  <2> QED BY <1>2, <1>7, <1>11, <1>13, <2>1
<1> QED
  BY <1>7, <1>8, <1>14, <1>15, <1>16, <1>17, <1>18, <1>19, <1>20, <1>21 DEF ReaderThread, Timers

LEMMA MainOwned ==
    ASSUME TypeOK, WorkersOwned, Awaited, MainThread \/ Program PROVE WorkersOwned' /\ WorkerTypes'
<1> DEFINE held == Holders(conn, events)
           less == Holders(conn', events')
<1>1. /\ jobs \in Seq(JobSet) /\ WorkerTypes /\ Owned(workers, held, jobs)
      /\ target \in [Commands -> Readers \cup {None}] /\ conn \in ConnSet
  BY DEF TypeOK, WorkerTypes, WorkersOwned, ConnSet
<1>2. less \subseteq held /\ ToldHold(events', conn')
  BY MainEvents DEF EventsLeft
<1>3. workers' = workers
  BY DEF MainThread, FullUpdate, FullUpdateDone, NewsArrives, ExecuteCommand, NoConnection,
         NewConnection, ConnectionMade, Answer, Leave, DeleteCommand, Resume, Program, Call, GiveUp,
         Use, Scan, ShutDown
<1>4. \A c \in Commands : conn[c] # None => conn[c] \in Connection /\ conn[c].worker \in held
  BY <1>1 DEF ConnSet, Holders
<1> HIDE DEF held, less
<1>5. Owned(workers, less, jobs)
  BY <1>1, <1>2, FewerOwned
<1>6. ASSUME Owned(workers, less, jobs') PROVE WorkersOwned' /\ WorkerTypes'
  BY <1>1, <1>2, <1>3, <1>6 DEF WorkersOwned, WorkerTypes, less
<1>7. ASSUME NEW what \in {"create", "start", "stop"} \cup Calls,
             NEW arg \in Readers \cup Nat \cup {None}, jobs' = Append(jobs, Job(what, arg))
      PROVE  Owned(workers, less, jobs')
  <2> DEFINE j == Job(what, arg)
  <2>1. j \in JobSet /\ j.job = what
    BY DEF Job, JobSet
  <2> HIDE DEF j
  <2>2. ~Holding(j) /\ jobs' = Append(jobs, j)
    BY <1>7, <2>1 DEF Holding, Calls, j
  <2> QED BY <1>1, <1>5, <2>1, <2>2, MoreOwned
<1>8. Leave(workers, conn', events', jobs) => Owned(workers, less, jobs')
  BY <1>1, <1>3, <1>5, LeftOwned DEF less, WorkerTypes
<1>9. CASE FullUpdate
  BY <1>5, <1>6, <1>7, <1>9 DEF FullUpdate, Calls
<1>10. CASE FullUpdateDone \/ NewsArrives \/ Resume
  BY <1>5, <1>6, <1>10 DEF FullUpdateDone, NewsArrives, Resume
<1>11. CASE ExecuteCommand
  <2>1. target[Arrived.command] \in Readers \cup Nat \cup {None}
    <3>1. Arrived.command \in Commands
      BY <1>11, ArrivedEvent DEF ExecuteCommand, Arrives, Arrived
    <3> QED BY <1>1, <3>1
  <2> QED BY <1>5, <1>6, <1>7, <1>11, <2>1 DEF ExecuteCommand
<1>12. CASE NoConnection \/ ConnectionMade \/ DeleteCommand
  <2>1. Leave(workers, conn', events', jobs)
    BY <1>12 DEF NoConnection, ConnectionMade, DeleteCommand, Answer, Leave
  <2> QED BY <1>6, <1>8, <2>1
<1>13. CASE NewConnection
  <2>1. Arrived.worker \in Readers \cup Nat \cup {None}
    <3>1. Arrived \in CreatedSet
      BY <1>13, ArrivedEvent DEF NewConnection, Arrives, Arrived
    <3> QED BY <3>1 DEF CreatedSet
  <2> QED BY <1>6, <1>7, <1>13, <2>1 DEF NewConnection, Calls
<1>14. ASSUME NEW c \in Commands, NEW r \in Readers, Call(c, r) PROVE Owned(workers, less, jobs')
  BY <1>5, <1>14 DEF Call
<1>15. ASSUME NEW c \in Commands, NEW polls \in BOOLEAN, GiveUp(c, polls)
       PROVE  Owned(workers, less, jobs')
  <2> DEFINE left == jobs \o Orphans(workers, conn', events', jobs)
             more == IF polls THEN <<Job("update", target[c])>> ELSE <<>>
  <2>1. left \in Seq(JobSet) /\ Owned(workers, less, left)
    BY <1>1, <1>5, OrphansOwned DEF less, WorkerTypes
  <2>2. more \in Seq(JobSet) /\ \A i \in DOMAIN more : ~Holding(more[i])
    <3> DEFINE j == Job("update", target[c])
    <3>1. j \in JobSet /\ ~Holding(j)
      BY <1>1 DEF Job, JobSet, Calls, Holding
    <3> HIDE DEF j
    <3>2. /\ <<j>> \in Seq(JobSet) /\ <<>> \in Seq(JobSet) /\ DOMAIN <<>> = {}
          /\ \A i \in DOMAIN <<j>> : <<j>>[i] = j
      BY <3>1
    <3>3. more = <<j>> \/ more = <<>>
      BY DEF j
    <3> HIDE DEF more
    <3> QED BY <3>1, <3>2, <3>3
  <2>3. jobs' = left \o more
    BY <1>15 DEF GiveUp
  <2> HIDE DEF left, more
  <2> QED BY <2>1, <2>2, <2>3, OwnedOperations
<1>16. ASSUME NEW c \in Commands, Use(c) PROVE Owned(workers, less, jobs')
  <2> DEFINE j == Job("use", conn[c].worker)
  <2>1. conn[c] # None /\ conn' = conn /\ events' = events
    BY <1>16 DEF Use
  <2>2. conn[c].worker \in Nat /\ conn[c].worker \in held /\ less = held
    BY <1>4, <2>1 DEF Connection, less, held
  <2>3. conn[c].worker \in DOMAIN workers
    <3>1. conn[c].worker # None
      BY <2>2, ReaderManagerAssumption
    <3> QED BY <1>1, <2>2, <3>1 DEF Owned
  <2>4. j \in JobSet /\ j.job = "use" /\ j.arg \in less \cap DOMAIN workers
    BY <2>2, <2>3 DEF Job, JobSet
  <2> HIDE DEF j
  <2>5. jobs' = Append(jobs, j)
    BY <1>16 DEF Use, j
  <2> QED BY <1>1, <1>5, <2>4, <2>5, MoreOwned
<1>17. ASSUME NEW what \in {"start", "stop"}, Scan(what) PROVE Owned(workers, less, jobs')
  BY <1>7, <1>17 DEF Scan
<1>18. CASE ShutDown
  BY <1>6, <1>7, <1>18 DEF ShutDown, Calls
<1> QED
  BY <1>6, <1>9, <1>10, <1>11, <1>12, <1>13, <1>14, <1>15, <1>16, <1>17, <1>18 DEF MainThread, Program
-----------------------------------------------------------------------------
(* Types, and cards that are connected *)

WorldTypes ==
    /\ plugged \in SUBSET Readers /\ slot \in [Readers -> Nat] /\ changes \in Nat
    /\ known \in SUBSET Readers /\ info \in [Readers -> Nat] /\ linked \in [Readers -> BOOLEAN]
    /\ cache \in [Readers -> Int] /\ target \in [Commands -> Readers \cup {None}]

LEMMA WorldReader ==
    ASSUME TypeOK, WorkersOwned, ReaderThread \/ Timers \/ RestartPlugIn \/ Environment
    PROVE  WorldTypes'
<1>1. WorldTypes
  BY DEF TypeOK, WorldTypes
<1>2. CASE StartScan \/ StopScan \/ ShutDownWorker
  <2>0. changes' = changes \/ changes' = changes + 1
    BY <1>2 DEF StartScan, StopScan, ShutDownWorker, Established, Changing
  <2>1. changes' \in Nat
    BY <1>1, <2>0 DEF WorldTypes
  <2>2. CASE StartScan
    BY <1>1, <2>1, <2>2 DEF WorldTypes, StartScan, world, commands
  <2>3. CASE StopScan \/ ShutDownWorker
    <3>1. KeepOnly({})
      BY <2>3 DEF StopScan, ShutDownWorker
    <3>2. known' \in SUBSET Readers /\ info' \in [Readers -> Nat] /\ linked' \in [Readers -> BOOLEAN]
      BY <1>1, <3>1 DEF WorldTypes, KeepOnly
    <3>3. plugged' = plugged /\ slot' = slot /\ cache' = cache /\ target' = target
      BY <2>3 DEF StopScan, ShutDownWorker, world, commands, mainThread
    <3> QED BY <1>1, <2>1, <3>2, <3>3 DEF WorldTypes
  <2> QED BY <1>2, <2>2, <2>3
<1>3. CASE CreateWorker
  <2>0. changes' = changes \/ changes' = changes + 1
    BY <1>3 DEF CreateWorker, Changing
  <2>1. changes' \in Nat /\ linked' \in [Readers -> BOOLEAN]
    <3>1. linked' = linked \/ linked' = [linked EXCEPT ![Head(jobs).arg] = TRUE]
      BY <1>3 DEF CreateWorker
    <3>2. \A x : [linked EXCEPT ![x] = TRUE] \in [Readers -> BOOLEAN]
      BY <1>1 DEF WorldTypes
    <3>3. changes' \in Nat
      BY <1>1, <2>0 DEF WorldTypes
    <3> QED BY <1>1, <3>1, <3>2, <3>3 DEF WorldTypes
  <2> QED BY <1>1, <1>3, <2>1 DEF WorldTypes, CreateWorker, readers, mainThread, world, commands
<1>4. CASE DestroyWorker \/ EndExamination
  BY <1>1, <1>4 DEF WorldTypes, DestroyWorker, EndExamination, Disconnected, readers, mainThread,
                    world, commands
<1>5. CASE UseCard
  BY <1>1, <1>5 DEF WorldTypes, UseCard, Changing, mainThread, commands
<1>6. CASE GetReaderInfos \/ GetReaderInfo
  BY <1>1, <1>6 DEF WorldTypes, GetReaderInfos, GetReaderInfo, readers, mainThread, world, commands
<1>7. CASE UpdateReaderInfo
  BY <1>1, <1>7 DEF WorldTypes, UpdateReaderInfo, UpdateCard, readers, mainThread, world, commands
<1>8. CASE UpdateReaders
  BY <1>1, <1>8 DEF WorldTypes, UpdateReaders, world, commands
<1>9. CASE \E r \in Readers : Poll(r)
  BY <1>1, <1>9 DEF WorldTypes, Poll, UpdateCard, world, commands
<1>10. CASE RestartPlugIn
  BY <1>1, <1>10 DEF WorldTypes, RestartPlugIn, KeepOnly, Changing, world, commands
<1>11. CASE Environment
  BY <1>1, <1>11 DEF WorldTypes, Environment, PlugIn, Unplug, PutCard, TakeCard, software, plugIn,
                     commands, Changing
<1> QED BY <1>2, <1>3, <1>4, <1>5, <1>6, <1>7, <1>8, <1>9, <1>10, <1>11 DEF ReaderThread, Timers

LEMMA WorldMain ==
    ASSUME TypeOK, WorkersOwned, Awaited, MainThread \/ Program PROVE WorldTypes'
<1>1. WorldTypes
  BY DEF TypeOK, WorldTypes
<1>2. /\ plugged' = plugged /\ slot' = slot /\ changes' = changes /\ known' = known /\ info' = info
      /\ linked' = linked
  BY DEF MainThread, FullUpdate, FullUpdateDone, NewsArrives, ExecuteCommand, NoConnection,
         NewConnection, ConnectionMade, DeleteCommand, Resume, Program, Call, GiveUp, Use, Scan,
         ShutDown, readerSide, plugIn, world
<1>3. target' \in [Commands -> Readers \cup {None}]
  BY <1>1 DEF WorldTypes, MainThread, FullUpdate, FullUpdateDone, NewsArrives, ExecuteCommand,
              NoConnection, NewConnection, ConnectionMade, DeleteCommand, Resume, Program, Call,
              GiveUp, Use, Scan, ShutDown, commands
<1>4. \A r \in Readers : Absent \in Int
  BY DEF Absent
<1>5. CASE FullUpdate \/ Resume
  <2>1. cache' = cache \/ cache' = [r \in Readers |-> Absent]
    BY <1>5 DEF FullUpdate, Resume
  <2> QED BY <1>1, <1>2, <1>3, <1>4, <2>1 DEF WorldTypes
<1>6. CASE FullUpdateDone
  <2>1. cache' \in [Readers -> Int]
    BY <1>6 DEF FullUpdateDone, Answered, Awaited, Waits
  <2> QED BY <1>1, <1>2, <1>3, <2>1 DEF WorldTypes
<1>7. CASE NewsArrives
  <2>1. Arrived \in NewsSet
    BY <1>7, ArrivedEvent DEF NewsArrives, Arrives, Arrived
  <2>2. (IF Arrived.kind = "removed" THEN Absent ELSE Arrived.info) \in Int
    BY <2>1 DEF NewsSet, Absent
  <2>3. cache' \in [Readers -> Int]
    BY <1>1, <1>7, <2>1, <2>2 DEF NewsArrives, WorldTypes
  <2> QED BY <1>1, <1>2, <1>3, <2>3 DEF WorldTypes
<1>8. CASE \/ ExecuteCommand \/ NoConnection \/ NewConnection \/ ConnectionMade \/ DeleteCommand
           \/ Program
  <2>1. cache' = cache
    BY <1>8 DEF ExecuteCommand, NoConnection, NewConnection, ConnectionMade, DeleteCommand, Program,
                Call, GiveUp, Use, Scan, ShutDown
  <2> QED BY <1>1, <1>2, <1>3, <2>1 DEF WorldTypes
<1> QED BY <1>5, <1>6, <1>7, <1>8 DEF MainThread

Releases(js, r) == \E i \in DOMAIN js : js[i].job = "release" /\ js[i].arg = r
Connected(ws, r) == \E w \in DOMAIN ws : ws[w] = r

LEMMA ReleasesKept ==
    ASSUME NEW js \in Seq(JobSet), NEW r, Releases(js, r)
    PROVE  /\ \A new \in Seq(JobSet) : Releases(js \o new, r)
           /\ \A j \in JobSet : Releases(Append(js, j), r)
           /\ Head(js).job # "release" \/ Head(js).arg # r => Releases(Tail(js), r)
           /\ \A rs : r \notin rs => Releases(WithoutReleases(js, rs), r)
           /\ js # <<>>
<1>1. PICK i \in DOMAIN js : js[i].job = "release" /\ js[i].arg = r
  BY DEF Releases
<1>2. ASSUME NEW new \in Seq(JobSet) PROVE Releases(js \o new, r)
  BY <1>1, Joined DEF Releases
<1>3. ASSUME NEW j \in JobSet PROVE Releases(Append(js, j), r)
  BY <1>1, Appended DEF Releases
<1>4. js # <<>>
  BY <1>1
<1>5. ASSUME Head(js).job # "release" \/ Head(js).arg # r PROVE Releases(Tail(js), r)
  <2>1. i # 1
    BY <1>1, <1>4, <1>5, TailIsThinned
  <2>2. i - 1 \in DOMAIN Tail(js) /\ Tail(js)[i - 1] = js[i]
    BY <1>4, <2>1, TailIsThinned
  <2> QED BY <1>1, <2>2 DEF Releases
<1>6. ASSUME NEW rs, r \notin rs PROVE Releases(WithoutReleases(js, rs), r)
  <2>1. \E k \in DOMAIN WithoutReleases(js, rs) : WithoutReleases(js, rs)[k] = js[i]
    BY <1>1, <1>6, ReleasesTaken
  <2> QED BY <1>1, <2>1 DEF Releases
<1> QED BY <1>2, <1>3, <1>4, <1>5, <1>6

LEMMA ReleasesAdded ==
    ASSUME NEW js \in Seq(JobSet), NEW new \in Seq(JobSet), NEW r, Releases(new, r)
    PROVE  Releases(js \o new, r)
<1>1. PICK i \in DOMAIN new : new[i].job = "release" /\ new[i].arg = r
  BY DEF Releases
<1>2. Len(js) + i \in DOMAIN (js \o new) /\ (js \o new)[Len(js) + i] = new[i]
  BY Joined
<1> QED BY <1>1, <1>2 DEF Releases

LEMMA NotLeaked == CardNotLeaked <=> \A r \in Readers : linked[r] => Connected(workers, r) \/ Releases(jobs, r)
BY DEF CardNotLeaked, Connected, Releases

LEMMA NotLeakedNext ==
    ASSUME \A r \in Readers : linked'[r] => Connected(workers', r) \/ Releases(jobs', r)
    PROVE  CardNotLeaked'
BY DEF CardNotLeaked, Connected, Releases

LEMMA NotLeakedReader ==
    ASSUME TypeOK, WorkersOwned, CacheFollows, CardNotLeaked,
           ReaderThread \/ Timers \/ RestartPlugIn \/ Environment
    PROVE  CardNotLeaked'
<1>1. /\ jobs \in Seq(JobSet) /\ IsFiniteSet(DOMAIN workers) /\ DOMAIN workers \in SUBSET Nat
      /\ plugged \in SUBSET Readers /\ known \in SUBSET Readers /\ linked \in [Readers -> BOOLEAN]
  BY DEF TypeOK
<1>2. \A r \in Readers : linked[r] => Connected(workers, r) \/ Releases(jobs, r)
  BY NotLeaked
<1>3. ASSUME \A r \in Readers : linked'[r] => Connected(workers', r) \/ Releases(jobs', r)
      PROVE  CardNotLeaked'
  BY <1>3, NotLeakedNext
<1>4. ASSUME jobs # <<>>
      PROVE  /\ Tail(jobs) \in Seq(JobSet)
             /\ \A r : Releases(jobs, r) /\ (Head(jobs).job # "release" \/ Head(jobs).arg # r)
                           => Releases(Tail(jobs), r)
  BY <1>1, <1>4, HeadJob, ReleasesKept
<1>5. ASSUME jobs # <<>>, NEW ws, NEW cn, NEW es, Leave(ws, cn, es, Tail(jobs)),
             IsFiniteSet(DOMAIN ws), DOMAIN ws \in SUBSET Nat
      PROVE  workers' = ws /\ \A r : Releases(Tail(jobs), r) => Releases(jobs', r)
  <2>1. Tail(jobs) \in Seq(JobSet)
    BY <1>4, <1>5
  <2>2. Orphans(ws, cn, es, Tail(jobs)) \in Seq(JobSet)
    BY <1>5, OrphansDestroyed
  <2> QED BY <1>5, <2>1, <2>2, ReleasesKept DEF Leave
<1>6. CASE StartScan \/ GetReaderInfos \/ GetReaderInfo
  <2>1. /\ jobs # <<>> /\ Head(jobs).job # "release" /\ linked' = linked /\ workers' = workers
        /\ jobs' = Tail(jobs)
    BY <1>6 DEF StartScan, GetReaderInfos, GetReaderInfo, Running
  <2> QED BY <1>2, <1>3, <1>4, <2>1
<1>7. CASE StopScan \/ ShutDownWorker \/ RestartPlugIn
  <2>1. \A r \in Readers : ~linked'[r]
    BY <1>7 DEF StopScan, ShutDownWorker, RestartPlugIn, KeepOnly
  <2> QED BY <1>3, <2>1
<1>8. CASE CreateWorker
  <2>1. jobs # <<>> /\ Head(jobs).job # "release"
    BY <1>8 DEF CreateWorker, Running
  <2>2. CASE /\ Connectable(Head(jobs).arg)
             /\ linked' = [linked EXCEPT ![Head(jobs).arg] = TRUE]
             /\ Leave(With(Fresh, Head(jobs).arg), conn, events \o Broadcast(Fresh), Tail(jobs))
    <3> DEFINE x == Head(jobs).arg
               w == Fresh
               ws == With(w, x)
    <3>1. w \in Nat /\ w \notin DOMAIN workers
      BY <1>1, FreshWorker
    <3> HIDE DEF w, x
    <3>2. /\ DOMAIN ws = DOMAIN workers \cup {w} /\ IsFiniteSet(DOMAIN ws)
          /\ DOMAIN ws \in SUBSET Nat
      BY <1>1, <3>1, WithWorker
    <3>3. ws[w] = x /\ \A v \in DOMAIN workers : ws[v] = workers[v]
      BY <3>1 DEF With
    <3> HIDE DEF ws
    <3>4. workers' = ws /\ \A r : Releases(Tail(jobs), r) => Releases(jobs', r)
      BY <1>5, <2>1, <2>2, <3>2 DEF ws, w, x
    <3>5. Connected(workers', x) /\ \A r : Connected(workers, r) => Connected(workers', r)
      BY <3>2, <3>3, <3>4 DEF Connected
    <3>6. \A r \in Readers : linked'[r] => linked[r] \/ r = x
      BY <1>1, <2>2 DEF x
    <3> QED BY <1>2, <1>3, <1>4, <2>1, <3>4, <3>5, <3>6
  <2>3. CASE linked' = linked /\ Leave(workers, conn, events \o Broadcast(None), Tail(jobs))
    <3>1. workers' = workers /\ \A r : Releases(Tail(jobs), r) => Releases(jobs', r)
      BY <1>1, <1>5, <2>1, <2>3
    <3> QED BY <1>2, <1>3, <1>4, <2>1, <2>3, <3>1
  <2> QED BY <1>8, <2>2, <2>3 DEF CreateWorker
<1>9. CASE DestroyWorker
  <2> DEFINE w == Head(jobs).arg
  <2>1. /\ jobs # <<>> /\ Head(jobs).job = "destroy" /\ jobs' = Tail(jobs)
        /\ workers' = [v \in DOMAIN workers \ {w} |-> workers[v]]
        /\ linked' = IF workers[w] = None THEN linked ELSE Disconnected(workers[w])
    BY <1>9 DEF DestroyWorker, Running
  <2>2. w \in DOMAIN workers /\ workers[w] \in Readers \cup {None}
    BY <2>1, HeadJob DEF Holding, TypeOK
  <2> HIDE DEF w
  <2>3. \A r \in Readers : linked'[r] => linked[r] /\ workers[w] # r
    BY <1>1, <2>1, <2>2, ReaderManagerAssumption DEF Disconnected
  <2>4. \A r : Connected(workers, r) /\ workers[w] # r => Connected(workers', r)
    BY <2>1 DEF Connected
  <2>5. \A r : Releases(jobs, r) => Releases(jobs', r)
    BY <1>4, <2>1
  <2> QED BY <1>2, <1>3, <2>3, <2>4, <2>5
<1>10. CASE EndExamination
  <2>1. /\ jobs # <<>> /\ jobs' = Tail(jobs) /\ workers' = workers
        /\ linked' = Disconnected(Head(jobs).arg)
    BY <1>10 DEF EndExamination, Running
  <2>2. \A r \in Readers : linked'[r] => linked[r] /\ Head(jobs).arg # r
    BY <1>1, <2>1 DEF Disconnected
  <2> QED BY <1>2, <1>3, <1>4, <2>1, <2>2
<1>11. CASE UseCard
  <2>1. jobs # <<>> /\ Head(jobs).job # "release" /\ linked' = linked
    BY <1>11 DEF UseCard, Running
  <2>2. \E es : Leave(workers, conn, es, Tail(jobs))
    BY <1>11 DEF UseCard
  <2>3. workers' = workers /\ \A r : Releases(Tail(jobs), r) => Releases(jobs', r)
    BY <1>1, <1>5, <2>1, <2>2
  <2> QED BY <1>2, <1>3, <1>4, <2>1, <2>3
<1>12. ASSUME NEW js \in Seq(JobSet), \A r \in Readers : linked[r] => Connected(workers, r) \/ Releases(js, r),
              NEW x \in known, UpdateCard(x), jobs' = Examined(js, x), workers' = workers
       PROVE  CardNotLeaked'
  <2>1. /\ x \in Readers
        /\ \A r \in Readers : linked'[r] => (r = x /\ slot[x] # 0) \/ (r # x /\ linked[r])
    BY <1>1, <1>12 DEF UpdateCard
  <2> DEFINE j == Job("release", x)
  <2>2. j \in JobSet /\ j.job = "release" /\ j.arg = x
    BY <2>1 DEF Job, JobSet
  <2> HIDE DEF j
  <2>3. Releases(Append(js, j), x)
    BY <2>2, Appended DEF Releases
  <2>4. slot[x] # 0 => Releases(jobs', x)
    BY <1>12, <2>3 DEF Examined, j
  <2>5. ASSUME NEW r, r # x, Releases(js, r) PROVE Releases(jobs', r)
    BY <1>12, <2>2, <2>5, ReleasesKept DEF Examined, j
  <2> QED BY <1>3, <1>12, <2>1, <2>4, <2>5
<1>13. CASE UpdateReaderInfo
  <2>1. jobs # <<>> /\ Head(jobs).job # "release" /\ workers' = workers
    BY <1>13 DEF UpdateReaderInfo, Running
  <2>2. \A r \in Readers : linked[r] => Connected(workers, r) \/ Releases(Tail(jobs), r)
    BY <1>2, <1>4, <2>1
  <2>3. CASE linked' = linked /\ jobs' = Tail(jobs)
    BY <1>3, <2>1, <2>2, <2>3
  <2>4. CASE /\ Noticed(Head(jobs).arg) /\ UpdateCard(Head(jobs).arg)
             /\ jobs' = Examined(Tail(jobs), Head(jobs).arg)
    BY <1>4, <1>12, <2>1, <2>2, <2>4 DEF Noticed
  <2> QED BY <1>13, <2>3, <2>4 DEF UpdateReaderInfo
<1>14. CASE \E r \in Readers : Poll(r)
  BY <1>1, <1>2, <1>12, <1>14 DEF Poll, Noticed
<1>15. CASE UpdateReaders
  <2> DEFINE left == WithoutReleases(jobs, known \ plugged)
             new == {r \in plugged \ known : slot[r] # 0}
             more == Examinations(new)
  <2>1. new \in SUBSET Readers
    BY <1>1
  <2> HIDE DEF new
  <2>2. /\ more \in Seq(JobSet) /\ \A i \in DOMAIN more : more[i].job = "release"
        /\ \A r \in new : \E i \in DOMAIN more : more[i].arg = r
    BY <2>1, ExaminationJobs
  <2>3. left \in Seq(JobSet) /\ jobs' = left \o more
    BY <1>1, <1>15, ReleasesTaken DEF UpdateReaders, new
  <2> HIDE DEF left, more
  <2>4. \A r \in Readers : linked'[r] => r \in new \/ (linked[r] /\ r \in plugged)
    BY <1>15 DEF UpdateReaders, new
  <2>5. \A r \in plugged : Connected(workers, r) => Connected(workers', r)
    BY <1>15 DEF UpdateReaders, Connected
  <2>6. ASSUME NEW r \in plugged, Releases(jobs, r) PROVE Releases(jobs', r)
    <3>1. Releases(left, r)
      BY <1>1, <2>6, ReleasesKept DEF left
    <3> QED BY <2>2, <2>3, <3>1, ReleasesKept
  <2>7. ASSUME NEW r \in new PROVE Releases(jobs', r)
    <3>1. Releases(more, r)
      BY <2>2 DEF Releases
    <3> QED BY <2>2, <2>3, <3>1, ReleasesAdded
  <2> QED BY <1>2, <1>3, <2>4, <2>5, <2>6, <2>7
<1>16. CASE Environment
  <2>1. linked' = linked /\ workers' = workers /\ jobs' = jobs
    BY <1>16 DEF Environment, PlugIn, Unplug, PutCard, TakeCard, software, plugIn
  <2> QED BY <1>2, <1>3, <2>1
<1> QED
  BY <1>6, <1>7, <1>8, <1>9, <1>10, <1>11, <1>13, <1>14, <1>15, <1>16 DEF ReaderThread, Timers

LEMMA NotLeakedMain ==
    ASSUME TypeOK, WorkersOwned, CardNotLeaked, MainThread \/ Program
    PROVE  CardNotLeaked'
<1>1. /\ jobs \in Seq(JobSet) /\ IsFiniteSet(DOMAIN workers) /\ DOMAIN workers \in SUBSET Nat
      /\ target \in [Commands -> Readers \cup {None}] /\ conn \in [Commands -> Connection \cup {None}]
  BY DEF TypeOK
<1>2. linked' = linked /\ workers' = workers
  BY DEF MainThread, FullUpdate, FullUpdateDone, NewsArrives, ExecuteCommand, NoConnection,
         NewConnection, ConnectionMade, Answer, Leave, DeleteCommand, Resume, Program, Call, GiveUp,
         Use, Scan, ShutDown, readerSide, plugIn
<1>3. ASSUME \A r : Releases(jobs, r) => Releases(jobs', r) PROVE CardNotLeaked'
  BY <1>2, <1>3, NotLeaked, NotLeakedNext
<1>4. ASSUME NEW new \in Seq(JobSet), jobs' = jobs \o new PROVE CardNotLeaked'
  BY <1>1, <1>3, <1>4, ReleasesKept
<1>5. ASSUME NEW what \in {"create", "start", "stop", "use"} \cup Calls,
             NEW arg \in Readers \cup Nat \cup {None}, jobs' = Append(jobs, Job(what, arg))
      PROVE  CardNotLeaked'
  <2>1. Job(what, arg) \in JobSet
    BY DEF Job, JobSet
  <2> QED BY <1>1, <1>3, <1>5, <2>1, ReleasesKept
<1>6. jobs' = jobs => CardNotLeaked'
  BY <1>3
<1>7. CASE FullUpdate
  BY <1>5, <1>6, <1>7 DEF FullUpdate, Calls
<1>8. CASE FullUpdateDone \/ NewsArrives \/ Resume
  BY <1>6, <1>8 DEF FullUpdateDone, NewsArrives, Resume
<1>9. CASE ExecuteCommand
  <2>1. Arrived.command \in Commands
    BY <1>9, ArrivedEvent DEF ExecuteCommand, Arrives, Arrived
  <2>2. target[Arrived.command] \in Readers \cup Nat \cup {None}
    BY <1>1, <2>1
  <2> QED BY <1>5, <1>6, <1>9, <2>2 DEF ExecuteCommand
<1>10. CASE NoConnection \/ ConnectionMade \/ DeleteCommand
  <2>1. \E cn, es : jobs' = jobs \o Orphans(workers, cn, es, jobs)
    BY <1>10 DEF NoConnection, ConnectionMade, DeleteCommand, Answer, Leave
  <2> QED BY <1>1, <1>4, <2>1, OrphansDestroyed
<1>11. CASE NewConnection
  <2>1. Arrived \in CreatedSet
    BY <1>11, ArrivedEvent DEF NewConnection, Arrives, Arrived
  <2>2. Arrived.worker \in Readers \cup Nat \cup {None}
    BY <2>1 DEF CreatedSet
  <2> QED BY <1>5, <1>11, <2>2 DEF NewConnection, Calls
<1>12. ASSUME NEW c \in Commands, NEW polls \in BOOLEAN, GiveUp(c, polls) PROVE CardNotLeaked'
  <2> DEFINE orphans == Orphans(workers, conn', events', jobs)
             left == jobs \o orphans
             more == IF polls THEN <<Job("update", target[c])>> ELSE <<>>
  <2>1. orphans \in Seq(JobSet)
    BY <1>1, OrphansDestroyed
  <2>2. Job("update", target[c]) \in JobSet
    BY <1>1 DEF Job, JobSet, Calls
  <2>3. more \in Seq(JobSet)
    BY <2>2
  <2>4. jobs' = left \o more
    BY <1>12 DEF GiveUp
  <2> HIDE DEF orphans, more
  <2>5. left \in Seq(JobSet) /\ \A r : Releases(jobs, r) => Releases(left, r)
    BY <1>1, <2>1, ReleasesKept
  <2> HIDE DEF left
  <2>6. \A r : Releases(left, r) => Releases(jobs', r)
    BY <2>3, <2>4, <2>5, ReleasesKept
  <2> QED BY <1>3, <2>5, <2>6
<1>13. ASSUME NEW c \in Commands, Use(c) PROVE CardNotLeaked'
  <2>1. conn[c].worker \in Nat
    BY <1>1, <1>13 DEF Use, Connection
  <2> QED BY <1>5, <1>13, <2>1 DEF Use
<1>14. ASSUME NEW what \in {"start", "stop"}, Scan(what) PROVE CardNotLeaked'
  BY <1>5, <1>14 DEF Scan
<1>15. CASE ShutDown
  BY <1>5, <1>15 DEF ShutDown, Calls
<1>16. ASSUME NEW c \in Commands, NEW r \in Readers, Call(c, r) PROVE CardNotLeaked'
  BY <1>6, <1>16 DEF Call
<1> QED
  BY <1>7, <1>8, <1>9, <1>10, <1>11, <1>12, <1>13, <1>14, <1>15, <1>16 DEF MainThread, Program
-----------------------------------------------------------------------------
(* Theorems *)

LEMMA InitIInv == ReaderManagerInit => IInv
<1> SUFFICES ASSUME ReaderManagerInit PROVE IInv
  OBVIOUS
<1>1. /\ DOMAIN workers = {} /\ jobs = <<>> /\ DOMAIN jobs = {} /\ events = <<Status>>
      /\ DOMAIN events = {1} /\ events[1] = Status /\ known = {} /\ blocked = None /\ running
      /\ \A r \in Readers : ~linked[r] /\ cache[r] = Absent
      /\ conn = [c \in Commands |-> None]
  BY DEF ReaderManagerInit
<1>2. events \in Seq(EventSet) /\ events[1].type = "status" /\ \A i \in DOMAIN events : events[i].type = "status"
  BY <1>1, EventTypes
<1>3. TypeOK
  <2>1. IsFiniteSet(DOMAIN workers)
    BY <1>1, FS_EmptySet
  <2>2. workers \in [DOMAIN workers -> Readers \cup {None}]
    BY <1>1 DEF ReaderManagerInit
  <2>3. jobs \in Seq(JobSet)
    BY <1>1
  <2> QED BY <1>1, <1>2, <2>1, <2>2, <2>3 DEF TypeOK, ReaderManagerInit, Absent
<1>4. WorkersOwned
  BY <1>1, <1>2 DEF WorkersOwned, Owned, Holders, ToldHold
<1>5. OneCall /\ Awaited /\ Stopping
  BY <1>1 DEF OneCall, CallsOnce, Awaited, Waits, Stopping, NoStartAfter
<1>6. CacheFollows
  <2>1. \A i \in DOMAIN events : \A r : ~IsNews(events[i], r)
    BY <1>2 DEF IsNews
  <2>2. \A r \in Readers : Value(r) = Absent
    BY <1>1 DEF Value
  <2> QED BY <1>1, <2>1, <2>2 DEF CacheFollows, Latest, Waits
<1>7. CardNotLeaked
  BY <1>1 DEF CardNotLeaked
<1> QED BY <1>3, <1>4, <1>5, <1>6, <1>7 DEF IInv

LEMMA NextIInv == IInv /\ [ReaderManagerNext]_vars => IInv'
<1> SUFFICES ASSUME IInv, [ReaderManagerNext]_vars PROVE IInv'
  OBVIOUS
<1>1. TypeOK /\ WorkersOwned /\ OneCall /\ Awaited /\ Stopping /\ CacheFollows /\ CardNotLeaked
  BY DEF IInv
<1>2. ASSUME ReaderManagerNext PROVE jobs' \in Seq(JobSet) /\ OneCall' /\ Stopping' /\ CallStep
  <2>1. CallStep
    BY <1>1, <1>2, ReaderThreadCalls, MainThreadCalls DEF ReaderManagerNext
  <2> QED BY <1>1, <1>2, <2>1, OneCallStep, PlugInSteps, StoppingStep
<1>3. ASSUME WorkersOwned', WorkerTypes', WorldTypes', jobs' \in Seq(JobSet),
             events' \in Seq(EventSet), conn' \in ConnSet
      PROVE  TypeOK'
  BY <1>3 DEF TypeOK, WorkerTypes, WorldTypes, ConnSet
<1>4. CASE ReaderThread \/ Timers \/ RestartPlugIn \/ Environment
  <2>1. jobs' \in Seq(JobSet) /\ OneCall' /\ Stopping' /\ CallStep
    BY <1>2, <1>4 DEF ReaderManagerNext
  <2>2. Awaited'
    BY <1>1, <1>4, <2>1, AwaitedReader
  <2>3. WorkersOwned' /\ WorkerTypes' /\ WorldTypes' /\ CacheFollows' /\ CardNotLeaked'
    BY <1>1, <1>4, ReaderOwned, WorldReader, CacheReader, NotLeakedReader
  <2>4. events' \in Seq(EventSet)
    <3>1. PICK new : Tells(new)
      BY <1>1, <1>4, ReaderThreadTells
    <3> QED BY <1>1, <3>1, Joined DEF Tells, TypeOK
  <2>5. conn' \in ConnSet
    <3>1. conn' = conn
      BY <1>4
      DEF ReaderThread, StartScan, StopScan, CreateWorker, DestroyWorker, EndExamination, UseCard,
          GetReaderInfos, GetReaderInfo, UpdateReaderInfo, ShutDownWorker, Leave, Timers,
          UpdateReaders, Poll, RestartPlugIn, Environment, PlugIn, Unplug, PutCard, TakeCard, software
    <3> QED BY <1>1, <3>1 DEF TypeOK, ConnSet
  <2> QED BY <1>3, <2>1, <2>2, <2>3, <2>4, <2>5 DEF IInv
<1>5. CASE MainThread \/ Program
  <2>1. jobs' \in Seq(JobSet) /\ OneCall' /\ Stopping'
    BY <1>2, <1>5 DEF ReaderManagerNext
  <2>2. Awaited' /\ CacheFollows' /\ CardNotLeaked'
    BY <1>1, <1>5, <2>1, AwaitedMain, CacheMain, NotLeakedMain
  <2>3. WorkersOwned' /\ WorkerTypes' /\ WorldTypes'
    BY <1>1, <1>5, MainOwned, WorldMain
  <2>4. events' \in Seq(EventSet) /\ conn' \in ConnSet
    BY <1>1, <1>5, MainEvents DEF EventsLeft
  <2> QED BY <1>3, <2>1, <2>2, <2>3, <2>4 DEF IInv
<1>6. CASE UNCHANGED vars
  <2>1. /\ UNCHANGED world /\ UNCHANGED plugIn /\ UNCHANGED commands /\ changes' = changes
        /\ workers' = workers /\ jobs' = jobs /\ running' = running /\ blocked' = blocked
        /\ cache' = cache /\ events' = events /\ conn' = conn
    BY <1>6 DEF vars
  <2>2. /\ plugged' = plugged /\ slot' = slot /\ scanning' = scanning /\ known' = known
        /\ info' = info /\ linked' = linked /\ target' = target
    BY <2>1 DEF world, plugIn, commands
  <2>3. TypeOK' /\ WorkersOwned'
    BY <1>1, <2>1, <2>2 DEF TypeOK, WorkersOwned
  <2>4. OneCall' /\ Awaited' /\ Stopping'
    BY <1>1, <2>1, <2>2 DEF OneCall, Awaited, Stopping, Waits
  <2>5. CacheFollows' /\ CardNotLeaked'
    BY <1>1, <2>1, <2>2 DEF CacheFollows, CardNotLeaked, Value, Waits
  <2> QED BY <2>3, <2>4, <2>5 DEF IInv
<1> QED BY <1>4, <1>5, <1>6 DEF ReaderManagerNext

\* Everything the reader thread and the main thread share is of its type.
THEOREM ReaderManagerTypeOK == ReaderManagerSpec => []TypeOK
<1>1. IInv => TypeOK
  BY DEF IInv
<1> QED BY <1>1, InitIInv, NextIInv, PTL DEF ReaderManagerSpec

\* Once nothing more is on its way about a reader, the cache of the
\* ReaderManager says of it what the reader thread knows: a full update that
\* overtakes the signals of the plug-in does no lasting harm.
THEOREM CacheAlwaysSettles == ReaderManagerSpec => []CacheSettles
<1>1. IInv => CacheSettles
  BY DEF IInv, CacheFollows, CacheSettles, Silent, IsNews, Value
<1> QED BY <1>1, InitIInv, NextIInv, PTL DEF ReaderManagerSpec

\* Whatever the order in which workers are created and deleted, a card that is
\* connected has a CardConnectionWorker that will disconnect it, or is just
\* examined.
THEOREM CardNeverLeaked == ReaderManagerSpec => []CardNotLeaked
<1>1. IInv => CardNotLeaked
  BY DEF IInv
<1> QED BY <1>1, InitIInv, NextIInv, PTL DEF ReaderManagerSpec

\* Whoever holds a CardConnectionWorker, and every command to it, finds it
\* alive: the shared pointers of CardConnections, of signals and of commands
\* delete it once, after the last of them.
THEOREM WorkersAlwaysOwned == ReaderManagerSpec => []WorkersOwned
<1>1. IInv => WorkersOwned
  BY DEF IInv
<1> QED BY <1>1, InitIInv, NextIInv, PTL DEF ReaderManagerSpec

\* The main thread waits for one call at a time, and nothing that it started
\* before the end scans for readers after it.
THEOREM CallsInOrder == ReaderManagerSpec => [](OneCall /\ Stopping)
<1>1. IInv => OneCall /\ Stopping
  BY DEF IInv
<1> QED BY <1>1, InitIInv, NextIInv, PTL DEF ReaderManagerSpec
=============================================================================
