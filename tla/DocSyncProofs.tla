---------------------------- MODULE DocSyncProofs ----------------------------
(***************************************************************************)
(* Proofs about DocSync, for any number of documents, paths, people's acts *)
(* and faults: IInv is an invariant, hence TypeOK and RecordHonest are,    *)
(* the engine keeps what Mirror promises, a conflict waits for the copy of *)
(* its own version, an undone deletion is ignored, the feed is never read  *)
(* past a change that was not applied, and an upload replaces only what    *)
(* the person saw.                                                         *)
(***************************************************************************)
EXTENDS DocSync, TLAPS

-----------------------------------------------------------------------------
(* Versions are only ever added.                                           *)

Grows == \A d \in Docs : \A v \in DOMAIN hist[d] :
            v \in DOMAIN hist'[d] /\ hist'[d][v] = hist[d][v]

\* What is published is some version of some document.
LEMMA PublishedIs ==
    \A h, x : x \in UNION {{h[d][v] : v \in DOMAIN h[d]} : d \in Docs}
              <=> \E d \in Docs : \E v \in DOMAIN h[d] : x = h[d][v]
  OBVIOUS

\* A version, once published, stays published.
LEMMA PublishedGrows == Grows => Published \subseteq Published'
  <1> SUFFICES ASSUME Grows, NEW x \in Published PROVE x \in Published'
    OBVIOUS
  <1>1. PICK d \in Docs : \E v \in DOMAIN hist[d] : x = hist[d][v]
    BY PublishedIs DEF Published, Versions
  <1>2. \E v \in DOMAIN hist'[d] : x = hist'[d][v]
    BY <1>1 DEF Grows
  <1> QED
    BY <1>2, PublishedIs DEF Published, Versions

\* An honest record's content is published.
LEMMA HonestIsPublished ==
    ASSUME NEW d \in Docs, NEW v, NEW x, Honest(d, v, x) PROVE x \in Published
  BY PublishedIs DEF Honest, Published, Versions

\* What was said honestly of a version stays true.
LEMMA HonestGrows ==
    ASSUME Grows, NEW d \in Docs, NEW v, NEW x, Honest(d, v, x) PROVE Honest(d, v, x)'
  BY DEF Grows, Honest, Versions

-----------------------------------------------------------------------------
(* The module.                                                             *)

HistOK == hist \in [Docs -> Seq(Contents)]

\* A new version of a document.
LEMMA AppendsVersion ==
    ASSUME HistOK, NEW d \in Docs, NEW x \in Contents,
           NEW n, n = Current(d) + 1,
           hist' = [hist EXCEPT ![d] = Append(@, x)]
    PROVE /\ HistOK' /\ Grows
          /\ \A e \in Docs : hist'[e] = <<>> <=> e # d /\ hist[e] = <<>>
          /\ Honest(d, n, x)'
  <1>1. hist'[d] = Append(hist[d], x) /\ \A e \in Docs \ {d} : hist'[e] = hist[e]
    BY DEF HistOK
  <1>2. hist[d] \in Seq(Contents)
    BY DEF HistOK
  <1>3. /\ hist'[d] \in Seq(Contents) /\ hist'[d] # <<>>
        /\ Len(hist'[d]) = Len(hist[d]) + 1 /\ hist'[d][Len(hist[d]) + 1] = x
        /\ DOMAIN hist[d] \subseteq DOMAIN hist'[d]
        /\ \A v \in DOMAIN hist[d] : hist'[d][v] = hist[d][v]
    BY <1>1, <1>2
  <1>4. HistOK'
    BY <1>3 DEF HistOK
  <1>5. Grows
    BY <1>1, <1>3 DEF Grows
  <1>6. Honest(d, n, x)'
    BY <1>2, <1>3 DEF Honest, Versions, Current
  <1> QED
    BY <1>1, <1>3, <1>4, <1>5, <1>6

\* The first version of a document.
LEMMA FirstVersion ==
    ASSUME HistOK, NEW d \in Docs, NEW x \in Contents, hist[d] = <<>>,
           hist' = [hist EXCEPT ![d] = <<x>>]
    PROVE /\ HistOK' /\ Grows
          /\ \A e \in Docs : hist'[e] = <<>> <=> e # d /\ hist[e] = <<>>
          /\ Honest(d, 1, x)'
  <1>1. hist'[d] = <<x>> /\ \A e \in Docs \ {d} : hist'[e] = hist[e]
    BY DEF HistOK
  <1>2. DOMAIN hist[d] = {} /\ <<x>> \in Seq(Contents) /\ 1 \in DOMAIN <<x>> /\ <<x>> # <<>>
    OBVIOUS
  <1> QED
    BY <1>1, <1>2 DEF HistOK, Grows, Honest, Versions

\* A notification of a change that may be sent keeps the buffer well formed.
LEMMA NotifyOK ==
    ASSUME notes \in Seq(Notices), NEW n \in Notices, Notify(n)
    PROVE notes' \in Seq(Notices)
  BY DEF Notify

\* Announcing a change adds one entry to the feed.
LEMMA AnnounceOK ==
    ASSUME ModuleOK, NEW e \in Entries, NEW r \in BOOLEAN, Announce(e, r)
    PROVE feed' \in Seq(Entries) /\ Len(feed) <= Len(feed') /\ notes' \in Seq(Notices)
  <1>1. feed' = Append(feed, e) /\ feed \in Seq(Entries)
    BY DEF Announce, ModuleOK
  <1>2. feed' \in Seq(Entries) /\ Len(feed) <= Len(feed')
    BY <1>1
  <1>3. e \in Notices /\ (Notify(e) \/ notes' = notes) /\ notes \in Seq(Notices)
    BY DEF Announce, Notices, ModuleOK
  <1> QED
    BY <1>2, <1>3, NotifyOK

\* The current version's content, once there is one.
LEMMA ContentOK ==
    ASSUME HistOK, NEW d \in Docs, hist[d] # <<>>
    PROVE Content(d) \in Contents /\ Current(d) \in Nat /\ Honest(d, Current(d), Content(d))
  <1>1. hist[d] \in Seq(Contents) /\ Len(hist[d]) \in DOMAIN hist[d]
    BY DEF HistOK
  <1> QED
    BY <1>1 DEF Content, Current, Honest, Versions

DocOK == doc \in [Docs -> [life : Lives, path : Paths, readable : BOOLEAN, locked : BOOLEAN]]
CountersOK == floor \in Nat /\ fresh \in Contents /\ acts \in Nat
FeedOK == feed \in Seq(Entries) /\ notes \in Seq(Notices)

\* The module's part of the type invariant, conjunct by conjunct under names.
LEMMA ModuleOKIs == ModuleOK <=> DocOK /\ HistOK /\ CountersOK /\ FeedOK
  BY DEF ModuleOK, DocOK, HistOK, CountersOK, FeedOK

\* What people do in the module.
LEMMA OtherPeopleOK ==
    ASSUME ModuleOK, HistFits, OtherPeople
    PROVE ModuleOK' /\ HistFits' /\ Grows /\ Len(feed) <= Len(feed')
  <1> USE DEF Other
  <1>a. DocOK /\ HistOK /\ CountersOK /\ FeedOK
    BY ModuleOKIs
  <1>b. SUFFICES DocOK' /\ HistOK' /\ CountersOK' /\ FeedOK' /\ HistFits' /\ Grows
                 /\ Len(feed) <= Len(feed')
    BY DEF ModuleOK, DocOK, HistOK, CountersOK, FeedOK
  <1>1. ASSUME NEW d \in Docs, NEW p \in Paths, OtherCreates(d, p)
        PROVE DocOK' /\ HistOK' /\ CountersOK' /\ FeedOK' /\ HistFits' /\ Grows
              /\ Len(feed) <= Len(feed')
    <2>1. Change("changed", d, p, 1) \in Entries
      BY DEF Change, Entries
    <2>2. FeedOK' /\ Len(feed) <= Len(feed')
      BY <1>1, <2>1, AnnounceOK DEF OtherCreates, FeedOK
    <2>3. HistOK' /\ Grows /\ \A e \in Docs : hist'[e] = <<>> <=> e # d /\ hist[e] = <<>>
      BY <1>1, <1>a, FirstVersion DEF OtherCreates, HistFits, CountersOK
    <2>4. DocOK'
      BY <1>1, <1>a DEF OtherCreates, DocOK, Lives
    <2>5. HistFits'
      BY <1>1, <1>a, <2>3 DEF OtherCreates, HistFits, DocOK
    <2>6. CountersOK'
      BY <1>1, <1>a DEF OtherCreates, CountersOK, Contents
    <2> QED
      BY <2>2, <2>3, <2>4, <2>5, <2>6
  <1>2. ASSUME NEW d \in Docs, OtherSaves(d)
        PROVE DocOK' /\ HistOK' /\ CountersOK' /\ FeedOK' /\ HistFits' /\ Grows
              /\ Len(feed) <= Len(feed')
    <2>1. hist[d] # <<>> /\ doc[d].path \in Paths /\ doc[d].readable \in BOOLEAN
      BY <1>2, <1>a DEF OtherSaves, HistFits, DocOK
    <2>2. Change("changed", d, doc[d].path, Current(d) + 1) \in Entries
      BY <2>1, <1>a, ContentOK DEF Change, Entries
    <2>3. FeedOK' /\ Len(feed) <= Len(feed')
      BY <1>2, <2>1, <2>2, AnnounceOK DEF OtherSaves, FeedOK
    <2>4. HistOK' /\ Grows /\ \A e \in Docs : hist'[e] = <<>> <=> e # d /\ hist[e] = <<>>
      BY <1>2, <1>a, AppendsVersion DEF OtherSaves, CountersOK
    <2>5. DocOK' /\ HistFits' /\ CountersOK'
      BY <1>2, <1>a, <2>1, <2>4 DEF OtherSaves, HistFits, DocOK, CountersOK, Contents
    <2> QED
      BY <2>3, <2>4, <2>5
  <1>3. ASSUME NEW d \in Docs, NEW p \in Paths, OtherMoves(d, p)
        PROVE DocOK' /\ HistOK' /\ CountersOK' /\ FeedOK' /\ HistFits' /\ Grows
              /\ Len(feed) <= Len(feed')
    <2>1. hist[d] # <<>> /\ doc[d].readable \in BOOLEAN
      BY <1>3, <1>a DEF OtherMoves, HistFits, DocOK
    <2>2. Change("changed", d, p, Current(d)) \in Entries
      BY <2>1, <1>a, ContentOK DEF Change, Entries
    <2>3. FeedOK' /\ Len(feed) <= Len(feed')
      BY <1>3, <2>1, <2>2, AnnounceOK DEF OtherMoves, FeedOK
    <2>4. UNCHANGED <<hist, floor, fresh>> /\ doc' = [doc EXCEPT ![d].path = p] /\ acts' = acts + 1
      BY <1>3 DEF OtherMoves
    <2>5. DocOK' /\ CountersOK' /\ HistOK' /\ Grows
      <3>1. DocOK'
        BY <1>a, <2>4 DEF DocOK
      <3>2. CountersOK'
        BY <1>a, <2>4 DEF CountersOK
      <3>3. HistOK' /\ Grows
        BY <1>a, <2>4 DEF HistOK, Grows
      <3> QED
        BY <3>1, <3>2, <3>3
    <2>6. HistFits'
      BY <1>a, <2>4 DEF HistFits, DocOK
    <2> QED
      BY <2>3, <2>5, <2>6
  <1>4. ASSUME NEW d \in Docs, OtherDeletes(d)
        PROVE DocOK' /\ HistOK' /\ CountersOK' /\ FeedOK' /\ HistFits' /\ Grows
              /\ Len(feed) <= Len(feed')
    <2>1. hist[d] # <<>> /\ doc[d].path \in Paths
      BY <1>4, <1>a DEF OtherDeletes, HistFits, DocOK
    <2>2. \A v \in {0, Current(d)} : Change("deleted", d, doc[d].path, v) \in Entries \cap Notices
      BY <2>1, <1>a, ContentOK DEF Change, Entries, Notices
    <2>3. notes' \in Seq(Notices)
      BY <1>4, <1>a, <2>2, NotifyOK DEF OtherDeletes, FeedOK
    <2>4. feed' \in Seq(Entries) /\ Len(feed) <= Len(feed')
      BY <1>4, <1>a, <2>2 DEF OtherDeletes, FeedOK
    <2>5. DocOK'
      BY <1>4, <1>a DEF OtherDeletes, DocOK, Lives
    <2>6. HistFits'
      BY <1>4, <1>a DEF OtherDeletes, HistFits, DocOK
    <2>7. CountersOK' /\ HistOK' /\ Grows
      BY <1>4, <1>a DEF OtherDeletes, CountersOK, Grows, HistOK
    <2> QED
      BY <2>3, <2>4, <2>5, <2>6, <2>7 DEF FeedOK
  <1>5. ASSUME NEW d \in Docs, OtherRestores(d)
        PROVE DocOK' /\ HistOK' /\ CountersOK' /\ FeedOK' /\ HistFits' /\ Grows
              /\ Len(feed) <= Len(feed')
    <2>1. hist[d] # <<>> /\ doc[d].path \in Paths /\ doc[d].readable \in BOOLEAN
      BY <1>5, <1>a DEF OtherRestores, HistFits, DocOK
    <2>2. Change("changed", d, doc[d].path, Current(d) + 1) \in Entries /\ Content(d) \in Contents
      BY <2>1, <1>a, ContentOK DEF Change, Entries
    <2>3. FeedOK' /\ Len(feed) <= Len(feed')
      BY <1>5, <2>1, <2>2, AnnounceOK DEF OtherRestores, FeedOK
    <2>4. HistOK' /\ Grows /\ \A e \in Docs : hist'[e] = <<>> <=> e # d /\ hist[e] = <<>>
      BY <1>5, <1>a, <2>2, AppendsVersion DEF OtherRestores
    <2>5. DocOK' /\ HistFits' /\ CountersOK'
      BY <1>5, <1>a, <2>1, <2>4 DEF OtherRestores, HistFits, DocOK, CountersOK, Lives
    <2> QED
      BY <2>3, <2>4, <2>5
  <1>6. ASSUME NEW d \in Docs, OtherChangesAccess(d) \/ LockEnds(d)
        PROVE DocOK' /\ HistOK' /\ CountersOK' /\ FeedOK' /\ HistFits' /\ Grows
              /\ Len(feed) <= Len(feed')
    <2>1. Change("access", 0, None, 0) \in Notices /\ Change("unlocked", d, None, 0) \in Notices
      BY DEF Change, Notices
    <2>2. FeedOK' /\ Len(feed) <= Len(feed')
      BY <1>6, <1>a, <2>1, NotifyOK DEF OtherChangesAccess, LockEnds, FeedOK
    <2>3. DocOK'
      <3>1. CASE doc' = [doc EXCEPT ![d].readable = ~@]
        BY <1>a, <3>1 DEF DocOK
      <3>2. CASE doc' = [doc EXCEPT ![d].locked = FALSE]
        BY <1>a, <3>2 DEF DocOK
      <3> QED
        BY <1>6, <3>1, <3>2 DEF OtherChangesAccess, LockEnds
    <2>4. HistFits' /\ CountersOK' /\ HistOK' /\ Grows
      BY <1>6, <1>a DEF OtherChangesAccess, LockEnds, HistFits, DocOK, CountersOK, Grows, HistOK
    <2> QED
      BY <2>2, <2>3, <2>4
  <1>7. ASSUME NEW d \in Docs, OtherLocks(d)
        PROVE DocOK' /\ HistOK' /\ CountersOK' /\ FeedOK' /\ HistFits' /\ Grows
              /\ Len(feed) <= Len(feed')
    <2>1. DocOK'
      BY <1>7, <1>a DEF OtherLocks, DocOK
    <2>2. HistFits'
      BY <1>7, <1>a DEF OtherLocks, DocOK, HistFits
    <2> QED
      BY <1>7, <1>a, <2>1, <2>2 DEF OtherLocks, CountersOK, Grows, HistOK, FeedOK
  <1>8. ASSUME TrimFeed
        PROVE DocOK' /\ HistOK' /\ CountersOK' /\ FeedOK' /\ HistFits' /\ Grows
              /\ Len(feed) <= Len(feed')
    BY <1>8, <1>a DEF TrimFeed, HistFits, DocOK, CountersOK, Grows, HistOK, FeedOK
  <1> QED
    BY <1>1, <1>2, <1>3, <1>4, <1>5, <1>6, <1>7, <1>8 DEF OtherPeople

-----------------------------------------------------------------------------
(* The daemon's writes to the module.                                      *)

\* A save the module accepts.
LEMMA ModuleSavesOK ==
    ASSUME ModuleOK, HistFits, NEW d \in Docs, NEW x \in Contents, doc[d].life # "unborn",
           NEW n, n = Current(d) + 1, ModuleSaves(d, x)
    PROVE /\ DocOK' /\ HistOK' /\ CountersOK' /\ HistFits' /\ Grows
          /\ feed' \in Seq(Entries) /\ Len(feed) < Len(feed')
          /\ Honest(d, n, x)' /\ n \in Nat
  <1>1. DocOK /\ HistOK /\ CountersOK /\ FeedOK /\ hist[d] # <<>> /\ doc[d].path \in Paths
    BY ModuleOKIs DEF HistFits, DocOK
  <1>2. HistOK' /\ Grows /\ (\A e \in Docs : hist'[e] = <<>> <=> e # d /\ hist[e] = <<>>)
        /\ Honest(d, n, x)'
    BY <1>1, AppendsVersion DEF ModuleSaves
  <1>3. Change("changed", d, doc[d].path, Current(d) + 1) \in Entries /\ n \in Nat
    BY <1>1, ContentOK DEF Change, Entries
  <1>4. feed' \in Seq(Entries) /\ Len(feed) < Len(feed')
    BY <1>1, <1>3 DEF ModuleSaves, FeedOK
  <1>5. DocOK' /\ CountersOK' /\ HistFits'
    BY <1>1, <1>2 DEF ModuleSaves, HistFits, DocOK, CountersOK
  <1> QED
    BY <1>2, <1>3, <1>4, <1>5

\* A creation the module accepts.
LEMMA ModuleCreatesOK ==
    ASSUME ModuleOK, HistFits, NEW d \in Docs, NEW x \in Contents, NEW p \in Paths,
           hist[d] = <<>>, ModuleCreates(d, p, x)
    PROVE /\ DocOK' /\ HistOK' /\ CountersOK' /\ HistFits' /\ Grows
          /\ feed' \in Seq(Entries) /\ Len(feed) < Len(feed')
          /\ Honest(d, 1, x)'
  <1>1. DocOK /\ HistOK /\ CountersOK /\ FeedOK
    BY ModuleOKIs
  <1>2. HistOK' /\ Grows /\ (\A e \in Docs : hist'[e] = <<>> <=> e # d /\ hist[e] = <<>>)
        /\ Honest(d, 1, x)'
    BY <1>1, FirstVersion DEF ModuleCreates
  <1>3. Change("changed", d, p, 1) \in Entries
    BY DEF Change, Entries
  <1>4. feed' \in Seq(Entries) /\ Len(feed) < Len(feed')
    BY <1>1, <1>3 DEF ModuleCreates, FeedOK
  <1>5. DocOK' /\ CountersOK'
    BY <1>1 DEF ModuleCreates, DocOK, CountersOK, Lives
  <1>6. HistFits'
    BY <1>1, <1>2 DEF ModuleCreates, HistFits, DocOK
  <1> QED
    BY <1>2, <1>3, <1>4, <1>5, <1>6

\* The daemon is notified of the last entry of the feed.
LEMMA EchoOK ==
    ASSUME notes \in Seq(Notices), feed' \in Seq(Entries), Len(feed) < Len(feed'),
           feed \in Seq(Entries), Echo
    PROVE notes' \in Seq(Notices)
  <1>1. feed'[Len(feed')] \in Notices
    BY DEF Notices
  <1> QED
    BY <1>1, NotifyOK DEF Echo

-----------------------------------------------------------------------------
(* The folder, the database and the operation in progress.                 *)

FilesOK == file \in [Paths -> Nat] /\ copies \subseteq Copies /\ aside \subseteq Contents
RecOK == rec \in [Docs -> Records \cup {None}]
PendingOK == pending \in [Paths -> Docs \cup {None}]
Types == FilesOK /\ RecOK /\ PendingOK /\ op \in Steps

Core == /\ Types /\ OpFits
        /\ ~RetryReturnsAny => Honesty
        /\ ~RetryReturnsAny /\ ~EditorRace => ReplacedIsSafe

\* The folder's part of the type invariant, conjunct by conjunct under names.
LEMMA FolderOKIs == FolderOK <=> Types
  BY DEF FolderOK, Types, FilesOK, RecOK, PendingOK

\* What a record holds.
LEMMA KnownOK ==
    ASSUME RecOK, NEW d \in Docs, Known(d)
    PROVE /\ rec[d] \in Records /\ rec[d].path \in Paths /\ rec[d].ver \in Nat
          /\ rec[d].sum \in Contents /\ rec[d].conf \in (Paths \X Nat) \cup {None}
  BY DEF RecOK, Known, Records

\* Storing a record: d has it, another document keeps its own or loses it.
LEMMA PutDocOK ==
    ASSUME RecOK, NEW d \in Docs, NEW r \in Records, PutDoc(d, r)
    PROVE RecOK' /\ rec'[d] = r /\ Known(d)' /\ \A e \in Docs \ {d} : rec'[e] \in {None, rec[e]}
  BY RecordAssumption DEF RecOK, PutDoc, Known

\* Forgetting a record leaves the others honest (state.go DeleteDoc).
LEMMA DeleteDocOK ==
    ASSUME RecOK, NEW d \in Docs, DeleteDoc(d)
    PROVE RecOK' /\ \A e \in Docs : rec'[e] \in {None, rec[e]}
  BY DEF RecOK, DeleteDoc

\* Records stay honest when versions are only added and records only dropped.
LEMMA RecordsKept ==
    ASSUME Grows, RecordHonest, \A e \in Docs : rec'[e] \in {None, rec[e]}
    PROVE RecordHonest'
  <1> SUFFICES ASSUME NEW e \in Docs, Known(e)' PROVE Honest(e, rec[e].ver, rec[e].sum)'
    BY DEF RecordHonest
  <1>1. rec'[e] = rec[e] /\ Known(e)
    BY DEF Known
  <1> QED
    BY <1>1, HonestGrows DEF RecordHonest, Honest, Versions, Grows

\* A stored record is honest when what is stored is.
LEMMA PutHonest ==
    ASSUME Grows, RecOK, RecordHonest, NEW d \in Docs, NEW r \in Records, PutDoc(d, r),
           Honest(d, r.ver, r.sum)
    PROVE RecordHonest'
  <1> SUFFICES ASSUME NEW e \in Docs, Known(e)' PROVE Honest(e, rec[e].ver, rec[e].sum)'
    BY DEF RecordHonest
  <1>1. rec'[d] = r /\ \A f \in Docs \ {d} : rec'[f] \in {None, rec[f]}
    BY PutDocOK
  <1>2. CASE e = d
    BY <1>1, <1>2 DEF Honest, Versions, Grows
  <1>3. CASE e # d
    <2>1. rec'[e] = rec[e] /\ Known(e)
      BY <1>1, <1>3 DEF Known
    <2> QED
      BY <2>1 DEF RecordHonest, Honest, Versions, Grows
  <1> QED
    BY <1>2, <1>3

\* Whatever leaves the folder, the database and the operation alone.
LEMMA CoreKept ==
    ASSUME Core, Grows, UNCHANGED <<file, copies, aside, rec, pending, op>>
    PROVE Core'
  <1>1. (Types /\ OpFits)'
    BY DEF Core, Types, FilesOK, RecOK, PendingOK, OpFits, Known
  <1>2. ASSUME ~RetryReturnsAny PROVE Honesty'
    <2>1. RecordHonest'
      BY <1>2, RecordsKept DEF Core, Honesty
    <2>2. OpHonest'
      BY <1>2 DEF Core, Honesty, OpHonest, Honest, Versions, Grows, OpFits
    <2> QED
      BY <2>1, <2>2 DEF Honesty
  <1>3. ASSUME ~RetryReturnsAny, ~EditorRace PROVE ReplacedIsSafe'
    BY <1>3, PublishedGrows DEF Core, ReplacedIsSafe
  <1> QED
    BY <1>1, <1>2, <1>3 DEF Core

-----------------------------------------------------------------------------
(* Decisions.                                                              *)

\* Setting out to fetch a document keeps the core of the invariant.
LEMMA FetchOK ==
    ASSUME Core, UNCHANGED hist, NEW d \in Docs, NEW h \in BOOLEAN, h => Known(d), Fetch(d, h)
    PROVE Core' /\ op'.k = "get" /\ op'.id = d
  <1>1. op' \in Steps /\ op'.k = "get" /\ op'.id = d /\ op'.had = h
    BY DEF Fetch, Step, Steps, Kinds, Nothing
  <1>2. (Types /\ OpFits)'
    BY <1>1 DEF Core, Types, FilesOK, RecOK, PendingOK, OpFits, Known, Fetch, diskVars
  <1>3. ASSUME ~RetryReturnsAny PROVE Honesty'
    BY <1>1, <1>3 DEF Core, Honesty, RecordHonest, OpHonest, Honest, Versions, Known, Fetch
  <1>4. ReplacedIsSafe'
    BY <1>1 DEF ReplacedIsSafe
  <1> QED
    BY <1>1, <1>2, <1>3, <1>4 DEF Core

\* Doing nothing about a change keeps the core of the invariant.
LEMMA IgnoreOK ==
    ASSUME Core, UNCHANGED hist, Ignore PROVE Core' /\ op'.k = "idle"
  <1>1. op' \in Steps /\ op'.k = "idle" /\ op'.had = FALSE
    BY DEF Ignore, Idle, Step, Steps, Kinds, Nothing
  <1>2. (Types /\ OpFits)'
    BY <1>1 DEF Core, Types, FilesOK, RecOK, PendingOK, OpFits, Ignore, diskVars
  <1>3. ASSUME ~RetryReturnsAny PROVE Honesty'
    BY <1>1, <1>3 DEF Core, Honesty, RecordHonest, OpHonest, Honest, Versions, Known, Ignore
  <1>4. ReplacedIsSafe'
    BY <1>1 DEF ReplacedIsSafe
  <1> QED
    BY <1>1, <1>2, <1>3, <1>4 DEF Core

\* Moving a file to .sin-acceso keeps the core, and what it held is kept aside.
LEMMA MoveAsideOK ==
    ASSUME Core, UNCHANGED hist, NEW d \in Docs, Known(d), MoveAside(d)
    PROVE Core' /\ op'.k = "forget" /\ op'.id = d
  <1>1. rec[d].path \in Paths
    BY KnownOK DEF Core, Types
  <1>2. op' \in Steps /\ op'.k = "forget" /\ op'.id = d /\ op'.path = rec[d].path /\ op'.had = FALSE
    BY <1>1 DEF MoveAside, Step, Steps, Kinds, Nothing
  <1>3. FilesOK'
    <2>1. FilesOK /\ file[rec[d].path] \in Nat
      BY <1>1 DEF Core, Types, FilesOK
    <2>2. CASE file[rec[d].path] # Nothing
      <3>1. file[rec[d].path] \in Contents
        BY <2>1, <2>2 DEF Nothing, Contents
      <3>2. /\ aside' = aside \cup {file[rec[d].path]} /\ copies' = copies
            /\ file' = [file EXCEPT ![rec[d].path] = 0]
        BY <2>2 DEF MoveAside, Nothing
      <3> QED
        BY <1>1, <2>1, <3>1, <3>2 DEF FilesOK
    <2>3. CASE file[rec[d].path] = Nothing
      BY <2>1, <2>3 DEF FilesOK, MoveAside
    <2> QED
      BY <2>2, <2>3
  <1>4. (Types /\ OpFits)'
    BY <1>1, <1>2, <1>3 DEF Core, Types, RecOK, PendingOK, OpFits, MoveAside
  <1>5. ASSUME ~RetryReturnsAny PROVE Honesty'
    BY <1>2, <1>5 DEF Core, Honesty, RecordHonest, OpHonest, Honest, Versions, Known, MoveAside
  <1>6. ReplacedIsSafe'
    BY <1>2 DEF ReplacedIsSafe
  <1> QED
    BY <1>2, <1>4, <1>5, <1>6 DEF Core

\* Removing the file of a deletion: only what the record says is in it.
LEMMA RemoveOK ==
    ASSUME Core, UNCHANGED hist, NEW d \in Docs, Known(d), ~ChangedHere(d, rec[d].path, TRUE),
           NEW k, k = IF file[rec[d].path] = Nothing THEN "forget" ELSE "rm",
           op' = Step(k, d, rec[d].path, 0, Nothing), UNCHANGED <<diskVars, rec, pending>>
    PROVE Core' /\ op'.k = k /\ op'.id = d
  <1>1. rec[d].path \in Paths
    BY KnownOK DEF Core, Types
  <1>2. op' \in Steps /\ op'.k = k /\ op'.id = d /\ op'.path = rec[d].path /\ op'.had = FALSE
        /\ k \in {"rm", "forget"}
    BY <1>1 DEF Step, Steps, Kinds, Nothing
  <1>3. (Types /\ OpFits)'
    BY <1>1, <1>2 DEF Core, Types, FilesOK, RecOK, PendingOK, OpFits, diskVars
  <1>4. ASSUME ~RetryReturnsAny PROVE Honesty'
    BY <1>2, <1>4 DEF Core, Honesty, RecordHonest, OpHonest, Honest, Versions, Known
  <1>5. ASSUME ~RetryReturnsAny, ~EditorRace PROVE ReplacedIsSafe'
    <2>1. rec[d].sum \in Published
      BY <1>5, HonestIsPublished DEF Core, Honesty, RecordHonest
    <2>2. file[rec[d].path] \in {Nothing, rec[d].sum}
      BY DEF ChangedHere
    <2> QED
      BY <1>2, <2>1, <2>2 DEF ReplacedIsSafe, Published, Versions, diskVars
  <1> QED
    BY <1>2, <1>3, <1>4, <1>5 DEF Core

\* What a deletion calls for keeps the core of the invariant.
LEMMA RemoteDeletedOK ==
    ASSUME Core, UNCHANGED hist, NEW d \in Docs, NEW v \in Nat, RemoteDeleted(d, v)
    PROVE Core'
  <1>1. CASE ~Known(d) \/ (v > 0 /\ rec[d].ver > v)
    BY <1>1, IgnoreOK DEF RemoteDeleted
  <1>2. CASE ~(~Known(d) \/ (v > 0 /\ rec[d].ver > v)) /\ ~ChangedHere(d, rec[d].path, TRUE)
    BY <1>2, RemoveOK DEF RemoteDeleted
  <1>3. CASE ~(~Known(d) \/ (v > 0 /\ rec[d].ver > v)) /\ ChangedHere(d, rec[d].path, TRUE)
    BY <1>3, MoveAsideOK DEF RemoteDeleted
  <1> QED
    BY <1>1, <1>2, <1>3

\* What an announced change calls for keeps the core of the invariant.
LEMMA RemoteChangedOK ==
    ASSUME Core, UNCHANGED hist, NEW d \in Docs, NEW p, NEW v, RemoteChanged(d, p, v)
    PROVE Core'
  <1>1. Known(d) \in BOOLEAN
    BY DEF Known
  <1> QED
    BY <1>1, IgnoreOK, FetchOK DEF RemoteChanged

\* No operation is in progress, or the one that has just been decided on.
LEMMA IdleIs == Idle \in Steps /\ Idle.k = "idle" /\ Idle.had = FALSE
  BY DEF Idle, Step, Steps, Kinds, Nothing

\* The step that asks the module for something is one of the steps.
LEMMA RequestIs ==
    ASSUME NEW k \in {"update", "create"}, NEW d \in Docs, NEW p \in Paths, NEW v \in Nat,
           NEW b \in Nat, op' = Step(k, d, p, v, b)
    PROVE /\ op' \in Steps /\ op'.k = k /\ op'.had = FALSE
          /\ op'.id = d /\ op'.path = p /\ op'.body = b
  <1>1. op' \in Steps
    BY DEF Step, Steps, Kinds
  <1>2. op'.k = k /\ op'.had = FALSE
    BY DEF Step
  <1>3. op'.id = d /\ op'.path = p /\ op'.body = b
    BY DEF Step
  <1> QED
    BY <1>1, <1>2, <1>3

\* Starting an upload leaves everything but the operation alone.
LEMMA UploadOK ==
    ASSUME RecOK, FilesOK, NEW d \in Docs, NEW p \in Paths, Known(d), file[p] # Nothing,
           Upload(d, p)
    PROVE /\ op' \in Steps /\ op'.k \in {"idle", "update"} /\ op'.had = FALSE
          /\ op'.k = "update" => op'.id = d /\ op'.path = p /\ op'.body \in Contents
  <1>1. rec[d].ver \in Nat /\ file[p] \in Contents /\ file[p] \in Nat
    BY KnownOK DEF FilesOK, Nothing, Contents
  <1>2. CASE file[p] = rec[d].sum
    BY <1>2, IdleIs DEF Upload
  <1>3. CASE file[p] # rec[d].sum
    <2>1. op' = Step("update", d, p, rec[d].ver, file[p])
      BY <1>3 DEF Upload
    <2>2. /\ op' \in Steps /\ op'.k = "update" /\ op'.had = FALSE
          /\ op'.id = d /\ op'.path = p /\ op'.body = file[p]
      BY <1>1, <2>1, RequestIs
    <2> QED
      BY <1>1, <2>2
  <1> QED
    BY <1>2, <1>3

\* Reserving an id and setting out to create keeps the core (createLocal).
LEMMA CreateLocalOK ==
    ASSUME Core, UNCHANGED hist, NEW p \in Paths, file[p] # Nothing, CreateLocal(p)
    PROVE Core'
  <1>1. file[p] \in Contents /\ file[p] \in Nat
    BY DEF Core, Types, FilesOK, Nothing, Contents
  <1>2. UNCHANGED <<file, copies, aside, rec>>
    BY DEF CreateLocal, diskVars
  <1>3. \/ op' = Idle /\ PendingOK'
        \/ \E d \in Docs : op' = Step("create", d, p, 0, file[p]) /\ PendingOK'
    BY DEF Core, Types, PendingOK, CreateLocal
  <1>4. /\ PendingOK' /\ op' \in Steps /\ op'.k \in {"idle", "create"} /\ op'.had = FALSE
        /\ op'.k = "create" => op'.id \in Docs /\ op'.path = p /\ op'.body = file[p]
    <2>1. CASE op' = Idle
      BY <1>3, <2>1, IdleIs
    <2>2. ASSUME NEW d \in Docs, op' = Step("create", d, p, 0, file[p])
          PROVE /\ op' \in Steps /\ op'.k = "create" /\ op'.had = FALSE
                /\ op'.id \in Docs /\ op'.path = p /\ op'.body = file[p]
      BY <1>1, <2>2, RequestIs
    <2> QED
      BY <1>3, <2>1, <2>2
  <1>5. (Types /\ OpFits)'
    BY <1>1, <1>2, <1>4 DEF Core, Types, FilesOK, RecOK, OpFits
  <1>6. ASSUME ~RetryReturnsAny PROVE Honesty'
    BY <1>2, <1>4, <1>6 DEF Core, Honesty, RecordHonest, OpHonest, Honest, Versions, Known
  <1>7. ReplacedIsSafe'
    BY <1>4 DEF ReplacedIsSafe
  <1> QED
    BY <1>5, <1>6, <1>7 DEF Core

\* What a changed file calls for keeps the core (localChanged).
LEMMA LocalChangedOK ==
    ASSUME Core, UNCHANGED hist, NEW p \in Paths, LocalChanged(p)
    PROVE Core'
  <1>1. CASE file[p] = Nothing
    BY <1>1, IgnoreOK DEF LocalChanged
  <1>2. CASE file[p] # Nothing /\ RecordsAt(p) = {}
    BY <1>2, CreateLocalOK DEF LocalChanged
  <1>3. CASE file[p] # Nothing /\ RecordsAt(p) # {}
    <2>1. PICK d \in RecordsAt(p) :
            IF rec[d].conf = None
            THEN Upload(d, p) /\ UNCHANGED <<diskVars, rec, pending>>
            ELSE IF CopyThere(rec[d].conf) THEN Ignore
            ELSE /\ PutDoc(d, [rec[d] EXCEPT !.conf = None])
                 /\ Upload(d, p)
                 /\ UNCHANGED <<diskVars, pending>>
      BY <1>3 DEF LocalChanged
    <2>2. d \in Docs /\ Known(d)
      BY DEF RecordsAt
    <2>3. RecOK /\ FilesOK /\ PendingOK
      BY DEF Core, Types
    <2>4. CASE rec[d].conf # None /\ CopyThere(rec[d].conf)
      BY <2>1, <2>4, IgnoreOK
    <2>5. CASE /\ Upload(d, p) /\ UNCHANGED <<diskVars, pending>>
               /\ rec' = rec \/ PutDoc(d, [rec[d] EXCEPT !.conf = None])
      <3>1. /\ op' \in Steps /\ op'.k \in {"idle", "update"} /\ op'.had = FALSE
            /\ op'.k = "update" => op'.id = d /\ op'.path = p /\ op'.body \in Contents
        BY <1>3, <2>2, <2>3, <2>5, UploadOK
      <3>2. [rec[d] EXCEPT !.conf = None] \in Records
            /\ [rec[d] EXCEPT !.conf = None].ver = rec[d].ver
            /\ [rec[d] EXCEPT !.conf = None].sum = rec[d].sum
        BY <2>2, <2>3, KnownOK DEF Records
      <3>3. RecOK' /\ Known(d)'
        BY <2>2, <2>3, <2>5, <3>2, PutDocOK DEF RecOK, Known
      <3>4. (Types /\ OpFits)'
        BY <2>2, <2>3, <2>5, <3>1, <3>3 DEF Types, FilesOK, PendingOK, OpFits, diskVars
      <3>5. ASSUME ~RetryReturnsAny PROVE Honesty'
        <4>1. RecordHonest /\ Grows
          BY <3>5 DEF Core, Honesty, Grows
        <4>2. RecordHonest'
          <5>1. CASE rec' = rec
            BY <4>1, <5>1 DEF RecordHonest, Honest, Versions, Known
          <5>2. CASE PutDoc(d, [rec[d] EXCEPT !.conf = None])
            <6>1. Honest(d, [rec[d] EXCEPT !.conf = None].ver, [rec[d] EXCEPT !.conf = None].sum)
              BY <2>2, <3>2, <4>1 DEF RecordHonest
            <6> QED
              BY <2>2, <2>3, <3>2, <4>1, <5>2, <6>1, PutHonest
          <5> QED
            BY <2>5, <5>1, <5>2
        <4> QED
          BY <3>1, <4>2 DEF Honesty, OpHonest
      <3>6. ReplacedIsSafe'
        BY <3>1 DEF ReplacedIsSafe
      <3> QED
        BY <3>4, <3>5, <3>6 DEF Core
    <2> QED
      BY <2>1, <2>4, <2>5
  <1> QED
    BY <1>1, <1>2, <1>3

-----------------------------------------------------------------------------
(* The steps of a document operation that stay on this machine.            *)

Requests == {"get", "update", "create"}

\* The fields of the step in progress have their types.
LEMMA OpIs ==
    ASSUME Core
    PROVE /\ op.k \in Kinds /\ op.ver \in Nat /\ op.body \in Nat /\ op.had \in BOOLEAN
          /\ op.conf \in (Paths \X Nat) \cup {None}
          /\ op.k # "idle" => op.id \in Docs
          /\ op.k \notin {"idle", "get"} => op.path \in Paths
  BY DEF Core, Types, OpFits, Steps

\* The same operation, at another step.
LEMMA NextStep ==
    ASSUME Core, NEW k \in Kinds, op' = [op EXCEPT !.k = k]
    PROVE /\ op' \in Steps /\ op'.k = k /\ op'.id = op.id /\ op'.path = op.path
          /\ op'.ver = op.ver /\ op'.body = op.body /\ op'.had = op.had /\ op'.conf = op.conf
  BY DEF Core, Types, Steps

\* reconcileDoc on a listed document keeps the core.
LEMMA RelistOK ==
    ASSUME Core, Relist PROVE Core'
  <1>1. op.id \in Docs /\ hist' = hist
    BY OpIs DEF Relist, Local, moduleVars
  <1> QED
    BY <1>1, FetchOK, IgnoreOK DEF Relist

\* Following a move on the disk keeps the core (moveLocal).
LEMMA MoveFileOK ==
    ASSUME Core, MoveFile PROVE Core'
  <1>1. PICK d \in Docs :
          LET from == rec[d].path IN
          /\ Following(d)
          /\ IF file[from] # Nothing /\ InTheWay(op.path)
             THEN op' = Idle /\ file' = file
             ELSE /\ op' = [op EXCEPT !.k = IF op.k = "relist" THEN "moved:relist" ELSE "moved:got"]
                  /\ file' = IF file[from] = Nothing THEN file
                             ELSE [file EXCEPT ![from] = Nothing, ![op.path] = file[from]]
    BY DEF MoveFile
  <1>2. /\ UNCHANGED <<copies, aside, rec, pending, hist>>
        /\ op.k \in {"relist", "got"} /\ op.id = d /\ op.path \in Paths
        /\ rec[d].path \in Paths /\ Known(d)
    BY <1>1, OpIs, KnownOK DEF MoveFile, Local, moduleVars, Following, Core, Types
  <1>3. /\ op' \in Steps
        /\ \/ op'.k = "idle" /\ op'.had = FALSE
           \/ /\ op'.k \in {"moved:relist", "moved:got"} /\ (op'.k = "moved:got" => op.k = "got")
              /\ op'.id = op.id /\ op'.path = op.path /\ op'.ver = op.ver /\ op'.body = op.body
    <2>1. CASE op' = Idle
      BY <2>1, IdleIs
    <2>2. CASE op' = [op EXCEPT !.k = IF op.k = "relist" THEN "moved:relist" ELSE "moved:got"]
      <3>1. CASE op.k = "relist"
        BY <2>2, <3>1, NextStep DEF Kinds
      <3>2. CASE op.k = "got"
        BY <2>2, <3>2, NextStep DEF Kinds
      <3> QED
        BY <1>2, <3>1, <3>2
    <2> QED
      BY <1>1, <2>1, <2>2
  <1>4. FilesOK'
    BY <1>1, <1>2 DEF Core, Types, FilesOK, Nothing
  <1>5. (Types /\ OpFits)'
    BY <1>2, <1>3, <1>4 DEF Core, Types, RecOK, PendingOK, OpFits, Known
  <1>6. ASSUME ~RetryReturnsAny PROVE Honesty'
    BY <1>2, <1>3, <1>6 DEF Core, Honesty, RecordHonest, OpHonest, Honest, Versions, Known
  <1>7. ReplacedIsSafe'
    BY <1>3 DEF ReplacedIsSafe
  <1> QED
    BY <1>5, <1>6, <1>7 DEF Core

\* Following a move in the database keeps the core (moveLocal).
LEMMA MoveRecordOK ==
    ASSUME Core, MoveRecord PROVE Core'
  <1> DEFINE r == [rec[op.id] EXCEPT !.path = op.path]
  <1>1. /\ op.id \in Docs /\ op.path \in Paths /\ Known(op.id) /\ rec[op.id] \in Records
        /\ op.k \in {"moved:relist", "moved:got"} /\ RecOK
    BY OpIs, KnownOK DEF MoveRecord, Core, Types, OpFits
  <1>2. r \in Records /\ r.ver = rec[op.id].ver /\ r.sum = rec[op.id].sum
    BY <1>1 DEF Records
  <1>3. PutDoc(op.id, r) /\ UNCHANGED <<file, copies, aside, pending, hist>>
    BY DEF MoveRecord, Local, moduleVars, diskVars
  <1>4. RecOK' /\ rec'[op.id] # None
    <2>1. RecOK' /\ rec'[op.id] = r
      BY <1>1, <1>2, <1>3, PutDocOK
    <2> QED
      BY <1>2, <2>1, RecordAssumption
  <1>5. /\ op' \in Steps /\ op'.k \in {"relist", "got"}
        /\ op'.k = "got" => op.k = "moved:got"
        /\ op'.id = op.id /\ op'.path = op.path /\ op'.ver = op.ver /\ op'.body = op.body
    <2>1. CASE op.k = "moved:relist"
      BY <2>1, NextStep DEF MoveRecord, Kinds
    <2>2. CASE op.k = "moved:got"
      BY <2>2, NextStep DEF MoveRecord, Kinds
    <2> QED
      BY <1>1, <2>1, <2>2
  <1>6. (Types /\ OpFits)'
    BY <1>1, <1>3, <1>4, <1>5 DEF Core, Types, FilesOK, PendingOK, OpFits, Known
  <1>7. ASSUME ~RetryReturnsAny PROVE Honesty'
    <2>1. RecordHonest /\ Grows /\ OpHonest
      BY <1>3, <1>7 DEF Core, Honesty, Grows
    <2>2. Honest(op.id, r.ver, r.sum)
      BY <1>1, <1>2, <2>1 DEF RecordHonest
    <2>3. RecordHonest'
      BY <1>1, <1>2, <1>3, <2>1, <2>2, PutHonest
    <2>4. OpHonest'
      BY <1>3, <1>5, <2>1 DEF OpHonest, Honest, Versions
    <2> QED
      BY <2>3, <2>4 DEF Honesty
  <1>8. ReplacedIsSafe'
    BY <1>5 DEF ReplacedIsSafe
  <1> QED
    BY <1>6, <1>7, <1>8 DEF Core

\* What is put into the database is what an honest operation holds.
LEMMA PutOK ==
    ASSUME Core, Put PROVE Core'
  <1> DEFINE r == [path |-> op.path, ver |-> op.ver, sum |-> op.body, conf |-> op.conf]
  <1>1. op.id \in Docs /\ op.k = "put" /\ r \in Records /\ RecOK
    BY OpIs DEF Put, Core, Types, OpFits, Records
  <1>2. PutDoc(op.id, r) /\ UNCHANGED <<file, copies, aside, pending, hist>> /\ op' = Idle
    BY DEF Put, Local, moduleVars, diskVars
  <1>3. RecOK'
    BY <1>1, <1>2, PutDocOK
  <1>4. (Types /\ OpFits)' /\ op'.k = "idle"
    BY <1>2, <1>3, IdleIs DEF Core, Types, FilesOK, PendingOK, OpFits
  <1>5. ASSUME ~RetryReturnsAny PROVE Honesty'
    <2>1. RecordHonest /\ Grows /\ Honest(op.id, r.ver, r.sum)
      BY <1>1, <1>2, <1>5 DEF Core, Honesty, OpHonest, Grows
    <2>2. RecordHonest'
      BY <1>1, <1>2, <2>1, PutHonest
    <2> QED
      BY <1>4, <2>2 DEF Honesty, OpHonest
  <1>6. ReplacedIsSafe'
    BY <1>4 DEF ReplacedIsSafe
  <1> QED
    BY <1>4, <1>5, <1>6 DEF Core

\* Forgetting the document of a finished operation keeps the core.
LEMMA ForgetOK ==
    ASSUME Core, Forget PROVE Core'
  <1>1. /\ op.id \in Docs /\ DeleteDoc(op.id) /\ op' = Idle
        /\ UNCHANGED <<file, copies, aside, pending, hist>>
    BY OpIs DEF Forget, Local, moduleVars, diskVars
  <1>2. RecOK' /\ \A e \in Docs : rec'[e] \in {None, rec[e]}
    BY <1>1, DeleteDocOK DEF Core, Types
  <1>3. (Types /\ OpFits)' /\ op'.k = "idle"
    BY <1>1, <1>2, IdleIs DEF Core, Types, FilesOK, PendingOK, OpFits
  <1>4. ASSUME ~RetryReturnsAny PROVE Honesty'
    <2>1. RecordHonest'
      BY <1>1, <1>2, <1>4, RecordsKept DEF Core, Honesty, Grows
    <2> QED
      BY <1>3, <2>1 DEF Honesty, OpHonest
  <1>5. ReplacedIsSafe'
    BY <1>3 DEF ReplacedIsSafe
  <1> QED
    BY <1>3, <1>4, <1>5 DEF Core

\* The reply of documents.get: what is placed is the module's current version.
LEMMA GetOK ==
    ASSUME Core, ModuleOK, HistFits, Get PROVE Core'
  <1>1. op.id \in Docs /\ op.k = "get" /\ (op.had => Known(op.id)) /\ op.had \in BOOLEAN
        /\ UNCHANGED hist
    BY OpIs DEF Get, Local, moduleVars, Core, OpFits
  <1>2. CASE ~doc[op.id].readable \/ doc[op.id].life = "unborn"
    BY <1>1, <1>2, MoveAsideOK, IgnoreOK DEF Get
  <1>3. CASE ~(~doc[op.id].readable \/ doc[op.id].life = "unborn") /\ doc[op.id].life = "deleted"
    BY <1>1, <1>3, RemoteDeletedOK, IgnoreOK DEF Get
  <1>4. CASE ~(~doc[op.id].readable \/ doc[op.id].life = "unborn") /\ doc[op.id].life # "deleted"
    <2>1. /\ op' = [Step("got", op.id, doc[op.id].path, Current(op.id), Content(op.id))
                      EXCEPT !.had = op.had]
          /\ UNCHANGED <<file, copies, aside, rec, pending>>
      BY <1>4 DEF Get, diskVars
    <2>2. /\ doc[op.id].path \in Paths /\ Content(op.id) \in Contents /\ Current(op.id) \in Nat
          /\ Honest(op.id, Current(op.id), Content(op.id)) /\ Content(op.id) \in Nat
      BY <1>1, <1>4, ModuleOKIs, ContentOK DEF HistFits, DocOK, Contents
    <2>3. op' \in Steps
      BY <1>1, <2>1, <2>2 DEF Step, Steps, Kinds
    <2>4. /\ op'.k = "got" /\ op'.id = op.id /\ op'.path = doc[op.id].path /\ op'.had = op.had
          /\ op'.ver = Current(op.id) /\ op'.body = Content(op.id)
      BY <2>1 DEF Step
    <2>5. (Types /\ OpFits)'
      BY <1>1, <2>1, <2>2, <2>3, <2>4 DEF Core, Types, FilesOK, RecOK, PendingOK, OpFits, Known
    <2>6. ASSUME ~RetryReturnsAny PROVE Honesty'
      BY <1>1, <2>1, <2>2, <2>4, <2>6
      DEF Core, Honesty, RecordHonest, OpHonest, Honest, Versions, Known
    <2>7. ReplacedIsSafe'
      BY <2>4 DEF ReplacedIsSafe
    <2> QED
      BY <2>5, <2>6, <2>7 DEF Core
  <1> QED
    BY <1>2, <1>3, <1>4

\* The file that is replaced holds what the record says, or does not exist.
LEMMA PlaceOK ==
    ASSUME Core, Place PROVE Core'
  <1> DEFINE clash == file[op.path] # op.body /\ ChangedHere(op.id, op.path, op.had)
  <1>1. /\ op.id \in Docs /\ op.k = "got" /\ op.path \in Paths /\ op.body \in Contents
        /\ op.ver \in Nat /\ (op.had => Known(op.id)) /\ op.had \in BOOLEAN
        /\ UNCHANGED <<file, aside, rec, pending, hist>>
    BY OpIs DEF Place, Local, moduleVars, Core, OpFits
  <1>2. /\ op' \in Steps /\ op'.k \in {"put", "write"}
        /\ op'.id = op.id /\ op'.path = op.path /\ op'.ver = op.ver /\ op'.body = op.body
        /\ op'.had = op.had
        /\ op'.k = "write" => ~clash /\ file[op.path] # op.body
    <2>1. CASE clash
      <3>1. op' = [op EXCEPT !.k = "put", !.conf = CopyName(op.path, op.ver)]
        BY <2>1 DEF Place
      <3>2. CopyName(op.path, op.ver) \in Paths \X Nat
        BY <1>1 DEF CopyName
      <3> QED
        BY <3>1, <3>2 DEF Core, Types, Steps, Kinds
    <2>2. CASE ~clash /\ file[op.path] = op.body
      BY <2>2, NextStep DEF Place, Kinds
    <2>3. CASE ~clash /\ file[op.path] # op.body
      BY <2>3, NextStep DEF Place, Kinds
    <2> QED
      BY <2>1, <2>2, <2>3
  <1>3. FilesOK'
    <2>1. CopyName(op.path, op.ver) \in Paths \X Nat
      BY <1>1 DEF CopyName
    <2>2. [name |-> CopyName(op.path, op.ver), body |-> op.body] \in Copies
      BY <1>1, <2>1 DEF Copies
    <2>3. copies' \subseteq Copies
      BY <2>2 DEF Place, WriteCopy, Core, Types, FilesOK
    <2> QED
      BY <1>1, <2>3 DEF Core, Types, FilesOK
  <1>4. (Types /\ OpFits)'
    BY <1>1, <1>2, <1>3 DEF Core, Types, RecOK, PendingOK, OpFits, Known
  <1>5. ASSUME ~RetryReturnsAny PROVE Honesty'
    BY <1>1, <1>2, <1>5 DEF Core, Honesty, RecordHonest, OpHonest, Honest, Versions, Known
  <1>6. ASSUME ~RetryReturnsAny, ~EditorRace PROVE ReplacedIsSafe'
    <2> SUFFICES ASSUME op'.k = "write" PROVE file[op.path] \in Published \cup {Nothing}
      BY <1>1, <1>2 DEF ReplacedIsSafe, Published, Versions
    <2>1. file[op.path] = Nothing \/ (op.had /\ file[op.path] = rec[op.id].sum)
      BY <1>2 DEF ChangedHere
    <2>2. Known(op.id) => rec[op.id].sum \in Published
      BY <1>1, <1>6, HonestIsPublished DEF Core, Honesty, RecordHonest
    <2> QED
      BY <1>1, <2>1, <2>2
  <1> QED
    BY <1>4, <1>5, <1>6 DEF Core

\* Writing a version over a file, or removing the file, keeps the core (fetch, remoteDeleted).
LEMMA WriteOrRemoveOK ==
    ASSUME Core, Write \/ Remove PROVE Core'
  <1> DEFINE k == IF op.k = "write" THEN "put" ELSE "forget"
  <1>1. /\ op.k \in {"write", "rm"} /\ op.id \in Docs /\ op.path \in Paths
        /\ op.k = "write" => op.body \in Contents
        /\ UNCHANGED <<copies, aside, rec, pending, hist>>
    BY OpIs DEF Write, Remove, Local, moduleVars, Core, OpFits
  <1>2. op' = [op EXCEPT !.k = k] /\ k \in Kinds
    BY DEF Write, Remove, Kinds
  <1>3. /\ op' \in Steps /\ op'.k = k /\ op'.id = op.id /\ op'.path = op.path
        /\ op'.ver = op.ver /\ op'.body = op.body /\ op'.had = op.had
    BY <1>2, NextStep
  <1>4. file' \in [Paths -> Nat]
    <2>1. file \in [Paths -> Nat] /\ op.body \in Nat
      BY OpIs DEF Core, Types, FilesOK
    <2> QED
      BY <2>1 DEF Write, Remove, Nothing
  <1>5. (Types /\ OpFits)'
    BY <1>1, <1>3, <1>4 DEF Core, Types, FilesOK, RecOK, PendingOK, OpFits, Known
  <1>6. ASSUME ~RetryReturnsAny PROVE Honesty'
    BY <1>1, <1>3, <1>6 DEF Core, Honesty, RecordHonest, OpHonest, Honest, Versions, Known
  <1>7. ReplacedIsSafe'
    BY <1>1, <1>3 DEF ReplacedIsSafe
  <1> QED
    BY <1>5, <1>6, <1>7 DEF Core

\* Giving a reservation up once the module has answered keeps the core (createLocal).
LEMMA ClearPendingOK ==
    ASSUME Core, ClearPending PROVE Core'
  <1>1. /\ op.k = "clear" /\ op.id \in Docs /\ op.path \in Paths /\ op.body \in Contents
        /\ op' = [op EXCEPT !.k = "put"] /\ "put" \in Kinds
        /\ UNCHANGED <<file, copies, aside, rec, hist>>
    BY OpIs DEF ClearPending, Local, moduleVars, diskVars, Core, OpFits, Kinds
  <1>2. /\ op' \in Steps /\ op'.k = "put" /\ op'.id = op.id /\ op'.path = op.path
        /\ op'.ver = op.ver /\ op'.body = op.body /\ op'.had = op.had
    BY <1>1, NextStep
  <1>3. PendingOK'
    BY DEF ClearPending, Core, Types, PendingOK
  <1>4. (Types /\ OpFits)'
    BY <1>1, <1>2, <1>3 DEF Core, Types, FilesOK, RecOK, OpFits, Known
  <1>5. ASSUME ~RetryReturnsAny PROVE Honesty'
    BY <1>1, <1>2, <1>5 DEF Core, Honesty, RecordHonest, OpHonest, Honest, Versions, Known
  <1>6. ReplacedIsSafe'
    BY <1>2 DEF ReplacedIsSafe
  <1> QED
    BY <1>4, <1>5, <1>6 DEF Core

-----------------------------------------------------------------------------
(* The steps that write to the module.                                     *)

ModuleStays == ModuleOK' /\ HistFits' /\ Grows /\ Len(feed) <= Len(feed')

\* A step that leaves the module alone leaves its part of the invariant.
LEMMA ModuleUnchanged ==
    ASSUME ModuleOK, HistFits, UNCHANGED <<moduleVars, notes>>
    PROVE ModuleStays
  BY DEF ModuleStays, ModuleOK, HistFits, Grows, moduleVars

\* Who can read a document can have it saved, and it has versions.
LEMMA SaveReplyIs ==
    ASSUME ModuleOK, HistFits, NEW d \in Docs, NEW v, NEW b, SaveReply(d, v, b) # "not_found"
    PROVE doc[d].life = "live" /\ hist[d] # <<>> /\ Content(d) \in Contents
          /\ Current(d) \in Nat /\ Honest(d, Current(d), Content(d))
  <1>1. Readable(d)
    BY DEF SaveReply
  <1>2. doc[d].life = "live" /\ hist[d] # <<>>
    BY <1>1 DEF Readable, HistFits
  <1> QED
    BY <1>2, ModuleOKIs, ContentOK

\* An upload and what its reply calls for keep the core (localChanged).
LEMMA UpdateOK ==
    ASSUME Core, ModuleOK, HistFits, Update
    PROVE Core' /\ ModuleStays
  <1> DEFINE reply == SaveReply(op.id, op.ver, op.body)
  <1>1. /\ op.k = "update" /\ op.id \in Docs /\ op.path \in Paths /\ op.body \in Contents
        /\ Known(op.id) /\ op.ver \in Nat
    BY OpIs DEF Update, Core, OpFits
  <1>2. reply \in {"not_found", "locked", "same", "version_conflict", "saved"}
    BY DEF SaveReply
  <1>3. CASE reply \in {"not_found", "locked", "version_conflict"}
    <2>1. UNCHANGED <<moduleVars, notes>>
      BY <1>3 DEF Update
    <2>2. ModuleStays /\ hist' = hist
      BY <2>1, ModuleUnchanged DEF moduleVars
    <2>3. CASE reply = "not_found"
      BY <1>1, <2>2, <2>3, MoveAsideOK DEF Update
    <2>4. CASE reply = "locked"
      BY <2>2, <2>4, IgnoreOK DEF Update
    <2>5. CASE reply = "version_conflict"
      BY <1>1, <2>2, <2>5, FetchOK DEF Update
    <2> QED
      BY <1>3, <2>2, <2>3, <2>4, <2>5
  <1>4. ASSUME NEW n \in Nat, Saved(n), UNCHANGED <<diskVars, rec, pending>>, Grows,
               Honest(op.id, n, op.body)'
        PROVE Core'
    <2>1. /\ op' \in Steps /\ op'.k = "put" /\ op'.id = op.id /\ op'.path = op.path
          /\ op'.ver = n /\ op'.body = op.body /\ op'.had = op.had
      BY <1>4 DEF Saved, Core, Types, Steps, Kinds
    <2>2. (Types /\ OpFits)'
      BY <1>1, <1>4, <2>1
      DEF Core, Types, FilesOK, RecOK, PendingOK, OpFits, Known, diskVars
    <2>3. ASSUME ~RetryReturnsAny PROVE Honesty'
      <3>1. RecordHonest'
        BY <1>4, <2>3, RecordsKept DEF Core, Honesty
      <3>2. OpHonest'
        BY <1>1, <1>4, <2>1 DEF OpHonest, Honest, Versions
      <3> QED
        BY <3>1, <3>2 DEF Honesty
    <2>4. ReplacedIsSafe'
      BY <2>1 DEF ReplacedIsSafe
    <2> QED
      BY <2>2, <2>3, <2>4 DEF Core
  <1>5. CASE reply = "same"
    <2>1. UNCHANGED <<moduleVars, notes>> /\ Saved(Current(op.id))
          /\ UNCHANGED <<diskVars, rec, pending>>
      BY <1>5 DEF Update
    <2>2. ModuleStays /\ Grows /\ hist' = hist
      BY <2>1, ModuleUnchanged DEF ModuleStays, moduleVars
    <2>3. Content(op.id) = op.body /\ Current(op.id) \in Nat
          /\ Honest(op.id, Current(op.id), op.body)
      BY <1>1, <1>5, SaveReplyIs DEF SaveReply
    <2>4. \A n : n = Current(op.id) => Honest(op.id, n, op.body)'
      BY <1>1, <2>2, <2>3, <2>1 DEF Honest, Versions, Saved, Core, Types, Steps
    <2> QED
      BY <1>4, <2>1, <2>2, <2>3, <2>4
  <1>6. CASE reply = "saved"
    <2>1. ModuleSaves(op.id, op.body) /\ Echo /\ Saved(Current(op.id) + 1)
          /\ UNCHANGED <<diskVars, rec, pending>>
      BY <1>6 DEF Update
    <2>2. op'.id = op.id /\ op'.body = op.body
      BY <2>1 DEF Saved, Core, Types, Steps
    <2>3. PICK n : n = Current(op.id) + 1
      OBVIOUS
    <2>4. PICK d \in Docs, x \in Contents : d = op.id /\ x = op.body
      BY <1>1
    <2>5. /\ DocOK' /\ HistOK' /\ CountersOK' /\ HistFits' /\ Grows
          /\ feed' \in Seq(Entries) /\ Len(feed) < Len(feed')
          /\ Honest(d, n, x)' /\ n \in Nat
      BY <1>1, <1>6, <2>1, <2>3, <2>4, SaveReplyIs, ModuleSavesOK
    <2>6. notes' \in Seq(Notices)
      BY <2>1, <2>5, EchoOK DEF ModuleOK
    <2>7. ModuleStays
      BY <2>5, <2>6, ModuleOKIs
      DEF ModuleStays, ModuleOK, DocOK, HistOK, CountersOK
    <2> QED
      BY <1>4, <2>1, <2>2, <2>3, <2>4, <2>5, <2>7 DEF Honest, Versions
  <1> QED
    BY <1>2, <1>3, <1>5, <1>6

\* A creation's record is honest when the module keeps to the content it was sent.
LEMMA CreateOK ==
    ASSUME Core, ModuleOK, HistFits, Create
    PROVE Core' /\ ModuleStays
  <1> DEFINE reply == CreateReply(op.id, op.path, op.body)
  <1>1. /\ op.k = "create" /\ op.id \in Docs /\ op.path \in Paths /\ op.body \in Contents
        /\ UNCHANGED <<file, copies, aside, rec>> /\ (op.had => Known(op.id))
    BY OpIs DEF Create, Core, OpFits, diskVars
  <1>2. reply \in {"known", "exists", "created"}
    BY DEF CreateReply
  <1>3. PendingOK'
    BY <1>1 DEF Create, Core, Types, PendingOK
  <1>4. CASE reply = "exists"
    <2>1. ModuleStays /\ Grows
      BY <1>4, ModuleUnchanged DEF Create, ModuleStays
    <2>2. op' \in Steps /\ op'.k = "idle" /\ op'.had = FALSE
      BY <1>4, IdleIs DEF Create
    <2>3. (Types /\ OpFits)'
      BY <1>1, <1>3, <2>2 DEF Core, Types, FilesOK, RecOK, OpFits
    <2>4. ASSUME ~RetryReturnsAny PROVE Honesty'
      BY <1>1, <2>1, <2>2, <2>4, RecordsKept DEF Core, Honesty, OpHonest
    <2>5. ReplacedIsSafe'
      BY <2>2 DEF ReplacedIsSafe
    <2> QED
      BY <2>1, <2>3, <2>4, <2>5 DEF Core
  <1>5. ASSUME NEW n \in Nat, NEW p \in Paths, Grows,
               op' = [op EXCEPT !.k = "clear", !.ver = n, !.path = p],
               ~RetryReturnsAny => Honest(op.id, n, op.body)'
        PROVE Core'
    <2>1. /\ op' \in Steps /\ op'.k = "clear" /\ op'.id = op.id /\ op'.path = p
          /\ op'.ver = n /\ op'.body = op.body /\ op'.had = op.had
      BY <1>5 DEF Core, Types, Steps, Kinds
    <2>2. (Types /\ OpFits)'
      BY <1>1, <1>3, <1>5, <2>1 DEF Core, Types, FilesOK, RecOK, OpFits, Known
    <2>3. ASSUME ~RetryReturnsAny PROVE Honesty'
      <3>1. RecordHonest'
        BY <1>1, <1>5, <2>3, RecordsKept DEF Core, Honesty
      <3>2. OpHonest'
        BY <1>5, <2>1, <2>3 DEF OpHonest, Honest, Versions
      <3> QED
        BY <3>1, <3>2 DEF Honesty
    <2>4. ReplacedIsSafe'
      BY <2>1 DEF ReplacedIsSafe
    <2> QED
      BY <2>2, <2>3, <2>4 DEF Core
  <1>6. CASE reply = "known"
    <2>1. /\ UNCHANGED <<moduleVars, notes>>
          /\ op' = [op EXCEPT !.k = "clear", !.ver = Current(op.id), !.path = doc[op.id].path]
      BY <1>6 DEF Create
    <2>2. ModuleStays /\ Grows /\ hist' = hist
      BY <2>1, ModuleUnchanged DEF ModuleStays, moduleVars
    <2>3. hist[op.id] # <<>> /\ (~RetryReturnsAny => Content(op.id) = op.body)
      BY <1>6 DEF CreateReply
    <2>4. /\ doc[op.id].path \in Paths /\ Current(op.id) \in Nat
          /\ Honest(op.id, Current(op.id), Content(op.id))
      BY <1>1, <2>3, ModuleOKIs, ContentOK DEF DocOK
    <2>5. op'.id = op.id /\ op'.body = op.body
      BY <2>1 DEF Core, Types, Steps
    <2>6. \A n : n = Current(op.id) /\ ~RetryReturnsAny => Honest(op.id, n, op.body)'
      BY <2>2, <2>3, <2>4, <2>5 DEF Honest, Versions
    <2> QED
      BY <1>5, <2>1, <2>2, <2>4, <2>6
  <1>7. CASE reply = "created"
    <2>1. /\ ModuleCreates(op.id, op.path, op.body) /\ Echo
          /\ op' = [op EXCEPT !.k = "clear", !.ver = 1]
      BY <1>7 DEF Create
    <2>2. PICK d \in Docs, x \in Contents, p \in Paths : d = op.id /\ x = op.body /\ p = op.path
      BY <1>1
    <2>3. hist[op.id] = <<>>
      BY <1>7 DEF CreateReply
    <2>4. /\ DocOK' /\ HistOK' /\ CountersOK' /\ HistFits' /\ Grows
          /\ feed' \in Seq(Entries) /\ Len(feed) < Len(feed') /\ Honest(d, 1, x)'
      BY <2>1, <2>2, <2>3, ModuleCreatesOK
    <2>5. notes' \in Seq(Notices)
      BY <2>1, <2>4, EchoOK DEF ModuleOK
    <2>6. ModuleStays
      BY <2>4, <2>5 DEF ModuleStays, ModuleOK, DocOK, HistOK, CountersOK
    <2>7. op' = [op EXCEPT !.k = "clear", !.ver = 1, !.path = p]
          /\ op'.id = op.id /\ op'.body = op.body
      BY <2>1, <2>2 DEF Core, Types, Steps
    <2> QED
      BY <1>5, <2>2, <2>4, <2>6, <2>7 DEF Honest, Versions
  <1> QED
    BY <1>2, <1>4, <1>6, <1>7

\* The module does what it is asked, whether or not the engine learns of it.
LEMMA DoneOK ==
    ASSUME Core, ModuleOK, HistFits, Done
    PROVE /\ DocOK' /\ HistOK' /\ CountersOK' /\ HistFits' /\ Grows
          /\ feed' \in Seq(Entries) /\ Len(feed) < Len(feed')
  <1>1. op.id \in Docs /\ op.path \in Paths /\ op.body \in Contents
    BY OpIs DEF Done, Core, OpFits
  <1>2. CASE SaveReply(op.id, op.ver, op.body) = "saved" /\ ModuleSaves(op.id, op.body)
    BY <1>1, <1>2, SaveReplyIs, ModuleSavesOK
  <1>3. CASE /\ CreateReply(op.id, op.path, op.body) = "created"
             /\ ModuleCreates(op.id, op.path, op.body)
    <2>1. hist[op.id] = <<>>
      BY <1>3 DEF CreateReply
    <2> QED
      BY <1>1, <1>3, <2>1, ModuleCreatesOK
  <1> QED
    BY <1>2, <1>3 DEF Done

-----------------------------------------------------------------------------
(* The agenda.                                                             *)

Jobs == {"list", "reconcile", "missing", "scan", "visit", "stamp", "read", "apply"}
Followers == {"reconcile", "missing", "visit"}   \* they use what the job before left
Ordered(a) == \A i \in 2..Len(a) : a[i] \in Followers => a[i - 1] = Before(a[i])

TodoFits ==
    agenda # <<>> =>
        /\ Head(agenda) = "reconcile" => \A d \in todo : d \in Docs /\ listed[d] # None
        /\ Head(agenda) = "missing" =>
            /\ op.k \in {"idle", "forget"}
            /\ \A d \in todo : d \in Docs /\ Known(d) /\ (op.k = "forget" => op.id # d)
        /\ Head(agenda) = "visit" => todo \subseteq Paths

\* The agenda's part of the invariant, in two named halves.
LEMMA AgendaFitsIs == AgendaFits <=> Ordered(agenda) /\ TodoFits /\ page.end <= Len(feed)
  BY DEF AgendaFits, Ordered, Followers, TodoFits

\* The job after the first is a follower only of the one it follows.
LEMMA TailOrdered ==
    ASSUME NEW a \in Seq(Jobs), a # <<>>, Ordered(a)
    PROVE /\ Tail(a) \in Seq(Jobs) /\ Ordered(Tail(a))
          /\ Tail(a) # <<>> /\ Head(Tail(a)) \in Followers => Head(a) = Before(Head(Tail(a)))
  <1>1. Tail(a) \in Seq(Jobs) /\ Len(Tail(a)) = Len(a) - 1
        /\ \A i \in 1..Len(Tail(a)) : Tail(a)[i] = a[i + 1]
    OBVIOUS
  <1>2. ASSUME NEW i \in 2..Len(Tail(a)), Tail(a)[i] \in Followers
        PROVE Tail(a)[i - 1] = Before(Tail(a)[i])
    <2>1. i + 1 \in 2..Len(a) /\ i - 1 \in 1..Len(Tail(a)) /\ (i - 1) + 1 = i /\ (i + 1) - 1 = i
          /\ i \in 1..Len(Tail(a))
      BY <1>1
    <2>2. Tail(a)[i] = a[i + 1] /\ Tail(a)[i - 1] = a[i]
      BY <1>1, <2>1
    <2> QED
      BY <1>2, <2>1, <2>2 DEF Ordered
  <1>3. ASSUME Tail(a) # <<>>, Head(Tail(a)) \in Followers
        PROVE Head(a) = Before(Head(Tail(a)))
    <2>1. Len(a) >= 2 /\ Head(Tail(a)) = a[2] /\ Head(a) = a[1]
      BY <1>1, <1>3
    <2>2. 2 \in 2..Len(a) /\ 2 - 1 = 1
      BY <2>1
    <2> QED
      BY <1>3, <2>1, <2>2 DEF Ordered
  <1> QED
    BY <1>1, <1>2, <1>3 DEF Ordered

\* Putting an ordered list before one that starts with no follower.
LEMMA ConcatOrdered ==
    ASSUME NEW a \in Seq(Jobs), NEW b \in Seq(Jobs), Ordered(a), Ordered(b),
           b # <<>> => b[1] \notin Followers
    PROVE a \o b \in Seq(Jobs) /\ Ordered(a \o b)
  <1>1. /\ a \o b \in Seq(Jobs) /\ Len(a \o b) = Len(a) + Len(b)
        /\ \A i \in 1..Len(a \o b) : (a \o b)[i] = IF i <= Len(a) THEN a[i] ELSE b[i - Len(a)]
    OBVIOUS
  <1>2. ASSUME NEW i \in 2..Len(a \o b), (a \o b)[i] \in Followers
        PROVE (a \o b)[i - 1] = Before((a \o b)[i])
    <2>1. i \in 1..Len(a \o b) /\ i - 1 \in 1..Len(a \o b) /\ Len(a) \in Nat /\ Len(b) \in Nat
          /\ i \in Nat
      BY <1>1
    <2>2. CASE i <= Len(a)
      <3>1. i \in 2..Len(a) /\ i - 1 <= Len(a)
        BY <2>1, <2>2
      <3> QED
        BY <1>1, <1>2, <2>1, <2>2, <3>1 DEF Ordered
    <2>3. CASE i = Len(a) + 1
      <3>1. (a \o b)[i] = b[1] /\ b # <<>>
        BY <1>1, <2>1, <2>3
      <3> QED
        BY <1>2, <3>1
    <2>4. CASE i > Len(a) + 1
      <3> DEFINE j == i - Len(a)
      <3>1. j \in 2..Len(b) /\ (i - 1) - Len(a) = j - 1 /\ ~(i - 1 <= Len(a)) /\ ~(i <= Len(a))
        BY <1>1, <2>1, <2>4
      <3>2. (a \o b)[i] = b[j] /\ (a \o b)[i - 1] = b[j - 1]
        BY <1>1, <2>1, <3>1
      <3> QED
        BY <1>2, <3>1, <3>2 DEF Ordered
    <2> QED
      BY <2>1, <2>2, <2>3, <2>4
  <1> QED
    BY <1>1, <1>2 DEF Ordered

\* Every agenda the engine starts is in order.
LEMMA PlansOrdered ==
    /\ Full \in Seq(Jobs) /\ Ordered(Full) /\ Full # <<>> /\ Head(Full) = "list"
    /\ CatchUp \in Seq(Jobs) /\ Ordered(CatchUp) /\ CatchUp # <<>> /\ Head(CatchUp) = "read"
    /\ Scan \in Seq(Jobs) /\ Ordered(Scan) /\ Scan # <<>> /\ Scan[1] = "scan"
    /\ CatchUp \o Scan \in Seq(Jobs) /\ Ordered(CatchUp \o Scan)
    /\ CatchUp \o Scan # <<>> /\ Head(CatchUp \o Scan) = "read"
    /\ <<>> \in Seq(Jobs) /\ Ordered(<<>>)
  <1>1. Full \in Seq(Jobs) /\ Full # <<>> /\ Head(Full) = "list" /\ Len(Full) = 6
    BY DEF Full, Jobs
  <1>2. Ordered(Full)
    BY DEF Full, Ordered, Before, Followers
  <1>3. CatchUp \in Seq(Jobs) /\ CatchUp # <<>> /\ Head(CatchUp) = "read" /\ Ordered(CatchUp)
    BY DEF CatchUp, Jobs, Ordered, Before, Followers
  <1>4. Scan \in Seq(Jobs) /\ Ordered(Scan) /\ Scan # <<>> /\ Scan[1] = "scan"
    BY DEF Scan, Jobs, Ordered, Before, Followers
  <1>5. CatchUp \o Scan \in Seq(Jobs) /\ Ordered(CatchUp \o Scan)
    BY <1>3, <1>4, ConcatOrdered DEF Followers
  <1>6. CatchUp \o Scan # <<>> /\ Head(CatchUp \o Scan) = "read"
    BY DEF CatchUp, Scan
  <1> QED
    BY <1>1, <1>2, <1>3, <1>4, <1>5, <1>6 DEF Ordered

-----------------------------------------------------------------------------
(* Every step keeps the invariant.                                         *)

MemOK == retry \subseteq Docs /\ dirty \subseteq Paths
CursorsOK == session \in {"off", "starting", "up"} /\ lastSeq \in Nat /\ fullDue \in BOOLEAN
PageOK == page \in [pos : Nat, at : Nat, end : Nat, more : BOOLEAN]
ListedOK == listed \in [Docs -> (Paths \X Nat) \cup {None}]
WorkOK == agenda \in Seq(Jobs) /\ todo \subseteq Docs \cup Paths /\ ListedOK /\ PageOK

\* The invariant, in the parts the steps are proved with.
LEMMA IInvIs ==
    IInv <=> /\ ModuleOK /\ HistFits /\ Core /\ EnvOK
             /\ MemOK /\ CursorsOK /\ WorkOK
             /\ Ordered(agenda) /\ TodoFits /\ page.end <= Len(feed)
  BY FolderOKIs, AgendaFitsIs
  DEF IInv, TypeOK, Core, LoopOK, MemOK, CursorsOK, WorkOK, PageOK, ListedOK, Jobs

\* The parts, in the next state, make the invariant there.
LEMMA IInvNext ==
    ASSUME ModuleOK', HistFits', Core', EnvOK', MemOK', CursorsOK', WorkOK',
           Ordered(agenda)', TodoFits', page'.end <= Len(feed')
    PROVE IInv'
  <1>1. TypeOK'
    BY DEF TypeOK, FolderOK, Core, Types, FilesOK, RecOK, PendingOK,
           LoopOK, MemOK, CursorsOK, WorkOK, PageOK, ListedOK, Jobs
  <1>2. AgendaFits'
    BY DEF AgendaFits, Ordered, Followers, TodoFits
  <1> QED
    BY <1>1, <1>2 DEF IInv, Core

\* A step of a document operation preserves the invariant.
LEMMA OpStepOK ==
    ASSUME IInv, OpStep PROVE IInv'
  <1>1. /\ ModuleOK /\ HistFits /\ Core /\ EnvOK /\ MemOK /\ CursorsOK /\ WorkOK
        /\ Ordered(agenda) /\ TodoFits /\ page.end <= Len(feed)
    BY IInvIs
  <1>2. UNCHANGED <<session, loopVars, dirty, envVars, lastSeq, fullDue>>
    BY DEF OpStep, Relist, MoveFile, MoveRecord, Get, Place, Write, Put, Remove, Forget,
           Update, Create, ClearPending, Local, InOp, memVars
  <1>3. Core' /\ ModuleStays
    <2>1. CASE Update
      BY <1>1, <2>1, UpdateOK
    <2>2. CASE Create
      BY <1>1, <2>2, CreateOK
    <2>3. CASE Relist \/ MoveFile \/ MoveRecord \/ Get \/ Place \/ Write \/ Put
               \/ Remove \/ Forget \/ ClearPending
      <3>1. UNCHANGED <<moduleVars, notes>>
        BY <2>3 DEF Relist, MoveFile, MoveRecord, Get, Place, Write, Put, Remove, Forget,
                    ClearPending, Local
      <3>2. ModuleStays
        BY <1>1, <3>1, ModuleUnchanged
      <3>3. Core'
        BY <1>1, <2>3, RelistOK, MoveFileOK, MoveRecordOK, GetOK, PlaceOK, WriteOrRemoveOK,
           PutOK, ForgetOK, ClearPendingOK
      <3> QED
        BY <3>2, <3>3
    <2> QED
      BY <2>1, <2>2, <2>3 DEF OpStep
  <1>4. MemOK'
    <2>1. CASE Update
      <3>1. op.id \in Docs
        BY <1>1, <2>1, OpIs DEF Update
      <3> QED
        BY <1>1, <1>2, <2>1, <3>1 DEF Update, MemOK
    <2>2. CASE ~Update
      <3>1. retry' = retry
        BY <2>2 DEF OpStep, Relist, MoveFile, MoveRecord, Get, Place, Write, Put, Remove,
                    Forget, Create, ClearPending, Local, InOp, memVars
      <3> QED
        BY <1>1, <1>2, <3>1 DEF MemOK
    <2> QED
      BY <2>1, <2>2
  <1>5. TodoFits'
    <2>1. CASE Forget
      <3>1. /\ op.k = "forget" /\ op' = Idle /\ rec' = [rec EXCEPT ![op.id] = None]
            /\ UNCHANGED <<agenda, todo, listed>>
        BY <1>2, <2>1 DEF Forget, DeleteDoc, loopVars
      <3>2. op'.k = "idle" /\ RecOK
        BY <1>1, <3>1, IdleIs DEF Core, Types
      <3>3. ASSUME agenda # <<>>, Head(agenda) = "missing", NEW d \in todo
            PROVE d \in Docs /\ Known(d)'
        BY <1>1, <3>1, <3>2, <3>3 DEF TodoFits, Known, RecOK
      <3> QED
        BY <1>1, <3>1, <3>2, <3>3 DEF TodoFits
    <2>2. CASE ~Forget
      <3>1. op.k \notin {"idle", "forget"}
        BY <2>2 DEF OpStep, Relist, MoveFile, MoveRecord, Following, Get, Place, Write, Put,
                    Remove, Update, Create, ClearPending
      <3>2. UNCHANGED <<agenda, todo, listed>>
        BY <1>2 DEF loopVars
      <3> QED
        BY <1>1, <3>1, <3>2 DEF TodoFits
    <2> QED
      BY <2>1, <2>2
  <1>6. page' = page /\ page'.end <= Len(feed')
    <2>1. page' = page /\ Len(feed) <= Len(feed') /\ feed \in Seq(Entries) /\ feed' \in Seq(Entries)
          /\ page.end \in Nat
      BY <1>1, <1>2, <1>3 DEF loopVars, ModuleStays, ModuleOK, WorkOK, PageOK
    <2> QED
      BY <1>1, <2>1
  <1>7. EnvOK' /\ CursorsOK' /\ WorkOK' /\ Ordered(agenda)'
    BY <1>1, <1>2 DEF EnvOK, CursorsOK, WorkOK, PageOK, ListedOK, Ordered, envVars, loopVars
  <1> QED
    BY <1>3, <1>4, <1>5, <1>6, <1>7, IInvNext DEF ModuleStays

\* Between two documents or files: an operation in progress is none.
LEMMA QuietIs == ASSUME Quiet PROVE op.k = "idle"
  BY IdleIs DEF Quiet

\* A job that decides nothing keeps the folder and the module as they are.
LEMMA FolderAsIs ==
    ASSUME Core, ModuleOK, HistFits, EnvOK, NoDecision, UNCHANGED <<moduleVars, notes, envVars>>
    PROVE ModuleStays /\ Core' /\ EnvOK'
  <1>1. ModuleStays
    BY ModuleUnchanged
  <1>2. Core'
    BY <1>1, CoreKept DEF ModuleStays, NoDecision, diskVars
  <1> QED
    BY <1>1, <1>2 DEF EnvOK, envVars

\* The jobs that only move the agenda on.
LEMMA JobOK ==
    ASSUME IInv,
           \/ List \/ AllReconciled \/ AllMoved \/ StartScan \/ ScanDone \/ StampFull
    PROVE IInv'
  <1>1. /\ ModuleOK /\ HistFits /\ Core /\ EnvOK /\ MemOK /\ CursorsOK /\ WorkOK
        /\ Ordered(agenda) /\ TodoFits /\ page.end <= Len(feed)
    BY IInvIs
  <1>2. /\ Quiet /\ agenda # <<>> /\ agenda' = Tail(agenda) /\ NoDecision
        /\ UNCHANGED <<page, lastSeq, moduleVars, notes, session, memVars, envVars>>
    BY DEF List, AllReconciled, AllMoved, StartScan, ScanDone, StampFull, Doing, Finish, Agenda
  <1>3. ModuleStays /\ Core' /\ EnvOK'
    BY <1>1, <1>2, FolderAsIs
  <1>4. MemOK' /\ CursorsOK'
    BY <1>1, <1>2 DEF MemOK, CursorsOK, memVars, List, AllReconciled, AllMoved, StartScan,
                      ScanDone, StampFull
  <1>5. /\ agenda' \in Seq(Jobs) /\ Ordered(agenda')
        /\ agenda' # <<>> /\ Head(agenda') \in Followers => Head(agenda) = Before(Head(agenda'))
    BY <1>1, <1>2, TailOrdered DEF WorkOK
  <1>6. todo' \subseteq Docs \cup Paths /\ ListedOK'
    <2>1. CASE List
      <3>1. \A d \in Docs : Readable(d) => doc[d].path \in Paths /\ Current(d) \in Nat
        BY <1>1, ModuleOKIs, ContentOK DEF DocOK, HistFits, Readable
      <3> QED
        BY <2>1, <3>1 DEF List, ListedOK
    <2>2. CASE ~List
      BY <1>1, <2>2 DEF WorkOK, ListedOK, AllReconciled, AllMoved, StartScan, ScanDone, StampFull
    <2> QED
      BY <2>1, <2>2
  <1>7. TodoFits'
    <2>1. op'.k = "idle" /\ UNCHANGED <<rec, op>>
      BY <1>2, QuietIs DEF NoDecision
    <2>2. CASE List
      <3>1. Head(agenda) = "list"
        BY <2>2 DEF List, Doing
      <3>2. agenda' # <<>> /\ Head(agenda') \in Followers => Head(agenda') = "reconcile"
        BY <1>5, <3>1 DEF Before, Followers
      <3>3. \A d \in Docs : Readable(d) => <<doc[d].path, Current(d)>> # None
        BY <1>1, RecordAssumption, ModuleOKIs, ContentOK DEF DocOK, HistFits, Readable
      <3>4. \A d \in todo' : d \in Docs /\ listed'[d] # None
        BY <2>2, <3>3 DEF List
      <3> QED
        BY <3>2, <3>4 DEF TodoFits, Followers
    <2>3. CASE AllReconciled
      <3>1. Head(agenda) = "reconcile"
        BY <2>3 DEF AllReconciled, Doing
      <3>2. agenda' # <<>> /\ Head(agenda') \in Followers => Head(agenda') = "missing"
        BY <1>5, <3>1 DEF Before, Followers
      <3>3. \A d \in todo' : d \in Docs /\ Known(d)'
        BY <2>1, <2>3 DEF AllReconciled, Known
      <3> QED
        BY <2>1, <3>2, <3>3 DEF TodoFits, Followers
    <2>4. CASE StartScan
      <3>1. Head(agenda) = "scan"
        BY <2>4 DEF StartScan, Doing
      <3>2. agenda' # <<>> /\ Head(agenda') \in Followers => Head(agenda') = "visit"
        BY <1>5, <3>1 DEF Before, Followers
      <3> QED
        BY <2>4, <3>2 DEF TodoFits, Followers, StartScan
    <2>5. CASE AllMoved \/ ScanDone \/ StampFull
      <3>1. Head(agenda) \in {"missing", "visit", "stamp"}
        BY <2>5 DEF AllMoved, ScanDone, StampFull, Doing
      <3>2. ~(agenda' # <<>> /\ Head(agenda') \in Followers)
        BY <1>5, <3>1 DEF Before, Followers
      <3> QED
        BY <3>2 DEF TodoFits, Followers
    <2> QED
      BY <2>2, <2>3, <2>4, <2>5
  <1>8. page'.end <= Len(feed')
    BY <1>1, <1>2 DEF moduleVars
  <1> QED
    BY <1>1, <1>2, <1>3, <1>4, <1>5, <1>6, <1>7, <1>8, IInvNext
    DEF ModuleStays, WorkOK, PageOK

\* The jobs that take one document or path at a time.
LEMMA VisitOK ==
    ASSUME IInv,
           \/ \E d \in Docs : ReconcileDoc(d) \/ NotListed(d)
           \/ \E p \in Paths : ScanFile(p)
    PROVE IInv'
  <1>1. /\ ModuleOK /\ HistFits /\ Core /\ EnvOK /\ MemOK /\ CursorsOK /\ WorkOK
        /\ Ordered(agenda) /\ TodoFits /\ page.end <= Len(feed)
    BY IInvIs
  <1>2. /\ op.k = "idle" /\ agenda # <<>> /\ todo' \subseteq todo
        /\ UNCHANGED <<agenda, listed, page, lastSeq, fullDue, moduleVars, notes, session,
                       memVars, envVars>>
    BY QuietIs DEF ReconcileDoc, NotListed, ScanFile, Doing, Agenda
  <1>3. ModuleStays /\ hist' = hist /\ EnvOK' /\ MemOK' /\ CursorsOK' /\ WorkOK'
        /\ Ordered(agenda)' /\ page'.end <= Len(feed')
    BY <1>1, <1>2, ModuleUnchanged
    DEF EnvOK, MemOK, CursorsOK, WorkOK, ListedOK, PageOK, Ordered, memVars, envVars, moduleVars
  <1>4. CASE \E d \in Docs : ReconcileDoc(d)
    <2>1. PICK d \in Docs : ReconcileDoc(d)
      BY <1>4
    <2>2. /\ Head(agenda) = "reconcile" /\ listed[d] # None
          /\ op' = Step("relist", d, listed[d][1], listed[d][2], Nothing)
          /\ UNCHANGED <<file, copies, aside, rec, pending>>
      BY <1>1, <1>2, <2>1 DEF ReconcileDoc, Doing, TodoFits, diskVars
    <2>3. listed[d][1] \in Paths /\ listed[d][2] \in Nat
      BY <1>1, <2>2 DEF WorkOK, ListedOK
    <2>4. op' \in Steps
      BY <2>2, <2>3 DEF Step, Steps, Kinds, Nothing
    <2>5. op'.k = "relist" /\ op'.id = d /\ op'.path \in Paths /\ op'.had = FALSE
      BY <2>2, <2>3 DEF Step
    <2>6. (Types /\ OpFits)'
      BY <1>1, <2>2, <2>4, <2>5 DEF Core, Types, FilesOK, RecOK, PendingOK, OpFits
    <2>7. ASSUME ~RetryReturnsAny PROVE Honesty'
      BY <1>1, <1>3, <2>2, <2>5, <2>7
      DEF Core, Honesty, RecordHonest, OpHonest, Honest, Versions, Known
    <2>8. ReplacedIsSafe'
      BY <2>5 DEF ReplacedIsSafe
    <2>9. TodoFits'
      BY <1>1, <1>2, <2>2 DEF TodoFits
    <2> QED
      BY <1>3, <2>6, <2>7, <2>8, <2>9, IInvNext DEF Core, ModuleStays
  <1>5. CASE \E d \in Docs : NotListed(d)
    <2>1. PICK d \in Docs : NotListed(d)
      BY <1>5
    <2>2. Head(agenda) = "missing" /\ Known(d) /\ MoveAside(d) /\ todo' = todo \ {d}
      BY <1>1, <1>2, <2>1 DEF NotListed, Doing, TodoFits
    <2>3. Core' /\ op'.k = "forget" /\ op'.id = d /\ rec' = rec
      BY <1>1, <1>3, <2>2, MoveAsideOK DEF MoveAside
    <2>4. TodoFits'
      BY <1>1, <1>2, <2>2, <2>3 DEF TodoFits, Known
    <2> QED
      BY <1>3, <2>3, <2>4, IInvNext DEF ModuleStays
  <1>6. CASE \E p \in Paths : ScanFile(p)
    <2>1. PICK p \in Paths : ScanFile(p)
      BY <1>6
    <2>2. Core'
      BY <1>1, <1>3, <2>1, LocalChangedOK DEF ScanFile
    <2>3. TodoFits'
      BY <1>1, <1>2, <2>1 DEF TodoFits, ScanFile, Doing
    <2> QED
      BY <1>3, <2>2, <2>3, IInvNext DEF ModuleStays
  <1> QED
    BY <1>4, <1>5, <1>6

\* Reading the feed, one page at a time.
LEMMA FeedOKStep ==
    ASSUME IInv, ReadPage \/ ApplyChange \/ PageDone PROVE IInv'
  <1>1. /\ ModuleOK /\ HistFits /\ Core /\ EnvOK /\ MemOK /\ CursorsOK /\ WorkOK
        /\ Ordered(agenda) /\ TodoFits /\ page.end <= Len(feed)
    BY IInvIs
  <1>2. /\ op.k = "idle" /\ agenda # <<>> /\ Head(agenda) \in {"read", "apply"}
        /\ UNCHANGED <<todo, listed, fullDue, moduleVars, notes, session, memVars, envVars>>
    BY QuietIs DEF ReadPage, ApplyChange, PageDone, Doing, Agenda
  <1>3. ModuleStays /\ hist' = hist /\ feed' = feed /\ EnvOK' /\ MemOK' /\ ListedOK'
        /\ todo' \subseteq Docs \cup Paths
    BY <1>1, <1>2, ModuleUnchanged
    DEF EnvOK, MemOK, WorkOK, ListedOK, memVars, envVars, moduleVars
  <1>4. /\ feed \in Seq(Entries) /\ Len(feed) \in Nat /\ floor \in Nat /\ PageSize \in Nat
        /\ page.pos \in Nat /\ page.at \in Nat /\ page.end \in Nat /\ lastSeq \in Nat
        /\ agenda \in Seq(Jobs)
    BY <1>1, EngineAssumption DEF ModuleOK, WorkOK, PageOK, CursorsOK
  <1>5. /\ Tail(agenda) \in Seq(Jobs) /\ Ordered(Tail(agenda))
        /\ Tail(agenda) # <<>> /\ Head(Tail(agenda)) \in Followers
           => Head(agenda) = Before(Head(Tail(agenda)))
    BY <1>1, <1>2, <1>4, TailOrdered
  <1>6. Tail(agenda) # <<>> => Head(Tail(agenda)) \notin Followers
    BY <1>2, <1>5 DEF Before, Followers
  <1>7. CASE ApplyChange
    <2> DEFINE e == feed[page.at + 1]
    <2>1. page.at < page.end
      BY <1>7 DEF ApplyChange
    <2>2. e \in Entries
      BY <1>1, <1>4, <2>1
    <2>3. e.id \in Docs /\ e.ver \in Nat
      BY <2>2 DEF Entries
    <2>4. RemoteDeleted(e.id, e.ver) \/ RemoteChanged(e.id, e.path, e.ver)
      BY <1>7 DEF ApplyChange
    <2>5. Core'
      BY <1>1, <1>3, <2>3, <2>4, RemoteDeletedOK, RemoteChangedOK
    <2>6. /\ agenda' = agenda /\ lastSeq' = lastSeq /\ page' = [page EXCEPT !.at = @ + 1]
      BY <1>7 DEF ApplyChange
    <2>7. PageOK' /\ page'.end = page.end
      BY <1>1, <2>6 DEF WorkOK, PageOK
    <2>8. TodoFits'
      BY <1>2, <2>6 DEF TodoFits
    <2> QED
      BY <1>1, <1>2, <1>3, <2>5, <2>6, <2>7, <2>8, IInvNext
      DEF ModuleStays, CursorsOK, WorkOK, Ordered
  <1>8. CASE ReadPage
    <2>1. NoDecision /\ lastSeq' = lastSeq
      BY <1>8 DEF ReadPage
    <2>2. Core'
      BY <1>1, <1>3, <2>1, CoreKept DEF NoDecision, diskVars, ModuleStays
    <2>3. CASE page.pos # 0 /\ page.pos < floor
      <3>1. agenda' = Full \o agenda /\ page' = NoPage
        BY <1>8, <2>3 DEF ReadPage
      <3>2. agenda[1] \notin Followers
        BY <1>2 DEF Followers
      <3>3. agenda' \in Seq(Jobs) /\ Ordered(agenda')
        BY <1>1, <1>4, <3>1, <3>2, PlansOrdered, ConcatOrdered
      <3>4. agenda' # <<>> /\ Head(agenda') = "list"
        BY <1>4, <3>1, PlansOrdered DEF Full
      <3>5. TodoFits'
        BY <3>4 DEF TodoFits
      <3>6. PageOK' /\ page'.end <= Len(feed')
        BY <1>3, <1>4, <3>1 DEF NoPage, PageOK
      <3> QED
        BY <1>1, <1>2, <1>3, <2>1, <2>2, <3>3, <3>5, <3>6, IInvNext
        DEF ModuleStays, CursorsOK, WorkOK, Ordered
    <2>4. CASE ~(page.pos # 0 /\ page.pos < floor)
      <3> DEFINE last == FirstKept(page.pos) + PageSize
                 end == IF Len(feed) < last THEN Len(feed) ELSE last
      <3>1. /\ page' = [pos |-> page.pos, at |-> FirstKept(page.pos), end |-> end,
                        more |-> end < Len(feed)]
            /\ agenda' = Tail(agenda)
        BY <1>8, <2>4 DEF ReadPage, Finish
      <3>2. FirstKept(page.pos) \in Nat
        BY <1>4 DEF FirstKept
      <3>3. end \in Nat /\ end <= Len(feed)
        BY <1>4, <3>1, <3>2
      <3>4. PageOK' /\ page'.end = end
        BY <1>4, <3>1, <3>2, <3>3 DEF PageOK
      <3>5. TodoFits'
        BY <1>6, <3>1 DEF TodoFits, Followers
      <3> QED
        BY <1>1, <1>2, <1>3, <1>5, <2>1, <2>2, <3>1, <3>3, <3>4, <3>5, IInvNext
        DEF ModuleStays, CursorsOK, WorkOK, Ordered
    <2> QED
      BY <2>3, <2>4
  <1>9. CASE PageDone
    <2>1. /\ NoDecision /\ lastSeq' \in Nat
          /\ page' = [page EXCEPT !.pos = IF page.end > page.pos THEN page.end ELSE @]
          /\ agenda' = Tail(agenda) \/ agenda' = CatchUp \o Tail(agenda)
      BY <1>4, <1>9 DEF PageDone
    <2>2. Core'
      BY <1>1, <1>3, <2>1, CoreKept DEF NoDecision, diskVars, ModuleStays
    <2>3. PageOK' /\ page'.end = page.end
      BY <1>1, <1>4, <2>1 DEF WorkOK, PageOK
    <2>4. Tail(agenda) # <<>> => Tail(agenda)[1] \notin Followers
      BY <1>5, <1>6
    <2>5. agenda' \in Seq(Jobs) /\ Ordered(agenda')
      BY <1>5, <2>1, <2>4, PlansOrdered, ConcatOrdered
    <2>6. agenda' # <<>> => Head(agenda') \notin Followers
      <3>1. CASE agenda' = Tail(agenda)
        BY <1>6, <3>1
      <3>2. CASE agenda' = CatchUp \o Tail(agenda)
        BY <1>5, <3>2 DEF CatchUp, Followers
      <3> QED
        BY <2>1, <3>1, <3>2
    <2>7. TodoFits'
      BY <2>6 DEF TodoFits, Followers
    <2> QED
      BY <1>1, <1>2, <1>3, <2>1, <2>2, <2>3, <2>5, <2>7, IInvNext
      DEF ModuleStays, CursorsOK, WorkOK, Ordered
  <1> QED
    BY <1>7, <1>8, <1>9

\* The session's loop.
LEMMA LoopStepOK ==
    ASSUME IInv, LoopStep PROVE IInv'
  <1>1. /\ ModuleOK /\ HistFits /\ Core /\ EnvOK /\ MemOK /\ CursorsOK /\ WorkOK
        /\ Ordered(agenda) /\ TodoFits /\ page.end <= Len(feed)
    BY IInvIs
  <1>2. CASE HandleNote \/ \E p \in Paths : HandleDue(p)
    <2>1. /\ op.k = "idle" /\ agenda = <<>> /\ lastSeq' = lastSeq
          /\ UNCHANGED <<moduleVars, session, todo, listed, page, fullDue, envVars>>
      BY <1>2, QuietIs DEF HandleNote, HandleDue, Selecting, SeqAfterNote, loopVars
    <2>2. hist' = hist /\ Grows /\ feed' = feed /\ EnvOK' /\ CursorsOK'
      BY <1>1, <2>1 DEF moduleVars, Grows, EnvOK, CursorsOK, envVars
    <2>3. /\ agenda' \in {Full, agenda} /\ notes' \in Seq(Notices) /\ Core' /\ MemOK'
      <3>1. CASE HandleNote
        <4>1. Head(notes) \in Notices /\ Tail(notes) \in Seq(Notices)
          BY <1>1, <3>1 DEF HandleNote, ModuleOK
        <4>2. PICK n \in Notices : n = Head(notes)
          BY <4>1
        <4>3. n.type \in {"changed", "deleted"} => n.id \in Docs /\ n.ver \in Nat
          BY DEF Notices, Entries
        <4>4. \/ n.type = "access" /\ NoDecision
              \/ n.type = "deleted" /\ RemoteDeleted(n.id, n.ver)
              \/ n.type = "changed" /\ RemoteChanged(n.id, n.path, n.ver)
              \/ n.type = "unlocked" /\ IF n.id \in retry /\ Known(n.id)
                                        THEN LocalChanged(rec[n.id].path) ELSE Ignore
          BY <3>1, <4>2 DEF HandleNote
        <4>5. ASSUME NoDecision PROVE Core'
          BY <1>1, <2>2, <4>5, CoreKept DEF NoDecision, diskVars
        <4>6. ASSUME n.id \in Docs, n.ver \in Nat, RemoteDeleted(n.id, n.ver) PROVE Core'
          BY <1>1, <2>2, <4>6, RemoteDeletedOK
        <4>7. ASSUME n.id \in Docs, RemoteChanged(n.id, n.path, n.ver) PROVE Core'
          BY <1>1, <2>2, <4>7, RemoteChangedOK
        <4>a. ASSUME IF n.id \in retry /\ Known(n.id)
                     THEN LocalChanged(rec[n.id].path) ELSE Ignore
              PROVE Core'
          <5>1. CASE n.id \in retry /\ Known(n.id)
            <6>1. n.id \in Docs /\ rec[n.id].path \in Paths
              BY <1>1, <5>1, KnownOK DEF MemOK, Core, Types
            <6> QED
              BY <1>1, <2>2, <4>a, <5>1, <6>1, LocalChangedOK
          <5>2. CASE ~(n.id \in retry /\ Known(n.id))
            BY <1>1, <2>2, <4>a, <5>2, IgnoreOK
          <5> QED
            BY <5>1, <5>2
        <4>8. Core'
          BY <4>3, <4>4, <4>5, <4>6, <4>7, <4>a
        <4>9. notes' = Tail(notes) /\ agenda' \in {Full, agenda} /\ retry' \subseteq retry
              /\ dirty' = dirty
          BY <3>1 DEF HandleNote
        <4> QED
          BY <1>1, <4>1, <4>8, <4>9 DEF MemOK
      <3>2. CASE \E p \in Paths : HandleDue(p)
        <4>1. PICK p \in Paths : HandleDue(p)
          BY <3>2
        <4> QED
          BY <1>1, <2>2, <4>1, LocalChangedOK DEF HandleDue, MemOK, ModuleOK, loopVars
      <3> QED
        BY <1>2, <3>1, <3>2
    <2>4. ModuleStays
      BY <1>1, <2>1, <2>2, <2>3
      DEF ModuleStays, ModuleOK, HistFits, moduleVars
    <2>5. agenda' \in Seq(Jobs) /\ Ordered(agenda') /\ TodoFits'
      BY <2>1, <2>3, PlansOrdered DEF TodoFits
    <2> QED
      BY <1>1, <2>1, <2>2, <2>3, <2>4, <2>5, IInvNext
      DEF ModuleStays, WorkOK, ListedOK, PageOK
  <1>3. CASE StartSession \/ Tick \/ Reconnected \/ FullCheck \/ Online
    <2>1. /\ NoDecision /\ UNCHANGED <<moduleVars, notes, todo, listed, lastSeq, memVars, envVars>>
          /\ session' \in {"off", "starting", "up"} /\ fullDue' \in BOOLEAN
      BY <1>1, <1>3
      DEF StartSession, Tick, Reconnected, FullCheck, Online, Begin, loopVars, CursorsOK
    <2>2. /\ agenda' \in {Full, CatchUp, CatchUp \o Scan, <<>>}
          /\ page' \in {[NoPage EXCEPT !.pos = lastSeq], page}
      BY <1>3 DEF StartSession, Tick, Reconnected, FullCheck, Online, Begin, loopVars
    <2>3. ModuleStays /\ Core' /\ EnvOK'
      BY <1>1, <2>1, FolderAsIs
    <2>4. agenda' \in Seq(Jobs) /\ Ordered(agenda')
      BY <2>2, PlansOrdered
    <2>5. agenda' # <<>> => Head(agenda') \in {"list", "read"}
      BY <2>2, PlansOrdered
    <2>6. TodoFits'
      BY <2>5 DEF TodoFits
    <2>7. PageOK' /\ page'.end <= Len(feed')
      <3>1. lastSeq \in Nat /\ Len(feed) \in Nat /\ feed' = feed
        BY <1>1, <2>1 DEF CursorsOK, ModuleOK, moduleVars
      <3>2. CASE page' = page
        BY <1>1, <3>1, <3>2 DEF WorkOK, PageOK
      <3>3. CASE page' = [NoPage EXCEPT !.pos = lastSeq]
        <4>1. page' = [pos |-> lastSeq, at |-> 0, end |-> 0, more |-> FALSE]
          BY <3>3 DEF NoPage
        <4> QED
          BY <3>1, <4>1 DEF PageOK
      <3> QED
        BY <2>2, <3>2, <3>3
    <2>8. MemOK' /\ CursorsOK' /\ todo' \subseteq Docs \cup Paths /\ ListedOK'
      BY <1>1, <2>1 DEF MemOK, CursorsOK, WorkOK, ListedOK, memVars
    <2> QED
      BY <2>3, <2>4, <2>6, <2>7, <2>8, IInvNext DEF ModuleStays, WorkOK
  <1> QED
    BY <1>2, <1>3 DEF LoopStep

\* Whatever goes wrong.
LEMMA MisfortuneOK ==
    ASSUME IInv, Misfortune PROVE IInv'
  <1>1. /\ ModuleOK /\ HistFits /\ Core /\ EnvOK /\ MemOK /\ CursorsOK /\ WorkOK
        /\ Ordered(agenda) /\ TodoFits /\ page.end <= Len(feed)
    BY IInvIs
  <1>2. /\ UNCHANGED <<file, copies, aside, rec, lastSeq, fullDue, seen, edits>>
        /\ failed' = failed + 1
    BY DEF Misfortune, Crash, Unreachable, ReplyLost, RequestFails, ListingFails, FailsAfterDoing, Refused,
           Fault, diskVars
  <1>3. EnvOK'
    BY <1>1, <1>2 DEF EnvOK
  <1>4. PendingOK'
    BY <1>1 DEF Misfortune, Crash, Unreachable, ReplyLost, RequestFails, ListingFails, FailsAfterDoing,
                Refused, Core, Types, PendingOK
  <1>5. ModuleStays
    <2>1. CASE Crash \/ Unreachable
      <3>1. notes' = <<>> /\ UNCHANGED moduleVars
        BY <2>1 DEF Crash, Unreachable, EndSession
      <3> QED
        BY <1>1, <3>1 DEF ModuleStays, ModuleOK, HistFits, Grows, moduleVars
    <2>2. CASE RequestFails \/ Refused
      BY <1>1, <2>2, ModuleUnchanged DEF RequestFails, Refused
    <2>4. CASE ListingFails
      <3>1. (notes' = <<>> \/ notes' = notes) /\ UNCHANGED moduleVars
        BY <2>4 DEF ListingFails, EndSession
      <3>2. CASE notes' = <<>>
        BY <1>1, <3>1, <3>2 DEF ModuleStays, ModuleOK, HistFits, Grows, moduleVars
      <3>3. CASE notes' = notes
        BY <1>1, <3>1, <3>3, ModuleUnchanged
      <3> QED
        BY <3>1, <3>2, <3>3
    <2>3. CASE ReplyLost \/ FailsAfterDoing
      <3>1. /\ DocOK' /\ HistOK' /\ CountersOK' /\ HistFits' /\ Grows
            /\ feed' \in Seq(Entries) /\ Len(feed) < Len(feed')
        BY <1>1, <2>3, DoneOK DEF ReplyLost, FailsAfterDoing
      <3>2. notes' \in Seq(Notices)
        <4>1. CASE ReplyLost
          BY <4>1 DEF ReplyLost, EndSession
        <4>2. CASE FailsAfterDoing
          BY <1>1, <3>1, <4>2, EchoOK DEF FailsAfterDoing, ModuleOK
        <4> QED
          BY <2>3, <4>1, <4>2
      <3> QED
        BY <3>1, <3>2 DEF ModuleStays, ModuleOK, DocOK, HistOK, CountersOK
    <2> QED
      BY <2>1, <2>2, <2>3, <2>4 DEF Misfortune
  <1>6. op' = Idle
    BY DEF Misfortune, Crash, Unreachable, ReplyLost, RequestFails, ListingFails, FailsAfterDoing, Refused,
           EndSession, Doing, Quiet
  <1>7. op' \in Steps /\ op'.k = "idle" /\ op'.had = FALSE
    BY <1>6, IdleIs
  <1>8. Core'
    <2>1. (Types /\ OpFits)'
      BY <1>1, <1>2, <1>4, <1>7 DEF Core, Types, FilesOK, RecOK, OpFits
    <2>2. ASSUME ~RetryReturnsAny PROVE Honesty'
      BY <1>1, <1>2, <1>5, <1>7, <2>2, RecordsKept DEF Core, Honesty, OpHonest, ModuleStays
    <2>3. ReplacedIsSafe'
      BY <1>7 DEF ReplacedIsSafe
    <2> QED
      BY <2>1, <2>2, <2>3 DEF Core
  <1>9. CASE EndSession
    <2>1. retry' \subseteq retry
      BY <1>9 DEF Misfortune, Crash, Unreachable, ReplyLost, RequestFails, ListingFails, FailsAfterDoing,
                  Refused, memVars
    <2>2. MemOK' /\ CursorsOK'
      BY <1>1, <1>2, <1>9, <2>1 DEF EndSession, MemOK, CursorsOK
    <2>3. WorkOK' /\ Ordered(agenda)' /\ TodoFits'
      BY <1>9, PlansOrdered DEF EndSession, WorkOK, ListedOK, PageOK, NoPage, TodoFits
    <2>4. page'.end <= Len(feed')
      BY <1>5, <1>9 DEF EndSession, NoPage, ModuleStays, ModuleOK
    <2> QED
      BY <1>3, <1>5, <1>8, <2>2, <2>3, <2>4, IInvNext DEF ModuleStays
  <1>10. CASE RequestFails \/ FailsAfterDoing \/ Refused
    <2>1. UNCHANGED <<session, loopVars, memVars>>
      BY <1>10 DEF RequestFails, FailsAfterDoing, Refused
    <2>2. MemOK' /\ CursorsOK' /\ WorkOK' /\ Ordered(agenda)'
      BY <1>1, <1>2, <2>1
      DEF MemOK, CursorsOK, WorkOK, ListedOK, PageOK, Ordered, loopVars, memVars
    <2>3. TodoFits'
      BY <1>1, <1>2, <1>7, <2>1 DEF TodoFits, loopVars, Known
    <2>4. page'.end <= Len(feed')
      <3>1. /\ page' = page /\ Len(feed) <= Len(feed') /\ page.end \in Nat
            /\ Len(feed) \in Nat /\ Len(feed') \in Nat
        BY <1>1, <1>5, <2>1 DEF loopVars, ModuleStays, ModuleOK, WorkOK, PageOK
      <3> QED
        BY <1>1, <3>1
    <2> QED
      BY <1>3, <1>5, <1>8, <2>2, <2>3, <2>4, IInvNext DEF ModuleStays
  <1>11. CASE agenda' = <<>> /\ UNCHANGED <<session, notes, todo, op, dirty, page, listed, retry, moduleVars>>
    <2>1. MemOK' /\ CursorsOK' /\ WorkOK' /\ Ordered(agenda)' /\ TodoFits'
      BY <1>1, <1>2, <1>11, PlansOrdered
      DEF MemOK, CursorsOK, WorkOK, ListedOK, PageOK, TodoFits
    <2>2. page'.end <= Len(feed')
      BY <1>1, <1>11 DEF moduleVars
    <2> QED
      BY <1>3, <1>5, <1>8, <2>1, <2>2, IInvNext DEF ModuleStays
  <1> QED
    BY <1>9, <1>10, <1>11 DEF Misfortune, Crash, Unreachable, ReplyLost, ListingFails

\* Whatever the person does, but for the race an editor can win.
LEMMA PeopleOK ==
    ASSUME IInv, People PROVE IInv'
  <1>1. /\ ModuleOK /\ HistFits /\ Core /\ EnvOK /\ MemOK /\ CursorsOK /\ WorkOK
        /\ Ordered(agenda) /\ TodoFits /\ page.end <= Len(feed)
    BY IInvIs
  <1>2. /\ UNCHANGED <<doc, hist, feed, floor, acts, notes, session, aside, dbVars, loopVars, op,
                       retry, failed>>
        /\ edits' = edits + 1
    BY DEF People, PersonSaves, PersonTakesCopy, PersonRemoves, PersonRemovesCopy, Person
  <1>3. /\ file \in [Paths -> Nat] /\ copies \subseteq Copies /\ fresh \in Contents
        /\ fresh + 1 \in Contents /\ seen \subseteq Contents
    BY <1>1 DEF Core, Types, FilesOK, ModuleOK, EnvOK, Contents
  <1>4. /\ file' \in [Paths -> Nat] /\ copies' \subseteq Copies /\ fresh' \in Contents
        /\ seen' \subseteq Contents /\ dirty' \subseteq Paths
        /\ ~EditorRace /\ op.k \in {"write", "rm"} => file'[op.path] = file[op.path]
    <2>1. ASSUME NEW p \in Paths, NEW x \in Nat, file' = [file EXCEPT ![p] = x],
                 EditorRace \/ ~Replacing(p)
          PROVE /\ file' \in [Paths -> Nat]
                /\ ~EditorRace /\ op.k \in {"write", "rm"} => file'[op.path] = file[op.path]
      <3>1. op.k \in {"write", "rm"} => op.path \in Paths
        BY <1>1, OpIs
      <3> QED
        BY <1>3, <2>1, <3>1 DEF Replacing
    <2>2. ASSUME NEW p \in Paths, PersonSaves(p) \/ PersonRemoves(p)
          PROVE /\ file' \in [Paths -> Nat] /\ copies' \subseteq Copies /\ fresh' \in Contents
                /\ seen' \subseteq Contents /\ dirty' \subseteq Paths
                /\ ~EditorRace /\ op.k \in {"write", "rm"} => file'[op.path] = file[op.path]
      <3>1. file[p] \in Nat /\ Nothing \in Nat /\ fresh \in Nat
        BY <1>3 DEF Contents, Nothing
      <3>2. seen' \subseteq Contents
        BY <1>3, <2>2, <3>1 DEF PersonSaves, PersonRemoves, Looks, Contents, Nothing
      <3>3. /\ EditorRace \/ ~Replacing(p)
            /\ file' = [file EXCEPT ![p] = fresh] \/ file' = [file EXCEPT ![p] = Nothing]
            /\ dirty' \in {dirty, dirty \cup {p}} /\ fresh' \in {fresh, fresh + 1}
            /\ copies' = copies
        BY <2>2 DEF PersonSaves, PersonRemoves, Touches
      <3> QED
        BY <1>1, <1>3, <2>1, <3>1, <3>2, <3>3 DEF MemOK
    <2>3. ASSUME NEW c \in copies, PersonTakesCopy(c) \/ PersonRemovesCopy(c)
          PROVE /\ file' \in [Paths -> Nat] /\ copies' \subseteq Copies /\ fresh' \in Contents
                /\ seen' \subseteq Contents /\ dirty' \subseteq Paths
                /\ ~EditorRace /\ op.k \in {"write", "rm"} => file'[op.path] = file[op.path]
      <3>1. c.name[1] \in Paths /\ c.body \in Contents
        BY <1>3 DEF Copies
      <3>2. file[c.name[1]] \in Nat /\ c.body \in Nat
        BY <1>3, <3>1 DEF Contents
      <3>3. seen' \subseteq Contents
        BY <1>3, <2>3, <3>1, <3>2
        DEF PersonTakesCopy, PersonRemovesCopy, Looks, Contents, Nothing
      <3>4. CASE PersonTakesCopy(c)
        BY <1>1, <1>3, <2>1, <3>1, <3>2, <3>3, <3>4 DEF PersonTakesCopy, Touches, MemOK
      <3>5. CASE PersonRemovesCopy(c)
        BY <1>1, <1>3, <3>3, <3>5 DEF PersonRemovesCopy, MemOK
      <3> QED
        BY <2>3, <3>4, <3>5
    <2> QED
      BY <2>2, <2>3 DEF People
  <1>5. Published' = Published
    BY <1>2 DEF Published, Versions
  <1>6. ModuleOK' /\ HistFits' /\ EnvOK' /\ MemOK' /\ CursorsOK'
    <2>1. ModuleOK'
      BY <1>1, <1>2, <1>4 DEF ModuleOK
    <2>2. HistFits'
      BY <1>1, <1>2 DEF HistFits
    <2>3. EnvOK' /\ MemOK'
      BY <1>1, <1>2, <1>4 DEF EnvOK, MemOK
    <2>4. CursorsOK'
      BY <1>1, <1>2 DEF CursorsOK, dbVars
    <2> QED
      BY <2>1, <2>2, <2>3, <2>4
  <1>8. WorkOK' /\ Ordered(agenda)' /\ TodoFits' /\ page'.end <= Len(feed')
    <2>1. WorkOK' /\ page'.end <= Len(feed')
      BY <1>1, <1>2 DEF WorkOK, ListedOK, PageOK, loopVars
    <2>2. Ordered(agenda)'
      BY <1>1, <1>2 DEF Ordered, loopVars
    <2>3. TodoFits'
      BY <1>1, <1>2 DEF TodoFits, Known, loopVars, dbVars
    <2> QED
      BY <2>1, <2>2, <2>3
  <1>7. Core'
    BY <1>1, <1>2, <1>4, <1>5
    DEF Core, Types, FilesOK, RecOK, PendingOK, OpFits, Known, Honesty, RecordHonest, OpHonest,
        Honest, Versions, ReplacedIsSafe, dbVars
  <1> QED
    BY <1>6, <1>7, <1>8, IInvNext

\* What other people do in the module preserves the invariant.
LEMMA OthersActOK ==
    ASSUME IInv, OthersAct PROVE IInv'
  <1>1. /\ ModuleOK /\ HistFits /\ Core /\ EnvOK /\ MemOK /\ CursorsOK /\ WorkOK
        /\ Ordered(agenda) /\ TodoFits /\ page.end <= Len(feed)
    BY IInvIs
  <1>2. OtherPeople /\ UNCHANGED <<session, diskVars, dbVars, loopVars, op, memVars, envVars>>
    BY DEF OthersAct
  <1>3. ModuleOK' /\ HistFits' /\ Grows /\ Len(feed) <= Len(feed')
    BY <1>1, <1>2, OtherPeopleOK
  <1>4. Core'
    BY <1>1, <1>2, <1>3, CoreKept DEF diskVars, dbVars
  <1>5. EnvOK' /\ MemOK' /\ CursorsOK' /\ WorkOK' /\ Ordered(agenda)' /\ TodoFits'
    BY <1>1, <1>2
    DEF EnvOK, MemOK, CursorsOK, WorkOK, ListedOK, PageOK, Ordered, TodoFits,
        Known, loopVars, dbVars, memVars, envVars
  <1>6. page'.end <= Len(feed')
    <2>1. /\ page' = page /\ page.end \in Nat /\ Len(feed) \in Nat /\ Len(feed') \in Nat
      BY <1>1, <1>2, <1>3 DEF loopVars, WorkOK, PageOK, ModuleOK
    <2> QED
      BY <1>1, <1>3, <2>1
  <1> QED
    BY <1>3, <1>4, <1>5, <1>6, IInvNext

\* A stuttering step preserves the invariant.
LEMMA StutterOK ==
    ASSUME IInv, UNCHANGED vars PROVE IInv'
  <1>1. /\ ModuleOK /\ HistFits /\ Core /\ EnvOK /\ MemOK /\ CursorsOK /\ WorkOK
        /\ Ordered(agenda) /\ TodoFits /\ page.end <= Len(feed)
    BY IInvIs
  <1>2. UNCHANGED <<moduleVars, notes, session, diskVars, dbVars, loopVars, op, memVars, envVars>>
    BY DEF vars
  <1>3. ModuleStays
    BY <1>1, <1>2, ModuleUnchanged
  <1>4. Core'
    BY <1>1, <1>2, <1>3, CoreKept DEF ModuleStays, diskVars, dbVars
  <1>5. EnvOK' /\ MemOK' /\ CursorsOK' /\ WorkOK' /\ Ordered(agenda)' /\ TodoFits'
        /\ page'.end <= Len(feed')
    BY <1>1, <1>2
    DEF EnvOK, MemOK, CursorsOK, WorkOK, ListedOK, PageOK, Ordered, TodoFits,
        Known, loopVars, dbVars, memVars, envVars, moduleVars
  <1> QED
    BY <1>3, <1>4, <1>5, IInvNext DEF ModuleStays

\* The invariant holds when the daemon has never run.
LEMMA InitOK == Init => IInv
  <1> SUFFICES ASSUME Init PROVE IInv
    OBVIOUS
  <1> USE IdAssumption, HomeAssumption DEF Init, ModuleInit
  <1>1. ModuleOK
    <2>1. \A d \in Docs : <<d>> \in Seq(Contents)
      BY DEF Docs, Contents
    <2>2. hist \in [Docs -> Seq(Contents)]
      BY <2>1
    <2>3. fresh \in Contents
      BY DEF Contents
    <2> QED
      BY <2>2, <2>3 DEF ModuleOK, Lives
  <1>2. HistFits
    BY DEF HistFits
  <1>3. op \in Steps /\ op.k = "idle" /\ op.had = FALSE
    BY IdleIs
  <1>4. Core
    BY <1>3 DEF Core, Types, FilesOK, RecOK, PendingOK, OpFits, Known, Honesty, RecordHonest,
                OpHonest, ReplacedIsSafe, Nothing
  <1>5. EnvOK /\ MemOK /\ CursorsOK /\ WorkOK /\ Ordered(agenda) /\ TodoFits
    BY PlansOrdered DEF EnvOK, MemOK, CursorsOK, WorkOK, ListedOK, PageOK, NoPage, TodoFits
  <1>6. page.end <= Len(feed)
    BY DEF NoPage
  <1> QED
    BY <1>1, <1>2, <1>4, <1>5, <1>6, IInvIs

\* The invariant the others follow from: every step, of the engine, of people and
\* of misfortune, keeps it.
THEOREM Invariant == Spec => []IInv
  <1>1. ASSUME IInv, [Next]_vars PROVE IInv'
    BY <1>1, OpStepOK, JobOK, VisitOK, FeedOKStep, LoopStepOK, MisfortuneOK, PeopleOK, OthersActOK,
       StutterOK DEF Next, Engine, AgendaStep
  <1> QED
    BY <1>1, InitOK, PTL DEF Spec

\* Every variable keeps its kind of value.
THEOREM TypeCorrect == Spec => []TypeOK
  <1>1. IInv => TypeOK
    BY DEF IInv
  <1> QED
    BY <1>1, Invariant, PTL

\* A record says what the module has at that version, as long as the module
\* answers a repeated creation only with the content it was sent.
THEOREM RecordsHonest == ~RetryReturnsAny => (Spec => []RecordHonest)
  <1> SUFFICES ASSUME ~RetryReturnsAny PROVE Spec => []RecordHonest
    OBVIOUS
  <1>1. IInv => RecordHonest
    BY DEF IInv, Honesty
  <1> QED
    BY <1>1, Invariant, PTL

-----------------------------------------------------------------------------
(* The engine keeps the promise of Mirror.                                 *)

safe == Published \cup aside

\* What the module has are contents.
LEMMA PublishedContents == ASSUME ModuleOK PROVE Published \subseteq Contents
  <1> SUFFICES ASSUME NEW x \in Published PROVE x \in Contents
    OBVIOUS
  <1>1. PICK d \in Docs : \E v \in DOMAIN hist[d] : x = hist[d][v]
    BY PublishedIs DEF Published, Versions
  <1>2. hist[d] \in Seq(Contents)
    BY DEF ModuleOK
  <1> QED
    BY <1>1, <1>2

\* A step that touches no file can only add to what is safe.
LEMMA AddsSafe ==
    ASSUME safe \subseteq safe', safe' \subseteq Contents, UNCHANGED <<file, edits>>
    PROVE Promise!Next
  BY DEF Promise!Next, Promise!Publishes, safe

\* A step that replaces one file: what it held is safe, what it holds now was.
LEMMA ReplacesOne ==
    ASSUME NEW p \in Paths, NEW x \in safe \cup {Nothing}, file \in [Paths -> Nat],
           file' = [file EXCEPT ![p] = x], file[p] \in safe' \cup {Nothing},
           safe \subseteq safe', safe' \subseteq Contents, edits' = edits
    PROVE Promise!Next
  <1>1. file'[p] = x
    OBVIOUS
  <1>2. Promise!DaemonReplaces(p)
    BY <1>1 DEF Promise!DaemonReplaces, safe
  <1> QED
    BY <1>2 DEF Promise!Next

\* A step of the person.
LEMMA TouchesOne ==
    ASSUME NEW p \in Paths, NEW x \in Contents \cup {Nothing}, file \in [Paths -> Nat],
           file' = [file EXCEPT ![p] = x], edits' = edits + 1, safe' = safe
    PROVE Promise!Next
  <1>1. file'[p] = x
    OBVIOUS
  <1>2. Promise!PersonTouches(p)
    BY <1>1 DEF Promise!PersonTouches, safe
  <1> QED
    BY <1>2 DEF Promise!Next

\* Every step keeps the versions there are.
LEMMA StepGrows ==
    ASSUME IInv, Next PROVE Grows
  <1>1. ModuleOK /\ HistFits /\ Core
    BY IInvIs
  <1>2. CASE Update \/ Create
    BY <1>1, <1>2, UpdateOK, CreateOK DEF ModuleStays
  <1>3. CASE OpStep /\ ~Update /\ ~Create
    BY <1>3 DEF OpStep, Relist, MoveFile, MoveRecord, Get, Place, Write, Put, Remove, Forget,
                ClearPending, Local, moduleVars, Grows
  <1>4. CASE AgendaStep
    BY <1>4 DEF AgendaStep, List, AllReconciled, AllMoved, StartScan, ScanDone, StampFull, ReadPage,
                ApplyChange, PageDone, ReconcileDoc, NotListed, ScanFile, Agenda, moduleVars, Grows
  <1>5. CASE LoopStep
    BY <1>5 DEF LoopStep, StartSession, Online, HandleNote, Tick, Reconnected, FullCheck, Begin,
                HandleDue, moduleVars, Grows
  <1>6. CASE Misfortune
    <2>1. CASE ReplyLost \/ FailsAfterDoing
      BY <1>1, <2>1, DoneOK DEF ReplyLost, FailsAfterDoing
    <2>2. CASE Crash \/ Unreachable \/ RequestFails \/ ListingFails \/ Refused
      BY <2>2 DEF Crash, Unreachable, RequestFails, ListingFails, Refused, moduleVars, Grows
    <2> QED
      BY <1>6, <2>1, <2>2 DEF Misfortune
  <1>7. CASE People
    BY <1>7 DEF People, PersonSaves, PersonTakesCopy, PersonRemoves, PersonRemovesCopy, Person, Grows
  <1>8. CASE OthersAct
    BY <1>1, <1>8, OtherPeopleOK DEF OthersAct
  <1> QED
    BY <1>2, <1>3, <1>4, <1>5, <1>6, <1>7, <1>8 DEF Next, Engine

\* A decision touches no file but the one it moves aside.
LEMMA DeletedTouches ==
    ASSUME NEW d, NEW v, RemoteDeleted(d, v)
    PROVE UNCHANGED <<file, aside>> \/ (Known(d) /\ MoveAside(d))
  BY DEF RemoteDeleted, Ignore, diskVars

\* What an announced change calls for touches no file outside what the promise allows.
LEMMA ChangedTouches ==
    ASSUME NEW d, NEW p, NEW v, RemoteChanged(d, p, v) PROVE UNCHANGED <<file, aside>>
  BY DEF RemoteChanged, Ignore, Fetch, diskVars

\* What a changed file calls for touches no file outside what the promise allows.
LEMMA LocalTouches ==
    ASSUME NEW p, LocalChanged(p) PROVE UNCHANGED <<file, aside>>
  BY DEF LocalChanged, Ignore, CreateLocal, diskVars

Asides == \E d \in Docs : Known(d) /\ MoveAside(d)

\* How a step of the engine can touch a file.
LEMMA EngineTouches ==
    ASSUME IInv, Engine \/ Misfortune \/ OthersAct
    PROVE /\ edits' = edits
          /\ UNCHANGED <<file, aside>> \/ Asides \/ MoveFile \/ Write \/ Remove
  <1>1. /\ ModuleOK /\ HistFits /\ Core /\ EnvOK /\ MemOK /\ CursorsOK /\ WorkOK
        /\ Ordered(agenda) /\ TodoFits /\ page.end <= Len(feed)
    BY IInvIs
  <1>2. CASE OpStep
    <2>1. edits' = edits
      BY <1>2 DEF OpStep, Relist, MoveFile, MoveRecord, Get, Place, Write, Put, Remove, Forget,
                  Update, Create, ClearPending, Local, InOp, envVars
    <2>2. CASE Relist \/ MoveRecord \/ Place \/ Put \/ Forget \/ Create \/ ClearPending
      BY <2>1, <2>2 DEF Relist, MoveRecord, Place, Put, Forget, Create, ClearPending, Ignore, Fetch,
                        diskVars
    <2>3. CASE Get
      <3>1. op.id \in Docs /\ (op.had => Known(op.id))
        BY <1>1, <2>3, OpIs DEF Get, Core, OpFits
      <3> QED
        BY <2>1, <2>3, <3>1, DeletedTouches DEF Get, Ignore, Asides, diskVars
    <2>4. CASE Update
      <3>1. op.id \in Docs /\ Known(op.id)
        BY <1>1, <2>4, OpIs DEF Update, Core, OpFits
      <3>2. SaveReply(op.id, op.ver, op.body)
              \in {"not_found", "locked", "same", "version_conflict", "saved"}
        BY DEF SaveReply
      <3> QED
        BY <2>1, <2>4, <3>1, <3>2 DEF Update, Ignore, Fetch, Asides, diskVars
    <2> QED
      BY <1>2, <2>1, <2>2, <2>3, <2>4 DEF OpStep
  <1>3. CASE AgendaStep
    <2>1. edits' = edits
      BY <1>3 DEF AgendaStep, List, AllReconciled, AllMoved, StartScan, ScanDone, StampFull,
                  ReadPage, ApplyChange, PageDone, ReconcileDoc, NotListed, ScanFile, Agenda, envVars
    <2>2. CASE \/ List \/ AllReconciled \/ AllMoved \/ StartScan \/ ScanDone \/ StampFull
               \/ ReadPage \/ PageDone \/ \E d \in Docs : ReconcileDoc(d)
      BY <2>1, <2>2 DEF List, AllReconciled, AllMoved, StartScan, ScanDone, StampFull,
                        ReadPage, PageDone, ReconcileDoc, NoDecision, diskVars
    <2>3. CASE ApplyChange
      <3> DEFINE e == feed[page.at + 1]
      <3>1. page.at \in Nat /\ page.end \in Nat /\ page.at < page.end /\ feed \in Seq(Entries)
        BY <1>1, <2>3 DEF ApplyChange, WorkOK, PageOK, ModuleOK
      <3>2. e \in Entries
        BY <1>1, <3>1
      <3>3. e.id \in Docs
        BY <3>2 DEF Entries
      <3>4. RemoteDeleted(e.id, e.ver) \/ RemoteChanged(e.id, e.path, e.ver)
        BY <2>3 DEF ApplyChange
      <3> QED
        BY <2>1, <3>3, <3>4, DeletedTouches, ChangedTouches DEF Asides
    <2>4. CASE \E d \in Docs : NotListed(d)
      BY <1>1, <2>1, <2>4 DEF NotListed, TodoFits, Doing, Asides
    <2>5. CASE \E p \in Paths : ScanFile(p)
      BY <2>1, <2>5, LocalTouches DEF ScanFile
    <2> QED
      BY <1>3, <2>2, <2>3, <2>4, <2>5 DEF AgendaStep
  <1>4. CASE LoopStep
    <2>1. edits' = edits
      BY <1>4 DEF LoopStep, StartSession, Online, HandleNote, Tick, Reconnected, FullCheck, Begin,
                  HandleDue, envVars
    <2>2. CASE StartSession \/ Online \/ Tick \/ Reconnected \/ FullCheck
      BY <2>1, <2>2 DEF StartSession, Online, Tick, Reconnected, FullCheck, Begin, NoDecision,
                        diskVars
    <2>3. CASE HandleNote
      <3>1. Head(notes) \in Notices
        BY <1>1, <2>3 DEF HandleNote, ModuleOK
      <3>2. PICK n \in Notices : n = Head(notes)
        BY <3>1
      <3>3. n.type \in {"changed", "deleted"} => n.id \in Docs
        BY DEF Notices, Entries
      <3>4. \/ NoDecision \/ Ignore
            \/ n.id \in Docs /\ RemoteDeleted(n.id, n.ver)
            \/ RemoteChanged(n.id, n.path, n.ver)
            \/ LocalChanged(rec[n.id].path)
        BY <2>3, <3>2, <3>3 DEF HandleNote
      <3>5. UNCHANGED <<file, aside>> \/ Asides
        BY <3>4, DeletedTouches, ChangedTouches, LocalTouches DEF NoDecision, Ignore, Asides, diskVars
      <3> QED
        BY <2>1, <3>5
    <2>4. CASE \E p \in Paths : HandleDue(p)
      BY <2>1, <2>4, LocalTouches DEF HandleDue
    <2> QED
      BY <1>4, <2>2, <2>3, <2>4 DEF LoopStep
  <1>5. CASE Misfortune
    BY <1>5 DEF Misfortune, Crash, Unreachable, ReplyLost, RequestFails, ListingFails,
                FailsAfterDoing, Refused, Fault, diskVars
  <1>6. CASE OthersAct
    BY <1>6 DEF OthersAct, diskVars, envVars
  <1> QED
    BY <1>2, <1>3, <1>4, <1>5, <1>6 DEF Engine

\* Every step does what Mirror allows, when no editor wins the race and the
\* module answers a repeated creation only with the content it was sent.
LEMMA StepKeepsPromise ==
    ASSUME IInv, IInv', Next, ~EditorRace, ~RetryReturnsAny
    PROVE Promise!Next \/ UNCHANGED <<file, safe, edits>>
  <1>1. /\ ModuleOK /\ Core /\ FilesOK /\ file \in [Paths -> Nat] /\ RecordHonest
        /\ OpHonest /\ ReplacedIsSafe
    BY IInvIs DEF Core, Types, FilesOK, Honesty
  <1>2. Published' \subseteq Contents
    <2>1. ModuleOK' /\ HistOK'
      BY DEF IInv, TypeOK, ModuleOK, HistOK
    <2>2. ASSUME NEW d \in Docs, NEW v \in DOMAIN hist'[d] PROVE hist'[d][v] \in Contents
      BY <2>1 DEF HistOK
    <2> QED
      BY <2>2, PublishedIs DEF Published, Versions
  <1>3. Published \subseteq Published'
    BY StepGrows, PublishedGrows
  <1>4. aside' \subseteq Contents
    BY DEF IInv, TypeOK, FolderOK
  <1>5. ASSUME aside \subseteq aside' PROVE safe \subseteq safe' /\ safe' \subseteq Contents
    BY <1>2, <1>3, <1>4, <1>5 DEF safe
  <1>6. CASE Engine \/ Misfortune \/ OthersAct
    <2>1. edits' = edits
      BY <1>6, EngineTouches
    <2>2. CASE UNCHANGED <<file, aside>>
      BY <1>5, <2>1, <2>2, AddsSafe
    <2>3. CASE Asides
      <3>1. PICK d \in Docs : Known(d) /\ MoveAside(d)
        BY <2>3 DEF Asides
      <3>2. PICK p \in Paths : p = rec[d].path
        BY <1>1, <3>1, KnownOK DEF Core, Types
      <3>3. CASE file[p] = Nothing
        <4>1. UNCHANGED <<file, aside>>
          BY <3>1, <3>2, <3>3 DEF MoveAside
        <4> QED
          BY <1>5, <2>1, <4>1, AddsSafe
      <3>4. CASE file[p] # Nothing
        <4>1. aside' = aside \cup {file[p]} /\ file' = [file EXCEPT ![p] = Nothing]
          BY <3>1, <3>2, <3>4 DEF MoveAside
        <4>2. file[p] \in safe'
          BY <4>1 DEF safe
        <4> QED
          BY <1>1, <1>5, <2>1, <4>1, <4>2, ReplacesOne
      <3> QED
        BY <3>3, <3>4
    <2>4. CASE MoveFile
      <3>1. PICK d \in Docs :
              LET from == rec[d].path IN
              /\ Following(d)
              /\ IF file[from] # Nothing /\ InTheWay(op.path)
                 THEN op' = Idle /\ file' = file
                 ELSE /\ op' = [op EXCEPT !.k = IF op.k = "relist" THEN "moved:relist" ELSE "moved:got"]
                      /\ file' = IF file[from] = Nothing THEN file
                                 ELSE [file EXCEPT ![from] = Nothing, ![op.path] = file[from]]
        BY <2>4 DEF MoveFile
      <3>2. /\ UNCHANGED <<aside, hist>> /\ op.path \in Paths /\ rec[d].path \in Paths
        BY <1>1, <2>4, <3>1, OpIs, KnownOK DEF MoveFile, Local, moduleVars, Following, Core, Types
      <3>3. safe' = safe
        BY <3>2 DEF safe, Published, Versions
      <3>4. CASE file' = file
        BY <2>1, <3>3, <3>4
      <3>5. CASE file' # file
        <4>1. /\ file[op.path] = Nothing
              /\ file' = [file EXCEPT ![rec[d].path] = Nothing, ![op.path] = file[rec[d].path]]
          BY <3>1, <3>5 DEF InTheWay
        <4>2. PICK p \in Paths, q \in Paths : p = rec[d].path /\ q = op.path
          BY <3>2
        <4>3. file[q] = Nothing /\ file' = [file EXCEPT ![p] = Nothing, ![q] = file[p]]
          BY <4>1, <4>2
        <4>4. Promise!DaemonMoves(p, q)
          BY <2>1, <3>3, <4>3 DEF Promise!DaemonMoves, safe
        <4> QED
          BY <4>4 DEF Promise!Next
      <3> QED
        BY <3>4, <3>5
    <2>5. CASE Write
      <3>1. /\ op.k = "write" /\ op.path \in Paths /\ op.id \in Docs /\ aside' = aside
            /\ file' = [file EXCEPT ![op.path] = op.body]
        BY <1>1, <2>5, OpIs DEF Write
      <3>2. op.body \in safe
        BY <1>1, <3>1, HonestIsPublished DEF OpHonest, safe
      <3>3. file[op.path] \in safe' \cup {Nothing}
        BY <1>1, <1>3, <3>1 DEF ReplacedIsSafe, safe
      <3> QED
        BY <1>1, <1>5, <2>1, <3>1, <3>2, <3>3, ReplacesOne
    <2>6. CASE Remove
      <3>1. /\ op.k = "rm" /\ op.path \in Paths /\ aside' = aside
            /\ file' = [file EXCEPT ![op.path] = Nothing]
        BY <1>1, <2>6, OpIs DEF Remove
      <3>2. file[op.path] \in safe' \cup {Nothing}
        BY <1>1, <1>3, <3>1 DEF ReplacedIsSafe, safe
      <3> QED
        BY <1>1, <1>5, <2>1, <3>1, <3>2, ReplacesOne
    <2> QED
      BY <1>6, <2>2, <2>3, <2>4, <2>5, <2>6, EngineTouches
  <1>7. CASE People
    <2>1. edits' = edits + 1 /\ safe' = safe
      <3>1. edits' = edits + 1 /\ hist' = hist /\ aside' = aside
        BY <1>7 DEF People, PersonSaves, PersonTakesCopy, PersonRemoves, PersonRemovesCopy, Person
      <3> QED
        BY <3>1 DEF safe, Published, Versions
    <2>2. ASSUME NEW p \in Paths, PersonSaves(p) \/ PersonRemoves(p)
          PROVE Promise!Next
      <3>1. fresh \in Contents
        BY <1>1 DEF ModuleOK
      <3>2. file' = [file EXCEPT ![p] = fresh] \/ file' = [file EXCEPT ![p] = Nothing]
        BY <2>2 DEF PersonSaves, PersonRemoves
      <3> QED
        BY <1>1, <2>1, <3>1, <3>2, TouchesOne
    <2>3. ASSUME NEW c \in copies, PersonTakesCopy(c) \/ PersonRemovesCopy(c)
          PROVE Promise!Next
      <3>1. PICK p \in Paths, x \in Contents : p = c.name[1] /\ x = c.body
        BY <1>1 DEF FilesOK, Copies
      <3>2. file[p] \in Contents \cup {Nothing}
        BY <1>1 DEF Contents, Nothing
      <3>3. file' = [file EXCEPT ![p] = x] \/ file' = file
        BY <2>3, <3>1 DEF PersonTakesCopy, PersonRemovesCopy
      <3>4. file = [file EXCEPT ![p] = file[p]]
        BY <1>1
      <3>5. file' = [file EXCEPT ![p] = x] \/ file' = [file EXCEPT ![p] = file[p]]
        BY <3>3, <3>4
      <3> QED
        BY <1>1, <2>1, <3>2, <3>5, TouchesOne
    <2> QED
      BY <1>7, <2>2, <2>3 DEF People
  <1> QED
    BY <1>6, <1>7 DEF Next

\* The daemon's first state is a first state of the promise.
LEMMA PromiseInit == ASSUME Init, IInv PROVE Promise!Init
  <1>1. Published \subseteq Contents
    BY IInvIs, PublishedContents
  <1> QED
    BY <1>1 DEF Promise!Init, Init

\* The engine keeps the promise: nothing a person wrote is taken out of a file
\* before it is safe somewhere else, and no file gets what nobody put there.
THEOREM EngineKeepsPromise ==
    ~EditorRace /\ ~RetryReturnsAny => (Spec => KeepsPromise)
  <1> SUFFICES ASSUME ~EditorRace, ~RetryReturnsAny PROVE Spec => KeepsPromise
    OBVIOUS
  <1>1. Init /\ IInv => Promise!Init
    BY PromiseInit
  <1>2. ASSUME IInv, IInv', [Next]_vars
        PROVE [Promise!Next]_<<file, Published \cup aside, edits>>
    <2>1. CASE Next
      BY <1>2, <2>1, StepKeepsPromise DEF safe
    <2>2. CASE UNCHANGED vars
      BY <2>2 DEF vars, moduleVars, diskVars, envVars, Published, Versions
    <2> QED
      BY <1>2, <2>1, <2>2
  <1> QED
    BY <1>1, <1>2, Invariant, PTL DEF Spec, KeepsPromise, Promise!Spec

-----------------------------------------------------------------------------
(* The conflict copies.                                                    *)

\* The remote version about to be written beside a changed file does not take the
\* place of the copy another document's conflict waits for. With several documents
\* it may: one in conflict is moved away and another, at the same version number,
\* comes to its path. The second's copy then has the first one's name, until the
\* second's record is stored and the first one's dropped (state.go PutDoc).
CopiesApart ==
    op.k = "got" => \A d \in Docs : d # op.id /\ Known(d) => rec[d].conf # CopyName(op.path, op.ver)

\* A conflict waits for the copy of the version its record holds; the operation
\* that is about to record one wrote that copy.
NamedForVersion(r) == r.conf # None => r.conf[2] = r.ver
OpCopy == op.conf # None => /\ op.k = "put" /\ op.conf[2] = op.ver
                            /\ \A c \in copies : c.name = op.conf => c.body = op.body
CopyInv == CopyIsTheBase /\ OpCopy /\ \A d \in Docs : Known(d) => NamedForVersion(rec[d])

\* A record may be dropped, moved, or lose its conflict; it gets no new one.
SameConflict(r, s) == s.conf = None \/ (s.conf = r.conf /\ s.ver = r.ver /\ s.sum = r.sum)
RecordsKeepConf == \A d \in Docs : Known(d)' => Known(d) /\ SameConflict(rec[d], rec'[d])
NoNewCopy == copies' \subseteq copies /\ RecordsKeepConf

\* Records that are dropped or kept keep their conflicts.
LEMMA KeptConf ==
    ASSUME \A d \in Docs : rec'[d] \in {None, rec[d]} PROVE RecordsKeepConf
  BY DEF RecordsKeepConf, SameConflict, Known

\* Records left alone keep their conflicts.
LEMMA SameConf == ASSUME rec' = rec PROVE RecordsKeepConf
  BY DEF RecordsKeepConf, SameConflict, Known

\* What a change calls for makes no copy and waits for none.
LEMMA DecisionCopies ==
    /\ \A d \in Docs : \A had \in BOOLEAN : Fetch(d, had) => NoNewCopy /\ op'.conf = None
    /\ Ignore => NoNewCopy /\ op'.conf = None
    /\ \A d \in Docs : MoveAside(d) => NoNewCopy /\ op'.conf = None
  BY SameConf DEF Fetch, Ignore, MoveAside, Idle, Step, NoNewCopy, diskVars

\* A deletion makes no copy and waits for none.
LEMMA DeletedCopies ==
    ASSUME NEW d \in Docs, NEW v, RemoteDeleted(d, v) PROVE NoNewCopy /\ op'.conf = None
  <1>1. CASE Ignore \/ MoveAside(d)
    BY <1>1, DecisionCopies
  <1>2. CASE UNCHANGED <<diskVars, rec, pending>>
             /\ \E k : op' = Step(k, d, rec[d].path, 0, Nothing)
    BY <1>2, SameConf DEF Step, NoNewCopy, diskVars
  <1> QED
    BY <1>1, <1>2 DEF RemoteDeleted

\* An announced version makes no copy and waits for none.
LEMMA ChangedCopies ==
    ASSUME NEW d \in Docs, NEW p, NEW v, RemoteChanged(d, p, v) PROVE NoNewCopy /\ op'.conf = None
  <1>1. Known(d) \in BOOLEAN
    BY DEF Known
  <1> QED
    BY <1>1, DecisionCopies DEF RemoteChanged

\* A changed file makes no copy; it may end the conflict its document had.
LEMMA LocalCopies ==
    ASSUME RecOK, NEW p, LocalChanged(p) PROVE NoNewCopy /\ op'.conf = None
  <1>1. CASE Ignore
    BY <1>1, DecisionCopies
  <1>2. CASE CreateLocal(p)
    BY <1>2, SameConf DEF CreateLocal, NoNewCopy, diskVars, Idle, Step
  <1>3. ASSUME NEW d \in RecordsAt(p), Upload(d, p) PROVE op'.conf = None
    BY <1>3 DEF Upload, Idle, Step
  <1>4. ASSUME NEW d \in RecordsAt(p), Upload(d, p), UNCHANGED <<diskVars, rec, pending>>
        PROVE NoNewCopy
    BY <1>4, SameConf DEF NoNewCopy, diskVars
  <1>5. ASSUME NEW d \in RecordsAt(p), PutDoc(d, [rec[d] EXCEPT !.conf = None]),
               UNCHANGED <<diskVars, pending>>
        PROVE NoNewCopy
    <2>1. rec[d] \in Records /\ d \in Docs
      BY KnownOK DEF RecordsAt
    <2>2. [rec[d] EXCEPT !.conf = None] \in Records /\ [rec[d] EXCEPT !.conf = None].conf = None
      BY <2>1 DEF Records
    <2>3. rec'[d].conf = None /\ \A e \in Docs \ {d} : rec'[e] \in {None, rec[e]}
      BY <1>5, <2>1, <2>2, PutDocOK
    <2>4. RecordsKeepConf
      BY <2>3 DEF RecordsKeepConf, SameConflict, Known, RecordsAt
    <2> QED
      BY <1>5, <2>4 DEF NoNewCopy, diskVars
  <1> QED
    BY <1>1, <1>2, <1>3, <1>4, <1>5 DEF LocalChanged

\* A step that changes only where an operation is.
LEMMA StepCopies ==
    ASSUME Types, NEW k, op' = [op EXCEPT !.k = k], op.conf = None PROVE op'.conf = None
  BY DEF Types, Steps

\* Every step but a copy's writing and a record's storing makes no copy and no
\* conflict.
LEMMA OpCopies ==
    ASSUME IInv, CopyInv, OpStep, ~Place, ~Put PROVE NoNewCopy /\ op'.conf = None
  <1>1. Core /\ Types /\ RecOK /\ ModuleOK
    BY IInvIs DEF Core, Types
  <1>2. CASE Relist
    <2>1. op.id \in Docs
      BY <1>1, <1>2 DEF Core, OpFits, Relist
    <2> QED
      BY <1>2, <2>1, DecisionCopies DEF Relist
  <1>3. CASE MoveFile
    <2>1. op.conf = None
      BY <1>3 DEF MoveFile, Following, CopyInv, OpCopy
    <2>2. op'.conf = None
      BY <1>1, <1>3, <2>1, StepCopies DEF MoveFile, Idle, Step
    <2> QED
      BY <1>3, <2>2, SameConf DEF MoveFile, NoNewCopy
  <1>4. CASE MoveRecord
    <2>1. op.conf = None /\ op.id \in Docs /\ Known(op.id) /\ op.path \in Paths
      BY <1>1, <1>4 DEF MoveRecord, CopyInv, OpCopy, Core, OpFits
    <2>2. op'.conf = None
      BY <1>1, <1>4, <2>1, StepCopies DEF MoveRecord
    <2> DEFINE r == [rec[op.id] EXCEPT !.path = op.path]
    <2>3. rec[op.id] \in Records
      BY <1>1, <2>1, KnownOK
    <2>4. r \in Records /\ SameConflict(rec[op.id], r)
      BY <2>1, <2>3 DEF Records, SameConflict
    <2>5. PutDoc(op.id, r)
      BY <1>4 DEF MoveRecord
    <2> HIDE DEF r
    <2>6. rec'[op.id] = r /\ \A e \in Docs \ {op.id} : rec'[e] \in {None, rec[e]}
      BY <1>1, <2>1, <2>4, <2>5, PutDocOK
    <2>7. RecordsKeepConf
      BY <2>1, <2>4, <2>6 DEF RecordsKeepConf, SameConflict, Known
    <2> QED
      BY <1>4, <2>2, <2>7 DEF MoveRecord, NoNewCopy, diskVars
  <1>5. CASE Get
    <2>1. op.id \in Docs /\ op.had \in BOOLEAN
      BY <1>1, <1>5 DEF Get, Core, Types, OpFits, Steps
    <2>2. CASE Ignore \/ MoveAside(op.id) \/ RemoteDeleted(op.id, 0)
      BY <2>1, <2>2, DecisionCopies, DeletedCopies
    <2>3. CASE UNCHANGED <<diskVars, rec, pending>>
               /\ op' = [Step("got", op.id, doc[op.id].path, Current(op.id), Content(op.id))
                           EXCEPT !.had = op.had]
      BY <2>3, SameConf DEF NoNewCopy, diskVars, Step
    <2> QED
      BY <1>5, <2>2, <2>3 DEF Get
  <1>6. CASE Write \/ Remove \/ ClearPending
    <2>1. op.conf = None
      BY <1>6 DEF Write, Remove, ClearPending, CopyInv, OpCopy
    <2>2. op'.conf = None
      BY <1>1, <1>6, <2>1, StepCopies DEF Write, Remove, ClearPending
    <2> QED
      BY <1>6, <2>2, SameConf DEF Write, Remove, ClearPending, NoNewCopy, diskVars
  <1>7. CASE Forget
    <2>1. op.id \in Docs
      BY <1>1, <1>7 DEF Core, OpFits, Forget
    <2>2. RecordsKeepConf
      BY <1>1, <1>7, <2>1, DeleteDocOK, KeptConf DEF Forget
    <2> QED
      BY <1>7, <2>2 DEF Forget, NoNewCopy, diskVars, Idle, Step
  <1>8. CASE Update
    <2>1. op.conf = None /\ op.id \in Docs
      BY <1>1, <1>8 DEF Update, CopyInv, OpCopy, Core, OpFits
    <2>2. SaveReply(op.id, op.ver, op.body)
            \in {"not_found", "locked", "same", "version_conflict", "saved"}
      BY DEF SaveReply
    <2>3. \/ \E v : Saved(v) /\ UNCHANGED <<diskVars, rec, pending>>
          \/ Fetch(op.id, TRUE) \/ Ignore \/ MoveAside(op.id)
      BY <1>8, <2>2 DEF Update
    <2>4. CASE \E v : Saved(v) /\ UNCHANGED <<diskVars, rec, pending>>
      <3>1. op'.conf = None
        BY <1>1, <2>1, <2>4 DEF Saved, Types, Steps
      <3> QED
        BY <2>4, <3>1, SameConf DEF NoNewCopy, diskVars
    <2> QED
      BY <2>1, <2>3, <2>4, DecisionCopies
  <1>9. CASE Create
    <2>1. op.conf = None /\ UNCHANGED <<diskVars, rec>>
      BY <1>9 DEF Create, CopyInv, OpCopy
    <2>2. CreateReply(op.id, op.path, op.body) \in {"created", "known", "exists"}
      BY DEF CreateReply
    <2>3. \/ op' = [op EXCEPT !.k = "clear", !.ver = 1]
          \/ op' = [op EXCEPT !.k = "clear", !.ver = Current(op.id), !.path = doc[op.id].path]
          \/ op' = Idle
      BY <1>9, <2>2 DEF Create
    <2>4. op'.conf = None
      <3>1. op \in Steps /\ op.conf = None
        BY <1>1, <2>1 DEF Types
      <3>2. ASSUME op' = [op EXCEPT !.k = "clear", !.ver = 1] PROVE op'.conf = None
        BY <3>1, <3>2 DEF Steps
      <3>3. ASSUME op' = [op EXCEPT !.k = "clear", !.ver = Current(op.id), !.path = doc[op.id].path]
            PROVE op'.conf = None
        BY <3>1, <3>3 DEF Steps
      <3> QED
        BY <2>3, <3>2, <3>3 DEF Idle, Step
    <2> QED
      BY <2>1, <2>4, SameConf DEF NoNewCopy, diskVars
  <1> QED
    BY <1>2, <1>3, <1>4, <1>5, <1>6, <1>7, <1>8, <1>9 DEF OpStep

\* A step of the agenda makes no copy and no conflict.
LEMMA AgendaCopies ==
    ASSUME IInv, CopyInv, AgendaStep PROVE NoNewCopy /\ (op' = op \/ op'.conf = None)
  <1>1. /\ ModuleOK /\ Core /\ RecOK /\ WorkOK /\ TodoFits
    BY IInvIs DEF Core, Types
  <1>2. CASE \/ List \/ AllReconciled \/ AllMoved \/ StartScan \/ ScanDone \/ StampFull
             \/ ReadPage \/ PageDone
    BY <1>2, SameConf DEF List, AllReconciled, AllMoved, StartScan, ScanDone, StampFull,
                      ReadPage, PageDone, NoDecision, diskVars, NoNewCopy
  <1>3. CASE \E d \in Docs : ReconcileDoc(d)
    BY <1>3, SameConf DEF ReconcileDoc, diskVars, NoNewCopy, Step
  <1>4. CASE ApplyChange
    <2> DEFINE e == feed[page.at + 1]
    <2>1. page.at \in Nat /\ page.end \in Nat /\ page.at < page.end /\ feed \in Seq(Entries)
      BY <1>1, <1>4 DEF ApplyChange, WorkOK, PageOK, ModuleOK
    <2>2. e \in Entries
      BY <2>1, IInvIs
    <2>3. e.id \in Docs
      BY <2>2 DEF Entries
    <2>4. RemoteDeleted(e.id, e.ver) \/ RemoteChanged(e.id, e.path, e.ver)
      BY <1>4 DEF ApplyChange
    <2> QED
      BY <2>3, <2>4, DeletedCopies, ChangedCopies
  <1>5. CASE \E d \in Docs : NotListed(d)
    BY <1>5, DecisionCopies DEF NotListed
  <1>6. CASE \E p \in Paths : ScanFile(p)
    BY <1>1, <1>6, LocalCopies DEF ScanFile
  <1> QED
    BY <1>2, <1>3, <1>4, <1>5, <1>6 DEF AgendaStep

\* A step of the loop makes no copy and no conflict.
LEMMA LoopCopies ==
    ASSUME IInv, CopyInv, LoopStep PROVE NoNewCopy /\ (op' = op \/ op'.conf = None)
  <1>1. ModuleOK /\ RecOK
    BY IInvIs DEF Core, Types
  <1>2. CASE StartSession \/ Online \/ Tick \/ Reconnected \/ FullCheck
    BY <1>2, SameConf DEF StartSession, Online, Tick, Reconnected, FullCheck, Begin, NoDecision,
                      diskVars, NoNewCopy
  <1>3. CASE HandleNote
    <2>1. Head(notes) \in Notices
      BY <1>1, <1>3 DEF HandleNote, ModuleOK
    <2>2. PICK n \in Notices : n = Head(notes)
      BY <2>1
    <2>3. n.type \in {"changed", "deleted"} => n.id \in Docs
      BY DEF Notices, Entries
    <2>4. \/ NoDecision \/ Ignore
          \/ n.id \in Docs /\ RemoteDeleted(n.id, n.ver)
          \/ n.id \in Docs /\ RemoteChanged(n.id, n.path, n.ver)
          \/ LocalChanged(rec[n.id].path)
      BY <1>3, <2>2, <2>3 DEF HandleNote
    <2>5. CASE NoDecision
      BY <2>5, SameConf DEF NoDecision, diskVars, NoNewCopy
    <2> QED
      BY <1>1, <2>4, <2>5, DecisionCopies, DeletedCopies, ChangedCopies, LocalCopies
  <1>4. CASE \E p \in Paths : HandleDue(p)
    BY <1>1, <1>4, LocalCopies DEF HandleDue
  <1> QED
    BY <1>2, <1>3, <1>4 DEF LoopStep

\* Neither misfortune nor people make a copy or a conflict.
LEMMA WorldCopies ==
    ASSUME IInv, Misfortune \/ People \/ OthersAct \/ UNCHANGED vars
    PROVE NoNewCopy /\ (op' = op \/ op'.conf = None)
  <1>1. CASE Misfortune
    <2>1. UNCHANGED <<copies, rec>>
      BY <1>1 DEF Misfortune, Crash, Unreachable, ReplyLost, RequestFails, ListingFails,
                  FailsAfterDoing, Refused, Fault, diskVars
    <2>2. op' \in {op, Idle}
      BY <1>1 DEF Misfortune, Crash, Unreachable, ReplyLost, RequestFails, ListingFails,
                  FailsAfterDoing, Refused, EndSession
    <2> QED
      BY <2>1, <2>2, SameConf DEF NoNewCopy, Idle, Step
  <1>2. CASE People
    <2>1. op' = op /\ rec' = rec /\ copies' \subseteq copies
      BY <1>2 DEF People, PersonSaves, PersonTakesCopy, PersonRemoves, PersonRemovesCopy, Person, dbVars
    <2> QED
      BY <2>1, SameConf DEF NoNewCopy
  <1>3. CASE OthersAct \/ UNCHANGED vars
    BY <1>3, SameConf DEF OthersAct, vars, diskVars, dbVars, NoNewCopy
  <1> QED
    BY <1>1, <1>2, <1>3

\* Without new copies or conflicts, each conflict still waits for its version.
LEMMA NoNewKeeps ==
    ASSUME IInv, CopyInv, NoNewCopy, op' = op \/ op'.conf = None
    PROVE CopyInv'
  <1>1. OpCopy'
    BY DEF CopyInv, OpCopy, NoNewCopy
  <1>2. ASSUME NEW d \in Docs, Known(d)'
        PROVE NamedForVersion(rec[d])' /\ \A c \in copies' : rec'[d].conf = c.name => c.body = rec'[d].sum
    <2>1. Known(d) /\ SameConflict(rec[d], rec'[d])
      BY <1>2 DEF NoNewCopy, RecordsKeepConf
    <2>2. CASE rec'[d].conf = None
      <3>1. \A c \in copies' : c.name # None
        BY RecordAssumption, IInvIs DEF NoNewCopy, Core, Types, FilesOK, Copies
      <3> QED
        BY <2>2, <3>1 DEF NamedForVersion
    <2>3. CASE rec'[d].conf # None
      BY <2>1, <2>3 DEF SameConflict, CopyInv, NamedForVersion, CopyIsTheBase, NoNewCopy
    <2> QED
      BY <2>2, <2>3
  <1> QED
    BY <1>1, <1>2 DEF CopyInv, CopyIsTheBase

\* The version written beside a changed file.
LEMMA PlaceCopies ==
    ASSUME IInv, CopyInv, CopiesApart, Place, ~RetryReturnsAny PROVE CopyInv'
  <1>1. Core /\ Types /\ OpHonest /\ RecordHonest /\ op.k = "got" /\ op \in Steps /\ op.conf = None
    BY IInvIs DEF Core, Types, Honesty, Place, CopyInv, OpCopy
  <1>2. rec' = rec /\ op.id \in Docs
    BY <1>1 DEF Place, Core, OpFits
  <1>3. CASE UNCHANGED copies /\ op'.conf = None
    BY <1>2, <1>3, SameConf, NoNewKeeps DEF NoNewCopy
  <1>4. CASE WriteCopy(op.path, op.ver, op.body)
             /\ op' = [op EXCEPT !.k = "put", !.conf = CopyName(op.path, op.ver)]
    <2>1. op'.k = "put" /\ op'.conf = CopyName(op.path, op.ver) /\ op'.ver = op.ver /\ op'.body = op.body
      BY <1>1, <1>4 DEF Steps
    <2>2. \A c \in copies' : \/ c \in copies /\ c.name # CopyName(op.path, op.ver)
                             \/ c.name = CopyName(op.path, op.ver) /\ c.body = op.body
      BY <1>4 DEF WriteCopy
    <2>3. CopyName(op.path, op.ver)[2] = op.ver
      BY DEF CopyName
    <2>4. OpCopy'
      BY <2>1, <2>2, <2>3 DEF OpCopy
    <2>5. ASSUME NEW d \in Docs, Known(d), NEW c \in copies', rec[d].conf = c.name
          PROVE c.body = rec[d].sum
      <3>1. CASE c \in copies /\ c.name # CopyName(op.path, op.ver)
        BY <2>5, <3>1 DEF CopyInv, CopyIsTheBase
      <3>2. CASE c.name = CopyName(op.path, op.ver) /\ c.body = op.body
        <4>1. d = op.id
          BY <1>1, <2>5, <3>2 DEF CopiesApart
        <4>2. rec[d].conf # None
          <5>1. op.path \in Paths /\ op.ver \in Nat
            BY <1>1 DEF Core, OpFits, Steps
          <5>2. CopyName(op.path, op.ver) \in Paths \X Nat
            BY <5>1 DEF CopyName
          <5> QED
            BY <2>5, <3>2, <5>2, RecordAssumption
        <4>3. rec[d].ver = op.ver
          BY <2>3, <2>5, <3>2, <4>2 DEF CopyInv, NamedForVersion
        <4>4. Honest(d, rec[d].ver, rec[d].sum) /\ Honest(d, op.ver, op.body)
          BY <1>1, <2>5, <4>1 DEF RecordHonest, OpHonest
        <4> QED
          BY <3>2, <4>3, <4>4 DEF Honest
      <3> QED
        BY <2>2, <3>1, <3>2
    <2> QED
      BY <1>2, <2>4, <2>5 DEF CopyInv, CopyIsTheBase, Known
  <1> QED
    BY <1>1, <1>3, <1>4 DEF Place, Steps

\* A record that is stored waits for the copy its operation wrote.
LEMMA PutCopies ==
    ASSUME IInv, CopyInv, Put PROVE CopyInv'
  <1>1. Core /\ Types /\ RecOK /\ op \in Steps /\ copies' = copies
    BY IInvIs DEF Core, Types, Put, diskVars
  <1> DEFINE r == [path |-> op.path, ver |-> op.ver, sum |-> op.body, conf |-> op.conf]
  <1>2. op.id \in Docs /\ r \in Records
    BY <1>1 DEF Put, Core, OpFits, Steps, Records
  <1>3. PutDoc(op.id, r)
    BY DEF Put
  <1>4. NamedForVersion(r) /\ \A c \in copies : r.conf = c.name => c.body = r.sum
    <2>1. \A c \in copies : c.name # None
      BY <1>1, RecordAssumption DEF Types, FilesOK, Copies
    <2> QED
      BY <2>1 DEF NamedForVersion, CopyInv, OpCopy
  <1> HIDE DEF r
  <1>5. rec'[op.id] = r /\ \A e \in Docs \ {op.id} : rec'[e] \in {None, rec[e]}
    BY <1>1, <1>2, <1>3, PutDocOK
  <1>6. OpCopy'
    BY DEF Put, OpCopy, Idle, Step
  <1>7. ASSUME NEW d \in Docs, Known(d)'
        PROVE NamedForVersion(rec[d])' /\ \A c \in copies' : rec'[d].conf = c.name => c.body = rec'[d].sum
    BY <1>1, <1>4, <1>5, <1>7 DEF CopyInv, CopyIsTheBase, Known, NamedForVersion
  <1> QED
    BY <1>6, <1>7 DEF CopyInv, CopyIsTheBase

\* The copy a conflict waits for is the version the merge will be uploaded on
\* (engine.go:1286), as long as no other document's conflict copy takes its place.
THEOREM CopiesAreBases ==
    ~RetryReturnsAny => (Spec /\ []CopiesApart => []CopyIsTheBase)
  <1> SUFFICES ASSUME ~RetryReturnsAny PROVE Spec /\ []CopiesApart => []CopyIsTheBase
    OBVIOUS
  <1>1. Init => CopyInv
    BY DEF Init, CopyInv, CopyIsTheBase, OpCopy, Known, Idle, Step
  <1>2. ASSUME IInv, CopiesApart, CopyInv, [Next]_vars PROVE CopyInv'
    <2>1. CASE Place
      BY <1>2, <2>1, PlaceCopies
    <2>2. CASE Put
      BY <1>2, <2>2, PutCopies
    <2>3. CASE OpStep /\ ~Place /\ ~Put
      BY <1>2, <2>3, OpCopies, NoNewKeeps
    <2>4. CASE AgendaStep \/ LoopStep
      BY <1>2, <2>4, AgendaCopies, LoopCopies, NoNewKeeps
    <2>5. CASE Misfortune \/ People \/ OthersAct \/ UNCHANGED vars
      BY <1>2, <2>5, WorldCopies, NoNewKeeps
    <2> QED
      BY <1>2, <2>1, <2>2, <2>3, <2>4, <2>5 DEF Next, Engine
  <1>3. CopyInv => CopyIsTheBase
    BY DEF CopyInv
  <1> QED
    BY <1>1, <1>2, <1>3, Invariant, PTL DEF Spec

\* With one document nothing can take a copy's place.
THEOREM CopyIsItsBase ==
    NumDocs = 1 /\ ~RetryReturnsAny => (Spec => []CopyIsTheBase)
  <1> SUFFICES ASSUME NumDocs = 1, ~RetryReturnsAny PROVE Spec => []CopyIsTheBase
    OBVIOUS
  <1>1. IInv => CopiesApart
    <2> SUFFICES ASSUME IInv, op.k = "got", NEW d \in Docs PROVE d = op.id
      BY DEF CopiesApart
    <2> QED
      BY IInvIs DEF Core, OpFits, Docs
  <1> QED
    BY <1>1, Invariant, CopiesAreBases, PTL

-----------------------------------------------------------------------------
(* Deletions that were undone.                                             *)

\* A deletion that was announced is of a version the document had; the document, if
\* it is there again, has a later one.  (h and ds are hist and doc.)
Past(e, h, ds) == e.type = "deleted" =>
    0 < e.ver /\ e.ver <= Len(h[e.id]) /\ (ds[e.id].life = "live" => e.ver < Len(h[e.id]))
PastAll(s, h, ds) == \A i \in DOMAIN s : Past(s[i], h, ds)
AllPast == PastAll(feed, hist, doc) /\ PastAll(notes, hist, doc)

\* A document gets no fewer versions, and a deleted one comes back with one more.
Ages == \A d \in Docs : /\ Len(hist[d]) <= Len(hist'[d])
                        /\ doc'[d].life = "live" => \/ doc[d].life = "live"
                                                    \/ Len(hist[d]) < Len(hist'[d])
                                                    \/ Len(hist[d]) = 0

\* What was past stays past.
LEMMA PastStays ==
    ASSUME HistOK, HistOK', Ages, NEW e \in Entries \cup Notices, Past(e, hist, doc)
    PROVE Past(e, hist', doc')
  <1> SUFFICES ASSUME e.type = "deleted"
               PROVE /\ 0 < e.ver /\ e.ver <= Len(hist'[e.id])
                     /\ doc'[e.id].life = "live" => e.ver < Len(hist'[e.id])
    BY DEF Past
  <1>1. e.id \in Docs /\ e.ver \in Nat
    BY DEF Entries, Notices
  <1>2. Len(hist[e.id]) \in Nat /\ Len(hist'[e.id]) \in Nat
    BY <1>1 DEF HistOK
  <1>3. 0 < e.ver /\ e.ver <= Len(hist[e.id]) /\ (doc[e.id].life = "live" => e.ver < Len(hist[e.id]))
    BY DEF Past
  <1>4. /\ Len(hist[e.id]) <= Len(hist'[e.id])
        /\ doc'[e.id].life = "live" => \/ doc[e.id].life = "live"
                                       \/ Len(hist[e.id]) < Len(hist'[e.id]) \/ Len(hist[e.id]) = 0
    BY <1>1 DEF Ages
  <1> QED
    BY <1>1, <1>2, <1>3, <1>4

\* One more entry, or one fewer.
LEMMA PastAppend ==
    ASSUME NEW S, NEW s \in Seq(S), NEW e \in S, NEW h, NEW ds, PastAll(s, h, ds), Past(e, h, ds)
    PROVE PastAll(Append(s, e), h, ds)
  BY DEF PastAll

\* The entries behind the first stay past.
LEMMA PastTail ==
    ASSUME NEW S, NEW s \in Seq(S), s # <<>>, NEW h, NEW ds, PastAll(s, h, ds)
    PROVE PastAll(Tail(s), h, ds)
  BY DEF PastAll

Announced == feed' = feed \/ \E e \in Entries : feed' = Append(feed, e) /\ Past(e, hist', doc')
Notified == \/ notes' = notes \/ notes' = <<>>
            \/ notes # <<>> /\ notes' = Tail(notes)
            \/ \E n \in Notices : notes' = Append(notes, n) /\ Past(n, hist', doc')

\* When what is new is past and documents only age, everything said stays past.
LEMMA AllPastKept ==
    ASSUME ModuleOK, HistOK', AllPast, Ages, Announced, Notified PROVE AllPast'
  <1>1. HistOK /\ feed \in Seq(Entries) /\ notes \in Seq(Notices)
    BY DEF ModuleOK, HistOK
  <1>2. PastAll(feed, hist', doc') /\ PastAll(notes, hist', doc')
    <2>1. \A i \in DOMAIN feed : feed[i] \in Entries
      BY <1>1
    <2>2. \A i \in DOMAIN notes : notes[i] \in Notices
      BY <1>1
    <2> QED
      BY <1>1, <2>1, <2>2, PastStays DEF AllPast, PastAll
  <1>3. PastAll(feed', hist', doc')
    BY <1>1, <1>2, PastAppend DEF Announced
  <1>4. PastAll(<<>>, hist', doc')
    BY DEF PastAll
  <1>5. PastAll(notes', hist', doc')
    BY <1>1, <1>2, <1>4, PastAppend, PastTail DEF Notified
  <1> QED
    BY <1>3, <1>5 DEF AllPast

\* Documents left alone.
LEMMA StillAges == ASSUME HistOK, UNCHANGED <<doc, hist>> PROVE Ages
  <1>1. \A d \in Docs : Len(hist[d]) \in Nat
    BY DEF HistOK
  <1> QED
    BY <1>1 DEF Ages

\* A document that gets a version.
LEMMA OneAges ==
    ASSUME HistOK, HistOK', NEW d \in Docs, NEW x,
           hist' = [hist EXCEPT ![d] = Append(@, x)] \/ (hist[d] = <<>> /\ hist' = [hist EXCEPT ![d] = <<x>>]),
           \A e \in Docs \ {d} : doc'[e].life = doc[e].life
    PROVE Ages
  <1>1. \A e \in Docs \ {d} : hist'[e] = hist[e] /\ Len(hist[e]) \in Nat
    BY DEF HistOK
  <1>2. Len(hist[d]) \in Nat /\ Len(hist'[d]) = Len(hist[d]) + 1
    <2>1. CASE hist' = [hist EXCEPT ![d] = Append(@, x)]
      <3>1. hist'[d] = Append(hist[d], x) /\ hist[d] \in Seq(Contents)
        BY <2>1 DEF HistOK
      <3> QED
        BY <3>1
    <2>2. CASE hist[d] = <<>> /\ hist' = [hist EXCEPT ![d] = <<x>>]
      BY <2>2 DEF HistOK
    <2> QED
      BY <2>1, <2>2
  <1> QED
    BY <1>1, <1>2 DEF Ages

\* What is no deletion is past.
LEMMA ChangePast ==
    \A d, p, v, h, ds : \A t \in {"changed", "access", "unlocked"} : Past(Change(t, d, p, v), h, ds)
  BY DEF Past, Change

\* An announced change.
LEMMA AnnouncePast ==
    ASSUME NEW e \in Entries, NEW r \in BOOLEAN, Announce(e, r), Past(e, hist', doc')
    PROVE Announced /\ Notified
  <1>1. e \in Notices
    BY DEF Notices
  <1>2. feed' = Append(feed, e) /\ (notes' = notes \/ notes' = Append(notes, e))
    BY DEF Announce, Notify
  <1> QED
    BY <1>1, <1>2 DEF Announced, Notified

\* A notification that announces no deletion.
LEMMA NotifyPast ==
    ASSUME NEW n \in Notices, Notify(n), Past(n, hist', doc') PROVE Notified
  <1>1. notes' = notes \/ notes' = Append(notes, n)
    BY DEF Notify
  <1> QED
    BY <1>1 DEF Notified

\* What other people do announces only deletions of the version at hand.
LEMMA OthersPast ==
    ASSUME ModuleOK, HistFits, AllPast, OtherPeople, DeleteCarriesVersion PROVE AllPast'
  <1> USE DEF Other
  <1>a. DocOK /\ HistOK /\ FeedOK
    BY ModuleOKIs
  <1>b. HistOK'
    BY OtherPeopleOK DEF ModuleOK, HistOK
  <1>c. SUFFICES Ages /\ Announced /\ Notified
    BY <1>b, AllPastKept
  <1>1. ASSUME NEW d \in Docs, NEW p \in Paths, OtherCreates(d, p) PROVE Ages /\ Announced /\ Notified
    <2>1. Change("changed", d, p, 1) \in Entries
      BY DEF Change, Entries
    <2>2. hist[d] = <<>> /\ hist' = [hist EXCEPT ![d] = <<fresh>>]
          /\ \A e \in Docs \ {d} : doc'[e].life = doc[e].life
      BY <1>1, <1>a DEF OtherCreates, HistFits, DocOK
    <2>3. Ages
      BY <1>a, <1>b, <2>2, OneAges
    <2> QED
      BY <1>1, <2>1, <2>3, ChangePast, AnnouncePast DEF OtherCreates
  <1>2. ASSUME NEW d \in Docs, OtherSaves(d) \/ OtherRestores(d) PROVE Ages /\ Announced /\ Notified
    <2>1. hist[d] # <<>> /\ doc[d].path \in Paths /\ doc[d].readable \in BOOLEAN
      BY <1>2, <1>a DEF OtherSaves, OtherRestores, HistFits, DocOK
    <2>2. Change("changed", d, doc[d].path, Current(d) + 1) \in Entries
      BY <2>1, <1>a, ContentOK DEF Change, Entries
    <2>3. (\E x : hist' = [hist EXCEPT ![d] = Append(@, x)])
          /\ \A e \in Docs \ {d} : doc'[e].life = doc[e].life
      BY <1>2, <1>a DEF OtherSaves, OtherRestores, DocOK
    <2>4. Ages
      BY <1>a, <1>b, <2>3, OneAges
    <2> QED
      BY <1>2, <2>1, <2>2, <2>4, ChangePast, AnnouncePast DEF OtherSaves, OtherRestores
  <1>3. ASSUME NEW d \in Docs, NEW p \in Paths, OtherMoves(d, p) PROVE Ages /\ Announced /\ Notified
    <2>1. hist[d] # <<>> /\ doc[d].readable \in BOOLEAN
      BY <1>3, <1>a DEF OtherMoves, HistFits, DocOK
    <2>2. Change("changed", d, p, Current(d)) \in Entries
      BY <2>1, <1>a, ContentOK DEF Change, Entries
    <2>3. hist' = hist /\ \A e \in Docs : doc'[e].life = doc[e].life /\ Len(hist[e]) \in Nat
      BY <1>3, <1>a DEF OtherMoves, DocOK, HistOK
    <2>4. Ages
      BY <2>3 DEF Ages
    <2> QED
      BY <1>3, <2>1, <2>2, <2>4, ChangePast, AnnouncePast DEF OtherMoves
  <1>4. ASSUME NEW d \in Docs, OtherDeletes(d) PROVE Ages /\ Announced /\ Notified
    <2> DEFINE n == Change("deleted", d, doc[d].path, Current(d))
    <2>1. hist[d] # <<>> /\ doc[d].path \in Paths
      BY <1>4, <1>a DEF OtherDeletes, HistFits, DocOK
    <2>2. n \in Entries /\ n \in Notices /\ n.type = "deleted" /\ n.id = d /\ n.ver = Len(hist[d])
      BY <2>1, <1>a, ContentOK DEF Change, Entries, Notices, Current
    <2>3. hist' = hist /\ doc'[d].life = "deleted" /\ \A e \in Docs : Len(hist[e]) \in Nat
      BY <1>4, <1>a DEF OtherDeletes, DocOK, HistOK
    <2>4. \A e \in Docs \ {d} : doc'[e].life = doc[e].life
      BY <1>4, <1>a DEF OtherDeletes, DocOK
    <2>5. Ages
      BY <2>3, <2>4 DEF Ages
    <2>6. feed' = Append(feed, n) /\ (notes' = notes \/ notes' = Append(notes, n))
      BY <1>4 DEF OtherDeletes, Notify
    <2> HIDE DEF n
    <2>7. 0 < Len(hist[d])
      BY <1>a, <2>1 DEF HistOK
    <2>8. Past(n, hist', doc')
      BY <2>2, <2>3, <2>7 DEF Past
    <2> QED
      BY <2>2, <2>5, <2>6, <2>8 DEF Announced, Notified
  <1>5. ASSUME NEW d \in Docs, OtherChangesAccess(d) \/ OtherLocks(d) \/ LockEnds(d)
        PROVE Ages /\ Announced /\ Notified
    <2>1. Change("access", 0, None, 0) \in Notices /\ Change("unlocked", d, None, 0) \in Notices
      BY DEF Change, Notices
    <2>2. hist' = hist /\ feed' = feed /\ \A e \in Docs : Len(hist[e]) \in Nat
      BY <1>5, <1>a DEF OtherChangesAccess, OtherLocks, LockEnds, HistOK
    <2>a. \A e \in Docs : doc'[e].life = doc[e].life
      <3>1. \/ doc' = [doc EXCEPT ![d].readable = ~@] \/ \E b : doc' = [doc EXCEPT ![d].locked = b]
        BY <1>5 DEF OtherChangesAccess, OtherLocks, LockEnds
      <3> QED
        BY <1>a, <3>1 DEF DocOK
    <2>3. Ages
      BY <2>2, <2>a DEF Ages
    <2>4. Notified
      <3>1. CASE notes' = notes
        BY <3>1 DEF Notified
      <3>2. CASE Notify(Change("access", 0, None, 0)) \/ Notify(Change("unlocked", d, None, 0))
        BY <2>1, <3>2, ChangePast, NotifyPast
      <3> QED
        BY <1>5, <3>1, <3>2 DEF OtherChangesAccess, OtherLocks, LockEnds
    <2> QED
      BY <2>2, <2>3, <2>4 DEF Announced
  <1>6. ASSUME TrimFeed PROVE Ages /\ Announced /\ Notified
    BY <1>6, <1>a, StillAges DEF TrimFeed, Announced, Notified
  <1> QED
    BY <1>1, <1>2, <1>3, <1>4, <1>5, <1>6 DEF OtherPeople

\* What the daemon writes announces no deletion.
LEMMA WritesPast ==
    ASSUME ModuleOK, HistFits, Core, NEW d \in Docs, NEW p \in Paths, NEW x \in Contents,
           \/ ModuleSaves(d, x) /\ doc[d].life = "live"
           \/ ModuleCreates(d, p, x) /\ hist[d] = <<>>,
           Echo \/ notes' = <<>> \/ notes' = notes
    PROVE HistOK' /\ Ages /\ Announced /\ Notified
  <1>1. DocOK /\ HistOK /\ FeedOK
    BY ModuleOKIs
  <1>2. HistOK'
    BY <1>1, AppendsVersion, FirstVersion DEF ModuleSaves, ModuleCreates
  <1>3. Ages
    <2>1. \A e \in Docs \ {d} : doc'[e].life = doc[e].life
      BY <1>1 DEF ModuleSaves, ModuleCreates, DocOK
    <2>2. \/ hist' = [hist EXCEPT ![d] = Append(@, x)]
          \/ hist[d] = <<>> /\ hist' = [hist EXCEPT ![d] = <<x>>]
      BY DEF ModuleSaves, ModuleCreates
    <2> QED
      BY <1>1, <1>2, <2>1, <2>2, OneAges
  <1>4. PICK e \in Entries : feed' = Append(feed, e) /\ e.type = "changed"
    <2>1. CASE ModuleSaves(d, x) /\ doc[d].life = "live"
      <3>1. Change("changed", d, doc[d].path, Current(d) + 1) \in Entries
        BY <1>1, <2>1 DEF Change, Entries, DocOK, HistOK, Current
      <3> QED
        BY <2>1, <3>1 DEF ModuleSaves, Change
    <2>2. CASE ModuleCreates(d, p, x)
      <3>1. Change("changed", d, p, 1) \in Entries
        BY DEF Change, Entries
      <3> QED
        BY <2>2, <3>1 DEF ModuleCreates, Change
    <2> QED
      BY <2>1, <2>2
  <1>5. Past(e, hist', doc') /\ e \in Notices
    BY <1>4 DEF Past, Notices
  <1>6. Announced
    BY <1>4, <1>5 DEF Announced
  <1>7. Notified
    <2>1. feed'[Len(feed')] = e
      BY <1>1, <1>4 DEF FeedOK
    <2> QED
      BY <1>5, <2>1, NotifyPast DEF Echo, Notified
  <1> QED
    BY <1>2, <1>3, <1>6, <1>7

\* What the engine asked for was done.
LEMMA DonePast ==
    ASSUME ModuleOK, HistFits, Core, Done, Echo \/ notes' = <<>>
    PROVE HistOK' /\ Ages /\ Announced /\ Notified
  <1>1. op.id \in Docs /\ op.path \in Paths /\ op.body \in Contents
    BY OpIs DEF Done, Core, OpFits
  <1>2. CASE SaveReply(op.id, op.ver, op.body) = "saved" /\ ModuleSaves(op.id, op.body)
    <2>1. doc[op.id].life = "live"
      BY <1>1, <1>2, SaveReplyIs
    <2> QED
      BY <1>1, <1>2, <2>1, WritesPast
  <1>3. CASE /\ CreateReply(op.id, op.path, op.body) = "created"
             /\ ModuleCreates(op.id, op.path, op.body)
    <2>1. hist[op.id] = <<>>
      BY <1>3 DEF CreateReply
    <2> QED
      BY <1>1, <1>3, <2>1, WritesPast
  <1> QED
    BY <1>2, <1>3 DEF Done

\* Every step leaves the deletions that were announced past.
LEMMA StepPast ==
    ASSUME IInv, AllPast, DeleteCarriesVersion, [Next]_vars PROVE AllPast'
  <1>1. ModuleOK /\ HistFits /\ Core /\ HistOK /\ notes \in Seq(Notices)
    BY IInvIs DEF ModuleOK, HistOK
  <1>2. ASSUME UNCHANGED <<doc, hist, feed>>, Notified PROVE AllPast'
    BY <1>1, <1>2, StillAges, AllPastKept DEF Announced, HistOK
  <1>3. ASSUME Done, Echo \/ notes' = <<>> PROVE AllPast'
    BY <1>1, <1>3, DonePast, AllPastKept
  <1>4. CASE OpStep
    <2>1. CASE Update
      <3>1. op.k = "update"
        BY <2>1 DEF Update
      <3>2. SaveReply(op.id, op.ver, op.body) = "saved" => Done /\ Echo
        BY <2>1, <3>1 DEF Update, Done
      <3>3. SaveReply(op.id, op.ver, op.body) # "saved" => UNCHANGED <<moduleVars, notes>>
        BY <2>1 DEF Update
      <3> QED
        BY <1>2, <1>3, <3>2, <3>3 DEF moduleVars, Notified
    <2>2. CASE Create
      <3>1. op.k = "create"
        BY <2>2 DEF Create
      <3>2. CreateReply(op.id, op.path, op.body) = "created" => Done /\ Echo
        BY <2>2, <3>1 DEF Create, Done
      <3>3. CreateReply(op.id, op.path, op.body) # "created" => UNCHANGED <<moduleVars, notes>>
        BY <2>2 DEF Create
      <3> QED
        BY <1>2, <1>3, <3>2, <3>3 DEF moduleVars, Notified
    <2>3. CASE ~Update /\ ~Create
      <3>1. UNCHANGED <<moduleVars, notes>>
        BY <1>4, <2>3 DEF OpStep, Relist, MoveFile, MoveRecord, Get, Place, Write, Put, Remove, Forget,
                          ClearPending, Local
      <3> QED
        BY <1>2, <3>1 DEF moduleVars, Notified
    <2> QED
      BY <2>1, <2>2, <2>3
  <1>5. CASE AgendaStep
    <2>1. UNCHANGED <<moduleVars, notes>>
      BY <1>5 DEF AgendaStep, List, AllReconciled, AllMoved, StartScan, ScanDone, StampFull, ReadPage,
                  ApplyChange, PageDone, ReconcileDoc, NotListed, ScanFile, Agenda
    <2> QED
      BY <1>2, <2>1 DEF moduleVars, Notified
  <1>6. CASE LoopStep
    <2>1. UNCHANGED moduleVars /\ (notes' = notes \/ (notes # <<>> /\ notes' = Tail(notes)))
      BY <1>6 DEF LoopStep, StartSession, Online, HandleNote, Tick, Reconnected, FullCheck, Begin,
                  HandleDue
    <2> QED
      BY <1>2, <2>1 DEF moduleVars, Notified
  <1>7. CASE Misfortune
    <2>1. CASE ReplyLost \/ FailsAfterDoing
      BY <1>3, <2>1 DEF ReplyLost, FailsAfterDoing, EndSession
    <2>2. CASE Crash \/ Unreachable \/ RequestFails \/ ListingFails \/ Refused
      <3>1. UNCHANGED moduleVars /\ (notes' = notes \/ notes' = <<>>)
        BY <2>2 DEF Crash, Unreachable, RequestFails, ListingFails, Refused, EndSession
      <3> QED
        BY <1>2, <3>1 DEF moduleVars, Notified
    <2> QED
      BY <1>7, <2>1, <2>2 DEF Misfortune
  <1>8. CASE People
    <2>1. UNCHANGED <<doc, hist, feed, notes>>
      BY <1>8 DEF People, PersonSaves, PersonTakesCopy, PersonRemoves, PersonRemovesCopy, Person
    <2> QED
      BY <1>2, <2>1 DEF Notified
  <1>9. CASE OthersAct
    BY <1>1, <1>9, OthersPast DEF OthersAct
  <1>10. CASE UNCHANGED vars
    BY <1>2, <1>10 DEF vars, moduleVars, Notified
  <1> QED
    BY <1>4, <1>5, <1>6, <1>7, <1>8, <1>9, <1>10 DEF Next, Engine

\* A deletion takes nothing away from a document at its current version.
LEMMA DeletedCurrent ==
    ASSUME RecOK, HistOK, NEW e \in Notices, e.type = "deleted", Past(e, hist, doc),
           RemoteDeleted(e.id, e.ver), op'.k # "idle"
    PROVE ~(Readable(e.id) /\ rec[e.id].ver = Current(e.id))
  <1>1. e.id \in Docs /\ e.ver \in Nat
    BY DEF Notices, Entries
  <1>2. Known(e.id) /\ ~(e.ver > 0 /\ rec[e.id].ver > e.ver)
    <2>1. Ignore => op'.k = "idle"
      BY IdleIs DEF Ignore
    <2> QED
      BY <2>1 DEF RemoteDeleted
  <1>3. rec[e.id].ver \in Nat /\ Len(hist[e.id]) \in Nat
    BY <1>1, <1>2, KnownOK DEF HistOK
  <1> QED
    BY <1>1, <1>2, <1>3 DEF Past, Readable, Current

\* What a deletion begins is about its own document.
LEMMA DeletedIs ==
    ASSUME NEW d, NEW v, RemoteDeleted(d, v) PROVE op'.k = "idle" \/ op'.id = d
  <1>1. Ignore => op'.k = "idle"
    BY IdleIs DEF Ignore
  <1>2. MoveAside(d) => op'.id = d
    BY DEF MoveAside, Step
  <1>3. \A k : Step(k, d, rec[d].path, 0, Nothing).id = d
    BY DEF Step
  <1> QED
    BY <1>1, <1>2, <1>3 DEF RemoteDeleted

\* An announced version takes nothing away.
LEMMA ChangedTakesNothing ==
    ASSUME NEW d, NEW p, NEW v, RemoteChanged(d, p, v) PROVE op'.k \notin {"rm", "forget"}
  BY DEF RemoteChanged, Ignore, Fetch, Idle, Step

\* A changed file takes nothing away.
LEMMA LocalTakesNothing ==
    ASSUME NEW p, LocalChanged(p) PROVE op'.k \notin {"rm", "forget"}
  <1>1. Ignore => op'.k = "idle"
    BY IdleIs DEF Ignore
  <1>2. CreateLocal(p) => op'.k \in {"create", "idle"}
    BY IdleIs DEF CreateLocal, Step
  <1>3. \A d : Upload(d, p) => op'.k \in {"update", "idle"}
    BY IdleIs DEF Upload, Step
  <1> QED
    BY <1>1, <1>2, <1>3 DEF LocalChanged

\* A step from the feed or from a notification takes no document away that the
\* database holds at its current version.
LEMMA StepUndone ==
    ASSUME IInv, AllPast, Next, NEW d \in Docs, op.k = "idle",
           op'.k \in {"rm", "forget"}, op'.id = d, Doing("apply") \/ Selecting
    PROVE ~(Readable(d) /\ rec[d].ver = Current(d))
  <1>1. ModuleOK /\ RecOK /\ HistOK /\ WorkOK /\ page.end <= Len(feed)
    BY IInvIs DEF Core, Types, ModuleOK, HistOK
  <1>2. agenda = <<>> \/ (agenda # <<>> /\ Head(agenda) = "apply")
    BY DEF Doing, Selecting
  <1>3. ASSUME NEW e \in Notices, RemoteDeleted(e.id, e.ver), e.type = "deleted", Past(e, hist, doc)
        PROVE ~(Readable(d) /\ rec[d].ver = Current(d))
    BY <1>1, <1>3, DeletedCurrent, DeletedIs
  <1>4. CASE ApplyChange
    <2> DEFINE e == feed[page.at + 1]
    <2>1. page.at \in Nat /\ page.end \in Nat /\ page.at < page.end /\ feed \in Seq(Entries)
      BY <1>1, <1>4 DEF ApplyChange, WorkOK, PageOK, ModuleOK
    <2>2. page.at + 1 \in DOMAIN feed
      BY <1>1, <2>1
    <2>3. e \in Entries /\ e \in Notices /\ Past(e, hist, doc)
      BY <2>1, <2>2 DEF AllPast, PastAll, Notices
    <2>4. (e.type = "deleted" /\ RemoteDeleted(e.id, e.ver)) \/ RemoteChanged(e.id, e.path, e.ver)
      BY <1>4 DEF ApplyChange
    <2> HIDE DEF e
    <2> QED
      BY <1>3, <2>3, <2>4, ChangedTakesNothing
  <1>5. CASE HandleNote
    <2>1. notes \in Seq(Notices) /\ notes # <<>>
      BY <1>1, <1>5 DEF HandleNote, ModuleOK
    <2>2. PICK n \in Notices : n = Head(notes) /\ Past(n, hist, doc)
      BY <2>1 DEF AllPast, PastAll
    <2>3. \/ NoDecision \/ Ignore
          \/ n.type = "deleted" /\ RemoteDeleted(n.id, n.ver)
          \/ RemoteChanged(n.id, n.path, n.ver)
          \/ LocalChanged(rec[n.id].path)
      BY <1>5, <2>2 DEF HandleNote
    <2>4. ~NoDecision /\ ~Ignore
      BY DEF NoDecision, Ignore, Idle, Step
    <2> QED
      BY <1>3, <2>2, <2>3, <2>4, ChangedTakesNothing, LocalTakesNothing
  <1>6. CASE OpStep
    BY <1>6 DEF OpStep, Relist, MoveFile, MoveRecord, Following, Get, Place, Write, Put, Remove,
                Forget, Update, Create, ClearPending
  <1>7. CASE AgendaStep /\ ~ApplyChange
    <2>1. PageDone
      BY <1>2, <1>7 DEF AgendaStep, List, AllReconciled, AllMoved, StartScan, ScanDone, StampFull,
                        ReadPage, ReconcileDoc, NotListed, ScanFile, Doing
    <2> QED
      BY <2>1 DEF PageDone, NoDecision
  <1>8. CASE LoopStep /\ ~HandleNote
    <2>1. op' = op \/ \E p \in Paths : LocalChanged(p)
      BY <1>8 DEF LoopStep, StartSession, Online, Tick, Reconnected, FullCheck, Begin, HandleDue,
                  NoDecision
    <2> QED
      BY <2>1, LocalTakesNothing
  <1>9. CASE Misfortune \/ People \/ OthersAct
    <2>1. op' \in {op, Idle}
      BY <1>9 DEF Misfortune, Crash, Unreachable, ReplyLost, RequestFails, ListingFails, FailsAfterDoing,
                  Refused, EndSession, People, PersonSaves, PersonTakesCopy, PersonRemoves,
                  PersonRemovesCopy, Person, OthersAct
    <2> QED
      BY <2>1 DEF Idle, Step
  <1> QED
    BY <1>4, <1>5, <1>6, <1>7, <1>8, <1>9 DEF Next, Engine

\* A replayed deletion that a restore undid is ignored (engine.go:1088), as long as
\* an announced deletion says which version it deleted.
THEOREM UndoneStays == DeleteCarriesVersion => (Spec => DeletionsUndone)
  <1> SUFFICES ASSUME DeleteCarriesVersion PROVE Spec => DeletionsUndone
    OBVIOUS
  <1>1. Init => AllPast
    BY DEF Init, ModuleInit, AllPast, PastAll
  <1>2. IInv /\ AllPast /\ [Next]_vars => AllPast'
    BY StepPast
  <1>3. IInv /\ AllPast /\ [Next]_vars =>
          [\A d \in Docs :
              /\ op.k \notin {"get", "update"} /\ op'.k \in {"rm", "forget"} /\ op' # op /\ op'.id = d
              /\ Doing("apply") \/ Selecting
              => ~(Readable(d) /\ rec[d].ver = Current(d))]_vars
    <2> SUFFICES ASSUME IInv, AllPast, Next, NEW d \in Docs, op'.k \in {"rm", "forget"}, op'.id = d,
                        Doing("apply") \/ Selecting
                 PROVE ~(Readable(d) /\ rec[d].ver = Current(d))
      OBVIOUS
    <2>1. op.k = "idle"
      BY QuietIs DEF Doing, Selecting
    <2> QED
      BY <2>1, StepUndone
  <1> QED
    BY <1>1, <1>2, <1>3, Invariant, PTL DEF Spec, DeletionsUndone

-----------------------------------------------------------------------------
(* The feed is never read past a change that was not applied.              *)

Untouched(d) == doc'[d].life = doc[d].life /\ doc'[d].path = doc[d].path /\ hist'[d] = hist[d]

\* d was filed at p when it was announced, or before anything was.
Was(d, p) == \/ d \in Initial /\ p = Home[d]
             \/ \E i \in 1..Len(feed) : feed[i].id = d /\ feed[i].path = p

\* The last entry of d, i, is how d is now.
LastEntry(d, i) == feed[i].id = d /\ \A j \in (i + 1)..Len(feed) : feed[j].id # d
SaysCurrent(d, i) == feed[i].type = "changed" /\ feed[i].ver = Current(d)

\* Nothing is trimmed and nobody loses access; two live documents are never at
\* one path; where a document is, the feed says, and how it is, its last entry.
AllOpen == floor = 0 /\ \A d \in Docs : doc[d].readable
Apart == \A d, e \in Docs : d # e /\ doc[d].life = "live" /\ doc[e].life = "live"
                            => doc[d].path # doc[e].path
SaysWhere == \A d \in Docs : doc[d].life # "unborn" => Was(d, doc[d].path)
SaysHow == \A d \in Docs : \A i \in 1..Len(feed) :
              doc[d].life = "live" /\ LastEntry(d, i) => SaysCurrent(d, i)
FeedSays == AllOpen /\ Apart /\ SaysWhere /\ SaysHow

\* All that the feed says of d, which lives and was never moved, is said by its
\* n-th entry.
Behind(d, n) ==
    /\ doc[d].life = "live" /\ NeverMoved(d)
    /\ \E i \in 1..Len(feed) : feed[i].id = d
    /\ \A i \in 1..Len(feed) : feed[i].id = d => i <= n

Has(d) == Known(d) /\ rec[d].ver = Current(d)
Applying == agenda # <<>> /\ Head(agenda) = "apply"
Reached == IF Applying THEN page.at ELSE lastSeq   \* how far changes were looked at

Coming(d) == op.id = d /\ \/ op.k = "get"
                          \/ op.k \in {"got", "write", "put"} /\ op.ver = Current(d)

\* Nothing that was looked at is missing, but what is on its way.
Held == /\ \A d \in Docs : Behind(d, lastSeq) => Has(d)
        /\ \A d \in Docs : Behind(d, Reached) => Has(d) \/ Coming(d)

Placed == /\ \A d \in Docs : Known(d) => Was(d, rec[d].path)
          /\ \A d, e \in Docs : d # e /\ Known(d) /\ Known(e) => rec[d].path # rec[e].path

Takes == {"rm", "forget"}
Brings == {"got", "moved:got", "write", "put", "clear"}
Lands == Brings \cup {"relist", "moved:relist", "update"}

\* No operation harms a document that was looked at.
Harmless ==
    /\ op.k \in Takes => ~Behind(op.id, Reached)
    /\ op.k \in Brings => (Behind(op.id, Reached) => op.ver = Current(op.id))
    /\ op.k \in Lands => /\ Was(op.id, op.path)
                         /\ \A d \in Docs : d # op.id /\ Behind(d, Reached) /\ Known(d)
                                            => rec[d].path # op.path

\* The feed is read from where it was left, and read before it is applied.
ReadFirst(a) == \A i \in 2..Len(a) : /\ a[i] # "read"
                                     /\ a[i] = "apply" => i = 2 /\ a[1] = "read"
Cursor == /\ ReadFirst(agenda) /\ lastSeq <= Len(feed) /\ (session = "off" => agenda = <<>>)
          /\ agenda # <<>> /\ Head(agenda) \in {"read", "apply"} => page.pos = lastSeq
          /\ Applying => lastSeq <= page.at /\ page.at <= page.end

\* What a listing lacks was not looked at, and what it has is where it was.
Listing ==
    agenda # <<>> =>
        /\ Head(agenda) = "reconcile" =>
            \A d \in Docs :
                /\ listed[d] = None => ~Behind(d, lastSeq)
                /\ listed[d] # None => /\ Was(d, listed[d][1])
                                       /\ \A e \in Docs : e # d /\ Behind(e, lastSeq)
                                                          => doc[e].path # listed[d][1]
        /\ Head(agenda) = "missing" => \A d \in todo : ~Behind(d, lastSeq)

FeedInv == FeedSays /\ Held /\ Placed /\ Harmless /\ Cursor /\ Listing

\* What a step may do in the module: nothing, or something to one document, which
\* it announces.
Announces(e) ==
    /\ feed' = Append(feed, e) /\ e.path = doc'[e.id].path
    /\ \A d \in Docs \ {e.id} : Untouched(d)
    /\ doc'[e.id].life = "live" => e.type = "changed" /\ e.ver = Current(e.id)'
ModuleStep ==
    /\ AllOpen' /\ Apart'
    /\ \/ feed' = feed /\ \A d \in Docs : Untouched(d)
       \/ \E e \in Entries : Announces(e)

\* The feed with one more entry.
LEMMA OneMore ==
    ASSUME ModuleOK, NEW e \in Entries, feed' = Append(feed, e)
    PROVE /\ Len(feed) \in Nat /\ Len(feed') = Len(feed) + 1 /\ feed'[Len(feed')] = e
          /\ \A i \in 1..Len(feed) : i \in 1..Len(feed') /\ feed'[i] = feed[i] /\ feed[i] \in Entries
          /\ \A i \in 1..Len(feed') : i \in 1..Len(feed) \/ i = Len(feed')
  <1>1. feed \in Seq(Entries)
    BY DEF ModuleOK
  <1>2. Len(feed) \in Nat /\ Len(feed') = Len(feed) + 1 /\ feed'[Len(feed) + 1] = e
        /\ \A i \in 1..Len(feed) : feed'[i] = feed[i] /\ feed[i] \in Entries
    BY <1>1
  <1> QED
    BY <1>2

\* Where a document was stays where it was.
LEMMA WasStays ==
    ASSUME ModuleOK, ModuleStep, NEW d, NEW p, Was(d, p) PROVE Was(d, p)'
  <1>1. CASE feed' = feed
    BY <1>1 DEF Was
  <1>2. ASSUME NEW e \in Entries, feed' = Append(feed, e) PROVE Was(d, p)'
    BY <1>2, OneMore DEF Was
  <1> QED
    BY <1>1, <1>2 DEF ModuleStep, Announces

\* What is behind the n-th entry after a step was so before it, and is as it was.
LEMMA BehindBack ==
    ASSUME ModuleOK, ModuleStep, NEW d \in Docs, NEW n \in Nat, n <= Len(feed), Behind(d, n)'
    PROVE Behind(d, n) /\ Untouched(d)
  <1>1. CASE feed' = feed /\ Untouched(d)
    BY <1>1 DEF Behind, NeverMoved, Untouched
  <1>2. ASSUME NEW e \in Entries, Announces(e) PROVE Behind(d, n) /\ Untouched(d)
    <2>1. /\ Len(feed) \in Nat /\ Len(feed') = Len(feed) + 1 /\ feed'[Len(feed')] = e
          /\ \A i \in 1..Len(feed) : i \in 1..Len(feed') /\ feed'[i] = feed[i]
          /\ \A i \in 1..Len(feed') : i \in 1..Len(feed) \/ i = Len(feed')
      BY <1>2, OneMore DEF Announces
    <2>2. \A i \in 1..Len(feed') : feed'[i].id = d => i <= n
      BY DEF Behind
    <2>3. e.id # d
      BY <2>1, <2>2
    <2>4. Untouched(d)
      BY <1>2, <2>3 DEF Announces
    <2>5. doc[d].life = "live" /\ NeverMoved(d)
      BY <2>1, <2>4 DEF Behind, NeverMoved, Untouched
    <2>6. \E i \in 1..Len(feed) : feed[i].id = d
      BY <2>1, <2>3 DEF Behind
    <2>7. \A i \in 1..Len(feed) : feed[i].id = d => i <= n
      BY <2>1, <2>2
    <2> QED
      BY <2>4, <2>5, <2>6, <2>7 DEF Behind
  <1> QED
    BY <1>1, <1>2 DEF ModuleStep

\* The feed goes on saying where each document is, and how.
LEMMA FeedSaysOn ==
    ASSUME ModuleOK, FeedSays, ModuleStep PROVE FeedSays'
  <1>1. CASE feed' = feed /\ \A d \in Docs : Untouched(d)
    <2>1. SaysWhere'
      BY <1>1 DEF SaysWhere, FeedSays, Was, Untouched
    <2>2. SaysHow'
      BY <1>1 DEF SaysHow, FeedSays, LastEntry, SaysCurrent, Current, Untouched
    <2> QED
      BY <2>1, <2>2 DEF FeedSays, ModuleStep
  <1>2. ASSUME NEW e \in Entries, Announces(e) PROVE FeedSays'
    <2>1. /\ Len(feed) \in Nat /\ Len(feed') = Len(feed) + 1 /\ feed'[Len(feed')] = e
          /\ \A i \in 1..Len(feed) : i \in 1..Len(feed') /\ feed'[i] = feed[i]
          /\ \A i \in 1..Len(feed') : i \in 1..Len(feed) \/ i = Len(feed')
      BY <1>2, OneMore DEF Announces
    <2>2. SaysWhere'
      <3> SUFFICES ASSUME NEW d \in Docs, doc'[d].life # "unborn" PROVE Was(d, doc[d].path)'
        BY DEF SaysWhere
      <3>1. CASE d = e.id
        <4>1. Len(feed') \in 1..Len(feed')
          BY <2>1
        <4> QED
          BY <1>2, <2>1, <3>1, <4>1 DEF Announces, Was
      <3>2. CASE d # e.id
        <4>1. Untouched(d)
          BY <1>2, <3>2 DEF Announces
        <4>2. Was(d, doc[d].path)
          BY <4>1 DEF Untouched, FeedSays, SaysWhere
        <4> QED
          BY <4>1, <4>2, WasStays DEF Untouched, Was
      <3> QED
        BY <3>1, <3>2
    <2>3. SaysHow'
      <3> SUFFICES ASSUME NEW d \in Docs, NEW i \in 1..Len(feed'), doc'[d].life = "live",
                          LastEntry(d, i)'
                   PROVE SaysCurrent(d, i)'
        BY DEF SaysHow
      <3>1. feed'[i].id = d /\ \A j \in (i + 1)..Len(feed') : feed'[j].id # d
        BY DEF LastEntry
      <3>2. CASE i = Len(feed')
        BY <1>2, <2>1, <3>1, <3>2 DEF Announces, SaysCurrent
      <3>3. CASE i # Len(feed')
        <4>1. i \in 1..Len(feed) /\ Len(feed') \in (i + 1)..Len(feed')
          BY <2>1, <3>3
        <4>2. d # e.id
          BY <2>1, <3>1, <4>1
        <4>3. Untouched(d)
          BY <1>2, <4>2 DEF Announces
        <4>4. \A j \in (i + 1)..Len(feed) : j \in 1..Len(feed) /\ j \in (i + 1)..Len(feed')
          BY <2>1, <4>1
        <4>5. LastEntry(d, i)
          BY <2>1, <3>1, <4>1, <4>4 DEF LastEntry
        <4>6. SaysCurrent(d, i)
          BY <4>1, <4>3, <4>5 DEF Untouched, FeedSays, SaysHow
        <4> QED
          BY <2>1, <4>1, <4>3, <4>6 DEF SaysCurrent, Current, Untouched
      <3> QED
        BY <3>2, <3>3
    <2> QED
      BY <2>2, <2>3 DEF FeedSays, ModuleStep
  <1> QED
    BY <1>1, <1>2 DEF ModuleStep

\* What an entry about a document has to say of it.
LEMMA AnnouncesOne ==
    ASSUME NEW d \in Docs, NEW e \in Entries, e.id = d, feed' = Append(feed, e), e.path = doc'[d].path,
           \A c \in Docs \ {d} : Untouched(c),
           doc'[d].life = "live" => e.type = "changed" /\ e.ver = Current(d)',
           AllOpen', Apart'
    PROVE ModuleStep
  <1>1. Announces(e)
    BY DEF Announces
  <1> QED
    BY <1>1 DEF ModuleStep

\* One document changed, and it is filed where no other live one is.
LEMMA StillApart ==
    ASSUME Apart, NEW d \in Docs, \A c \in Docs \ {d} : Untouched(c),
           \/ doc'[d].life # "live"
           \/ doc[d].life = "live" /\ doc'[d].path = doc[d].path
           \/ ~Taken(doc'[d].path)
    PROVE Apart'
  <1> SUFFICES ASSUME NEW a \in Docs, NEW b \in Docs, a # b, doc'[a].life = "live",
                      doc'[b].life = "live"
               PROVE doc'[a].path # doc'[b].path
    BY DEF Apart
  <1>1. CASE a # d /\ b # d
    BY <1>1 DEF Apart, Untouched
  <1>2. ASSUME NEW c \in Docs, c # d, doc'[c].life = "live", doc'[d].life = "live"
        PROVE doc'[c].path # doc'[d].path
    <2>1. doc[c].life = "live" /\ doc'[c].path = doc[c].path
      BY <1>2 DEF Untouched
    <2> QED
      BY <1>2, <2>1 DEF Apart, Taken
  <1> QED
    BY <1>1, <1>2

\* What other people do, unless they trim the feed or change who may read.
LEMMA OthersStep ==
    ASSUME ModuleOK, HistFits, FeedSays, OtherPeople, OtherKinds \cap {"trim", "access"} = {}
    PROVE ModuleStep
  <1> USE DEF Other
  <1>1. DocOK /\ HistOK /\ FeedOK /\ AllOpen /\ Apart
    BY ModuleOKIs DEF FeedSays
  <1>2. ASSUME NEW d \in Docs, NEW p \in Paths, OtherCreates(d, p) PROVE ModuleStep
    <2> DEFINE e == Change("changed", d, p, 1)
    <2>1. e \in Entries /\ e.id = d /\ e.type = "changed" /\ e.path = p /\ e.ver = 1
      BY DEF Change, Entries
    <2>2. feed' = Append(feed, e)
      BY <1>2 DEF OtherCreates, Announce
    <2> HIDE DEF e
    <2>3. doc'[d].path = p /\ doc'[d].readable = doc[d].readable /\ hist'[d] = <<fresh>>
      BY <1>1, <1>2 DEF OtherCreates, DocOK, HistOK
    <2>4. \A c \in Docs \ {d} : Untouched(c) /\ doc'[c].readable = doc[c].readable
      BY <1>1, <1>2 DEF OtherCreates, DocOK, HistOK, Untouched
    <2>5. AllOpen'
      BY <1>1, <1>2, <2>3, <2>4 DEF AllOpen, OtherCreates
    <2>6. Apart'
      BY <1>1, <1>2, <2>3, <2>4, StillApart DEF OtherCreates
    <2>7. Current(d)' = 1
      BY <2>3 DEF Current
    <2> QED
      BY <2>1, <2>2, <2>3, <2>4, <2>5, <2>6, <2>7, AnnouncesOne
  <1>3. ASSUME NEW d \in Docs, OtherSaves(d) \/ OtherRestores(d) PROVE ModuleStep
    <2> DEFINE e == Change("changed", d, doc[d].path, Current(d) + 1)
    <2>1. hist[d] # <<>> /\ doc[d].path \in Paths
      BY <1>1, <1>3 DEF OtherSaves, OtherRestores, HistFits, DocOK
    <2>2. e \in Entries /\ e.id = d /\ e.type = "changed" /\ e.path = doc[d].path
          /\ e.ver = Current(d) + 1
      BY <1>1, <2>1, ContentOK DEF Change, Entries
    <2>3. feed' = Append(feed, e)
      BY <1>3 DEF OtherSaves, OtherRestores, Announce
    <2> HIDE DEF e
    <2>4. PICK x : hist' = [hist EXCEPT ![d] = Append(@, x)]
      BY <1>3 DEF OtherSaves, OtherRestores
    <2>5. hist'[d] = Append(hist[d], x) /\ \A c \in Docs \ {d} : hist'[c] = hist[c]
      BY <1>1, <2>4 DEF HistOK
    <2>6. \A c \in Docs : /\ doc'[c].path = doc[c].path /\ doc'[c].readable = doc[c].readable
                          /\ c # d => doc'[c].life = doc[c].life
      BY <1>1, <1>3 DEF OtherSaves, OtherRestores, DocOK
    <2>7. \A c \in Docs \ {d} : Untouched(c)
      BY <2>5, <2>6 DEF Untouched
    <2>8. AllOpen'
      BY <1>1, <1>3, <2>6 DEF AllOpen, OtherSaves, OtherRestores
    <2>9. Apart'
      <3>1. doc[d].life = "live" \/ ~Taken(doc'[d].path)
        BY <1>3, <2>6 DEF OtherSaves, OtherRestores
      <3> QED
        BY <1>1, <2>6, <2>7, <3>1, StillApart
    <2>10. Current(d)' = Current(d) + 1
      <3>1. hist[d] \in Seq(Contents)
        BY <1>1 DEF HistOK
      <3> QED
        BY <2>5, <3>1 DEF Current
    <2> QED
      BY <2>2, <2>3, <2>6, <2>7, <2>8, <2>9, <2>10, AnnouncesOne
  <1>4. ASSUME NEW d \in Docs, NEW p \in Paths, OtherMoves(d, p) PROVE ModuleStep
    <2> DEFINE e == Change("changed", d, p, Current(d))
    <2>1. hist[d] # <<>>
      BY <1>1, <1>4 DEF OtherMoves, HistFits, DocOK
    <2>2. e \in Entries /\ e.id = d /\ e.type = "changed" /\ e.path = p /\ e.ver = Current(d)
      BY <1>1, <2>1, ContentOK DEF Change, Entries
    <2>3. feed' = Append(feed, e)
      BY <1>4 DEF OtherMoves, Announce
    <2> HIDE DEF e
    <2>4. doc'[d].path = p /\ doc'[d].readable = doc[d].readable
      BY <1>1, <1>4 DEF OtherMoves, DocOK
    <2>5. \A c \in Docs \ {d} : Untouched(c) /\ doc'[c].readable = doc[c].readable
      BY <1>1, <1>4 DEF OtherMoves, DocOK, Untouched
    <2>6. AllOpen'
      BY <1>1, <1>4, <2>4, <2>5 DEF AllOpen, OtherMoves
    <2>7. Apart'
      BY <1>1, <1>4, <2>4, <2>5, StillApart DEF OtherMoves
    <2>8. Current(d)' = Current(d)
      BY <1>4 DEF OtherMoves, Current
    <2> QED
      BY <2>2, <2>3, <2>4, <2>5, <2>6, <2>7, <2>8, AnnouncesOne
  <1>5. ASSUME NEW d \in Docs, OtherDeletes(d) PROVE ModuleStep
    <2>1. hist[d] # <<>> /\ doc[d].path \in Paths
      BY <1>1, <1>5 DEF OtherDeletes, HistFits, DocOK
    <2>2. PICK e : e = Change("deleted", d, doc[d].path, IF DeleteCarriesVersion THEN Current(d) ELSE 0)
                   /\ feed' = Append(feed, e)
      BY <1>5 DEF OtherDeletes
    <2>3. e \in Entries /\ e.id = d /\ e.path = doc[d].path
      BY <1>1, <2>1, <2>2, ContentOK DEF Change, Entries
    <2>4. doc'[d].life = "deleted" /\ doc'[d].path = doc[d].path /\ doc'[d].readable = doc[d].readable
      BY <1>1, <1>5 DEF OtherDeletes, DocOK
    <2>5. \A c \in Docs \ {d} : Untouched(c) /\ doc'[c].readable = doc[c].readable
      BY <1>1, <1>5 DEF OtherDeletes, DocOK, Untouched
    <2>6. AllOpen'
      BY <1>1, <1>5, <2>4, <2>5 DEF AllOpen, OtherDeletes
    <2>7. Apart'
      BY <1>1, <2>4, <2>5, StillApart
    <2> QED
      BY <2>2, <2>3, <2>4, <2>5, <2>6, <2>7, AnnouncesOne
  <1>6. ASSUME NEW d \in Docs, OtherLocks(d) \/ LockEnds(d) PROVE ModuleStep
    <2>1. UNCHANGED <<hist, feed, floor>> /\ \E b : doc' = [doc EXCEPT ![d].locked = b]
      BY <1>6 DEF OtherLocks, LockEnds
    <2>2. \A c \in Docs : Untouched(c) /\ doc'[c].readable = doc[c].readable
      BY <1>1, <2>1 DEF DocOK, Untouched
    <2> QED
      BY <1>1, <2>1, <2>2 DEF ModuleStep, AllOpen, Apart, Untouched
  <1>7. ~TrimFeed /\ \A d \in Docs : ~OtherChangesAccess(d)
    BY DEF TrimFeed, OtherChangesAccess
  <1> QED
    BY <1>2, <1>3, <1>4, <1>5, <1>6, <1>7 DEF OtherPeople

\* A new entry about a document is behind none of those before it.
LEMMA NewIsNotBehind ==
    ASSUME ModuleOK, NEW d, NEW e \in Entries, e.id = d, feed' = Append(feed, e),
           NEW n \in Nat, n <= Len(feed)
    PROVE ~Behind(d, n)'
  <1>1. Len(feed) \in Nat /\ Len(feed') = Len(feed) + 1 /\ feed'[Len(feed')] = e
    BY OneMore
  <1>2. Len(feed') \in 1..Len(feed')
    BY <1>1
  <1> QED
    BY <1>1, <1>2 DEF Behind

\* What the engine asked for was done: the feed will say so.
LEMMA DoneStep ==
    ASSUME ModuleOK, HistFits, Core, FeedSays, Done, NEW d, d = op.id
    PROVE /\ ModuleStep /\ d \in Docs /\ op.path \in Paths
          /\ \A n \in Nat : n <= Len(feed) => ~Behind(d, n)'
          /\ doc'[d].life = "live"
          /\ op.k = "create" => doc'[d].path = op.path
  <1>1. DocOK /\ HistOK /\ FeedOK /\ AllOpen /\ Apart
    BY ModuleOKIs DEF FeedSays
  <1>2. d \in Docs /\ op.path \in Paths /\ op.body \in Contents
    BY OpIs DEF Done, Core, OpFits
  <1>3. CASE /\ op.k = "update" /\ SaveReply(d, op.ver, op.body) = "saved"
             /\ ModuleSaves(d, op.body)
    <2>1. doc[d].life = "live" /\ hist[d] # <<>> /\ doc[d].path \in Paths
      BY <1>1, <1>2, <1>3, SaveReplyIs DEF HistFits, DocOK
    <2>2. PICK e : e = Change("changed", d, doc[d].path, Current(d) + 1) /\ feed' = Append(feed, e)
      BY <1>3 DEF ModuleSaves
    <2>3. e \in Entries /\ e.id = d /\ e.type = "changed" /\ e.path = doc[d].path
          /\ e.ver = Current(d) + 1
      BY <1>1, <1>2, <2>1, <2>2, ContentOK DEF Change, Entries
    <2>4. hist' = [hist EXCEPT ![d] = Append(@, op.body)] /\ doc' = doc /\ floor' = floor
      BY <1>3 DEF ModuleSaves
    <2>5. \A c \in Docs \ {d} : Untouched(c)
      BY <1>1, <2>4 DEF Untouched, HistOK
    <2>6. Current(d)' = Current(d) + 1
      <3>1. hist[d] \in Seq(Contents) /\ hist'[d] = Append(hist[d], op.body)
        BY <1>1, <1>2, <2>4 DEF HistOK
      <3> QED
        BY <3>1 DEF Current
    <2>7. AllOpen' /\ Apart'
      BY <1>1, <2>4 DEF AllOpen, Apart
    <2>8. ModuleStep
      BY <1>2, <2>2, <2>3, <2>4, <2>5, <2>6, <2>7, AnnouncesOne
    <2>9. \A n \in Nat : n <= Len(feed) => ~Behind(d, n)'
      BY <2>2, <2>3, NewIsNotBehind
    <2> QED
      BY <1>2, <1>3, <2>1, <2>4, <2>8, <2>9
  <1>4. CASE /\ op.k = "create" /\ CreateReply(d, op.path, op.body) = "created"
             /\ ModuleCreates(d, op.path, op.body)
    <2>1. ~Taken(op.path)
      BY <1>4 DEF CreateReply
    <2>2. PICK e : e = Change("changed", d, op.path, 1) /\ feed' = Append(feed, e)
      BY <1>4 DEF ModuleCreates
    <2>3. e \in Entries /\ e.id = d /\ e.type = "changed" /\ e.path = op.path /\ e.ver = 1
      BY <1>2, <2>2 DEF Change, Entries
    <2>4. hist' = [hist EXCEPT ![d] = <<op.body>>] /\ floor' = floor
          /\ doc' = [doc EXCEPT ![d].life = "live", ![d].path = op.path]
      BY <1>4 DEF ModuleCreates
    <2>5. \A c \in Docs \ {d} : Untouched(c) /\ doc'[c].readable = doc[c].readable
      BY <1>1, <2>4 DEF Untouched, HistOK, DocOK
    <2>6. /\ doc'[d].life = "live" /\ doc'[d].path = op.path /\ doc'[d].readable = doc[d].readable
          /\ Current(d)' = 1
      BY <1>1, <1>2, <2>4 DEF DocOK, HistOK, Current
    <2>7. AllOpen' /\ Apart'
      <3>1. Apart'
        BY <1>1, <1>2, <2>1, <2>5, <2>6, StillApart
      <3> QED
        BY <1>1, <2>4, <2>5, <2>6, <3>1 DEF AllOpen
    <2>8. ModuleStep
      BY <1>2, <2>2, <2>3, <2>5, <2>6, <2>7, AnnouncesOne
    <2>9. \A n \in Nat : n <= Len(feed) => ~Behind(d, n)'
      BY <2>2, <2>3, NewIsNotBehind
    <2> QED
      BY <1>2, <2>6, <2>8, <2>9
  <1> QED
    BY <1>3, <1>4 DEF Done

\* A step that leaves the module alone leaves alone what is said of it.
LEMMA SameModule ==
    ASSUME UNCHANGED <<doc, hist, feed>>
    PROVE /\ \A d, n : Behind(d, n)' <=> Behind(d, n)
          /\ \A d, p : Was(d, p)' <=> Was(d, p)
          /\ \A d : Current(d)' = Current(d)
  BY DEF Behind, NeverMoved, Was, Current

LEMMA SameModuleStep ==
    ASSUME FeedSays, UNCHANGED <<doc, hist, feed, floor>> PROVE ModuleStep
  BY DEF FeedSays, AllOpen, Apart, ModuleStep, Untouched

\* What was looked at is in the feed, and lastSeq is not past it.
LEMMA ReachedIs ==
    ASSUME IInv, Cursor
    PROVE /\ lastSeq \in Nat /\ Reached \in Nat /\ Len(feed) \in Nat
          /\ lastSeq <= Reached /\ Reached <= Len(feed)
  <1>1. /\ lastSeq \in Nat /\ page.at \in Nat /\ page.end \in Nat /\ page.end <= Len(feed)
        /\ feed \in Seq(Entries)
    BY IInvIs DEF CursorsOK, WorkOK, PageOK, ModuleOK
  <1>2. Len(feed) \in Nat
    BY <1>1
  <1>3. CASE Applying
    BY <1>1, <1>2, <1>3 DEF Cursor, Reached
  <1>4. CASE ~Applying
    BY <1>1, <1>2, <1>4 DEF Cursor, Reached
  <1> QED
    BY <1>3, <1>4

\* What is behind an entry is behind every later one.
LEMMA BehindGrows ==
    ASSUME FeedOK, NEW d, NEW m \in Nat, NEW n \in Nat, m <= n, Behind(d, m) PROVE Behind(d, n)
  <1>1. \A i \in 1..Len(feed) : i \in Nat
    OBVIOUS
  <1> QED
    BY <1>1 DEF Behind

\* A document that was never moved is where it always was.
LEMMA OnePlace ==
    ASSUME NEW d, NEW p, NEW n, Behind(d, n), Was(d, p) PROVE p = doc[d].path
  BY DEF Behind, NeverMoved, Was

\* The records stay, each with its path and its version.
RecordsStay == \A d \in Docs : /\ Known(d)' <=> Known(d)
                               /\ Known(d) => rec'[d].path = rec[d].path /\ rec'[d].ver = rec[d].ver

LEMMA SameRecords == ASSUME rec' = rec PROVE RecordsStay
  BY DEF RecordsStay, Known

\* What is on its way and not held stays on its way.
StillComing == \A d \in Docs : Behind(d, Reached) /\ Untouched(d) /\ Coming(d) => Has(d) \/ Coming(d)'

LEMMA SameComing == ASSUME op' = op PROVE StillComing
  BY DEF StillComing, Coming, Untouched, Current

\* What a step of the module leaves behind what was looked at.
LEMMA BackTo ==
    ASSUME IInv, FeedInv, ModuleStep, NEW d \in Docs
    PROVE /\ Behind(d, lastSeq)' /\ lastSeq' = lastSeq => Behind(d, lastSeq) /\ Untouched(d)
          /\ Behind(d, Reached)' /\ Reached' = Reached => Behind(d, Reached) /\ Untouched(d)
  <1>1. ModuleOK /\ Cursor
    BY IInvIs DEF FeedInv
  <1>2. lastSeq \in Nat /\ Reached \in Nat /\ lastSeq <= Len(feed) /\ Reached <= Len(feed)
    BY <1>1, ReachedIs DEF Cursor
  <1>3. \A n \in Nat : n <= Len(feed) /\ Behind(d, n)' => Behind(d, n) /\ Untouched(d)
    BY <1>1, BehindBack
  <1> QED
    BY <1>2, <1>3

\* Records stay where their documents were, and what was looked at is held.
LEMMA Kept ==
    ASSUME IInv, FeedInv, ModuleStep, RecordsStay, lastSeq' = lastSeq, Reached' = Reached,
           StillComing, Harmless', Cursor', Listing'
    PROVE FeedInv'
  <1>1. ModuleOK /\ FeedSays /\ Held /\ Placed
    BY IInvIs DEF FeedInv
  <1>2. \A d \in Docs : Untouched(d) /\ Has(d) => Has(d)'
    BY DEF Has, Untouched, Current, RecordsStay
  <1>3. Held'
    <2>1. \A d \in Docs : Behind(d, lastSeq)' => Has(d)'
      BY <1>1, <1>2, BackTo DEF Held
    <2>2. ASSUME NEW d \in Docs, Behind(d, Reached)' PROVE Has(d)' \/ Coming(d)'
      <3>1. Behind(d, Reached) /\ Untouched(d)
        BY <2>2, BackTo
      <3> QED
        BY <1>1, <1>2, <3>1 DEF Held, StillComing
    <2> QED
      BY <2>1, <2>2 DEF Held
  <1>4. Placed'
    BY <1>1, WasStays DEF Placed, RecordsStay
  <1>5. FeedSays'
    BY <1>1, FeedSaysOn
  <1> QED
    BY <1>3, <1>4, <1>5 DEF FeedInv

\* An operation that goes on does no harm after a step of the module.
LEMMA HarmlessStays ==
    ASSUME IInv, FeedInv, ModuleStep, RecordsStay, Reached' = Reached, op' = op
    PROVE Harmless'
  <1>1. ModuleOK /\ OpFits /\ Harmless
    BY IInvIs DEF FeedInv, Core
  <1>2. op.k \in Takes \cup Lands => op.id \in Docs
    BY <1>1 DEF OpFits, Takes, Lands, Brings
  <1>3. \A d \in Docs : Behind(d, Reached)' => Behind(d, Reached) /\ Current(d)' = Current(d)
    BY BackTo DEF Untouched, Current
  <1>4. op.k \in Takes => ~Behind(op.id, Reached)'
    BY <1>1, <1>2, <1>3 DEF Harmless
  <1>5. op.k \in Brings /\ Behind(op.id, Reached)' => op.ver = Current(op.id)'
    BY <1>1, <1>2, <1>3 DEF Harmless, Lands
  <1>6. op.k \in Lands => Was(op.id, op.path)'
    BY <1>1, WasStays DEF Harmless
  <1>7. ASSUME op.k \in Lands, NEW d \in Docs, d # op.id, Behind(d, Reached)', Known(d)'
        PROVE rec'[d].path # op.path
    BY <1>1, <1>3, <1>7 DEF Harmless, RecordsStay
  <1> QED
    BY <1>4, <1>5, <1>6, <1>7 DEF Harmless

\* The loop stands still.
LEMMA LoopStays ==
    ASSUME IInv, FeedInv, ModuleStep, UNCHANGED <<session, agenda, todo, listed, page, lastSeq>>
    PROVE Cursor' /\ Listing' /\ Reached' = Reached
  <1>1. ModuleOK /\ TodoFits /\ Cursor /\ Listing
    BY IInvIs DEF FeedInv
  <1>2. Len(feed) \in Nat /\ lastSeq \in Nat /\ lastSeq <= Len(feed)
    BY <1>1, ReachedIs DEF Cursor
  <1>3. Cursor'
    <2>1. Len(feed) <= Len(feed') /\ Len(feed') \in Nat
      BY <1>1, <1>2, OneMore DEF ModuleStep, Announces
    <2>2. lastSeq <= Len(feed')
      BY <1>2, <2>1
    <2> QED
      BY <1>1, <2>2 DEF Cursor, Applying
  <1>4. \A d \in Docs : Behind(d, lastSeq)' => Behind(d, lastSeq) /\ doc'[d].path = doc[d].path
    BY BackTo DEF Untouched
  <1>5. ASSUME agenda # <<>>, Head(agenda) = "reconcile", NEW d \in Docs
        PROVE /\ listed[d] = None => ~Behind(d, lastSeq)'
              /\ listed[d] # None => /\ Was(d, listed[d][1])'
                                     /\ \A e \in Docs : e # d /\ Behind(e, lastSeq)'
                                                        => doc'[e].path # listed[d][1]
    <2>1. listed[d] = None => ~Behind(d, lastSeq)'
      BY <1>1, <1>4, <1>5 DEF Listing
    <2>2. listed[d] # None => Was(d, listed[d][1])'
      BY <1>1, <1>5, WasStays DEF Listing
    <2>3. ASSUME listed[d] # None, NEW e \in Docs, e # d, Behind(e, lastSeq)'
          PROVE doc'[e].path # listed[d][1]
      BY <1>1, <1>4, <1>5, <2>3 DEF Listing
    <2> QED
      BY <2>1, <2>2, <2>3
  <1>6. ASSUME agenda # <<>>, Head(agenda) = "missing", NEW d \in todo PROVE ~Behind(d, lastSeq)'
    BY <1>1, <1>4, <1>6 DEF Listing, TodoFits
  <1>7. Listing'
    BY <1>5, <1>6 DEF Listing
  <1> QED
    BY <1>3, <1>7 DEF Reached, Applying

\* Whatever happens in the module while the engine stands still.
LEMMA KeptByModule ==
    ASSUME IInv, FeedInv, ModuleStep,
           UNCHANGED <<rec, op, session, agenda, todo, listed, page, lastSeq>>
    PROVE FeedInv'
  BY Kept, LoopStays, HarmlessStays, SameRecords, SameComing

\* The session ends: what the database holds was looked at stays so.
LEMMA EndKept ==
    ASSUME IInv, FeedInv, ModuleStep, EndSession, UNCHANGED <<rec, lastSeq>>
    PROVE FeedInv'
  <1>1. ModuleOK /\ RecOK /\ FeedSays /\ Held /\ Placed /\ Cursor
    BY IInvIs DEF FeedInv, Core, Types
  <1>2. lastSeq \in Nat /\ Len(feed) \in Nat /\ lastSeq <= Len(feed)
    BY <1>1, ReachedIs DEF Cursor
  <1>3. \A d \in Docs, n \in Nat : n <= Len(feed) /\ Behind(d, n)' => Behind(d, n) /\ Untouched(d)
    BY <1>1, BehindBack
  <1>4. /\ Reached' = lastSeq /\ lastSeq' = lastSeq /\ rec' = rec /\ op'.k = "idle"
        /\ agenda' = <<>>
    BY IdleIs DEF EndSession, Reached, Applying
  <1>5. \A d : Known(d)' <=> Known(d)
    BY <1>4 DEF Known
  <1>6. FeedSays'
    BY <1>1, FeedSaysOn
  <1>7. Held'
    <2>1. ASSUME NEW d \in Docs, Behind(d, lastSeq)' PROVE Has(d)'
      <3>1. Behind(d, lastSeq) /\ Untouched(d)
        BY <1>2, <1>3, <1>4, <2>1
      <3> QED
        BY <1>1, <1>4, <1>5, <3>1 DEF Held, Has, Untouched, Current
    <2> QED
      BY <1>4, <2>1 DEF Held
  <1>8. Placed'
    BY <1>1, <1>4, <1>5, WasStays DEF Placed
  <1>9. Harmless'
    BY <1>4 DEF Harmless, Takes, Brings, Lands
  <1>10. Cursor'
    <2>1. Len(feed) <= Len(feed') /\ Len(feed') \in Nat
      BY <1>1, <1>2, OneMore DEF ModuleStep, Announces
    <2>2. lastSeq <= Len(feed')
      BY <1>2, <2>1
    <2>3. ReadFirst(<<>>)
      BY DEF ReadFirst
    <2> QED
      BY <1>4, <2>2, <2>3 DEF Cursor, Applying
  <1>11. Listing'
    BY <1>4 DEF Listing
  <1> QED
    BY <1>6, <1>7, <1>8, <1>9, <1>10, <1>11 DEF FeedInv

-----------------------------------------------------------------------------
(* ... and no step of the engine loses it.                                 *)

\* A step of an operation that leaves the loop and the module alone.
LEMMA OpKept ==
    ASSUME IInv, FeedInv, UNCHANGED <<moduleVars, session, loopVars, lastSeq>>, RecordsStay,
           StillComing, Harmless'
    PROVE FeedInv'
  <1>1. ModuleStep
    BY SameModuleStep DEF FeedInv, moduleVars
  <1>2. Cursor' /\ Listing' /\ Reached' = Reached /\ lastSeq' = lastSeq
    BY <1>1, LoopStays DEF loopVars
  <1> QED
    BY <1>1, <1>2, Kept

\* The operation goes on to a step of the same kind, for the same document.
SameWork ==
    /\ op'.id = op.id /\ op'.path = op.path /\ op'.ver = op.ver
    /\ op'.k \in Takes => op.k \in Takes
    /\ op'.k \in Brings => op.k \in Brings
    /\ op'.k \in Lands => op.k \in Lands

LEMMA SameWorkHarmless ==
    ASSUME FeedInv, SameWork, UNCHANGED <<doc, hist, feed>>, RecordsStay, Reached' = Reached
    PROVE Harmless'
  <1>1. Harmless
    BY DEF FeedInv
  <1>2. /\ \A d, n : Behind(d, n)' <=> Behind(d, n)
        /\ \A d, p : Was(d, p)' <=> Was(d, p)
        /\ \A d : Current(d)' = Current(d)
    BY SameModule
  <1> QED
    BY <1>1, <1>2 DEF Harmless, SameWork, RecordsStay

\* An operation that neither takes, brings nor lands anything harms nothing.
LEMMA NoHarm == ASSUME op'.k \in {"idle", "get", "create"} PROVE Harmless'
  BY DEF Harmless, Takes, Brings, Lands

\* Taking away a document that was not looked at harms nothing.
LEMMA TakesHarmless ==
    ASSUME UNCHANGED <<doc, hist, feed>>, Reached' = Reached, op'.k \in Takes,
           NEW d, op'.id = d, ~Behind(d, Reached)
    PROVE Harmless'
  <1>1. ~Behind(d, Reached)'
    BY SameModule
  <1> QED
    BY <1>1 DEF Harmless, Takes, Brings, Lands

\* An operation whose document is not on its way.
LEMMA NotComing ==
    ASSUME op.k \notin {"get", "got", "write", "put"} PROVE StillComing /\ \A d : ~Coming(d)
  BY DEF StillComing, Coming

\* What aside does: the document is forgotten next.
LEMMA AsideTakes ==
    ASSUME NEW d, MoveAside(d) PROVE op'.k \in Takes /\ op'.id = d /\ rec' = rec
  BY DEF MoveAside, Step, Takes

\* What a deletion does.
LEMMA DeletedTakes ==
    ASSUME NEW d, NEW v, RemoteDeleted(d, v)
    PROVE rec' = rec /\ (op'.k = "idle" \/ (op'.k \in Takes /\ op'.id = d))
  <1>1. CASE Ignore
    BY <1>1, IdleIs DEF Ignore
  <1>2. CASE MoveAside(d)
    BY <1>2, AsideTakes
  <1>3. \A k : Step(k, d, rec[d].path, 0, Nothing).id = d /\ Step(k, d, rec[d].path, 0, Nothing).k = k
    BY DEF Step
  <1> QED
    BY <1>1, <1>2, <1>3 DEF RemoteDeleted, Takes

\* A document of the listing that is looked at.
LEMMA RelistKept == ASSUME IInv, FeedInv, Relist PROVE FeedInv'
  <1>1. UNCHANGED <<moduleVars, session, loopVars, lastSeq>> /\ op.k = "relist"
    BY DEF Relist, Local, InOp
  <1>2. rec' = rec /\ op'.k \in {"idle", "get"}
    BY IdleIs DEF Relist, Fetch, Ignore, Step
  <1> QED
    BY <1>1, <1>2, OpKept, NoHarm, NotComing, SameRecords

\* A file that follows its document.
LEMMA MoveFileKept == ASSUME IInv, FeedInv, MoveFile PROVE FeedInv'
  <1>1. UNCHANGED <<moduleVars, session, loopVars, lastSeq>> /\ rec' = rec /\ Following(op.id)
    BY DEF MoveFile, Following, Local, InOp
  <1>2. Reached' = Reached
    BY <1>1 DEF Reached, Applying, loopVars
  <1>3. ~Behind(op.id, Reached)
    <2>1. op.id \in Docs /\ op.k \in Lands
      BY <1>1, IInvIs DEF Core, OpFits, Following, Lands, Brings
    <2>2. Known(op.id) /\ rec[op.id].path # op.path
      BY <1>1 DEF Following
    <2> QED
      BY <2>1, <2>2, OnePlace DEF FeedInv, Placed, Harmless
  <1>4. StillComing
    BY <1>3 DEF StillComing, Coming
  <1>5. Harmless'
    <2>1. CASE op' = Idle
      BY <2>1, IdleIs, NoHarm
    <2>2. CASE op' = [op EXCEPT !.k = IF op.k = "relist" THEN "moved:relist" ELSE "moved:got"]
      <3>1. op \in Steps /\ op.k \in {"relist", "got"}
        BY <1>1, IInvIs DEF Core, Types, Following
      <3>2. SameWork
        BY <2>2, <3>1 DEF SameWork, Steps, Takes, Brings, Lands
      <3> QED
        BY <1>1, <1>2, <3>2, SameWorkHarmless, SameRecords DEF moduleVars
    <2> QED
      BY <2>1, <2>2 DEF MoveFile
  <1> QED
    BY <1>1, <1>4, <1>5, OpKept, SameRecords

\* The steps that go on with the document at hand, and its record as it is.
LEMMA GoesOnKept ==
    ASSUME IInv, FeedInv, Place \/ Write \/ Remove \/ ClearPending PROVE FeedInv'
  <1>1. UNCHANGED <<moduleVars, session, loopVars, lastSeq>> /\ rec' = rec
    BY DEF Place, Write, Remove, ClearPending, Local, InOp
  <1>2. Reached' = Reached
    BY <1>1 DEF Reached, Applying, loopVars
  <1>3. op \in Steps
    BY IInvIs DEF Core, Types
  <1>4. SameWork /\ StillComing
    <2>1. ASSUME NEW k, NEW c, NEW p,
                 op' = [op EXCEPT !.k = k] \/ op' = [op EXCEPT !.k = k, !.conf = c],
                 \/ op.k \in {"got", "write"} /\ k \in {"write", "put"}
                 \/ op.k = "clear" /\ k = "put"
                 \/ op.k = "rm" /\ k = "forget"
          PROVE SameWork /\ StillComing
      <3>1. op'.id = op.id /\ op'.path = op.path /\ op'.ver = op.ver /\ op'.k = k
        BY <1>3, <2>1 DEF Steps
      <3>2. SameWork
        BY <2>1, <3>1 DEF SameWork, Takes, Brings, Lands
      <3>3. StillComing
        BY <2>1, <3>1, SameModule, <1>1 DEF StillComing, Coming, moduleVars
      <3> QED
        BY <3>2, <3>3
    <2> QED
      BY <2>1 DEF Place, Write, Remove, ClearPending
  <1> QED
    BY <1>1, <1>2, <1>4, OpKept, SameWorkHarmless, SameRecords DEF moduleVars

\* A record that is stored pushes out none that was looked at.
LEMMA PutKept ==
    ASSUME IInv, FeedInv, UNCHANGED <<moduleVars, session, loopVars, lastSeq>>,
           NEW d \in Docs, d = op.id, NEW r \in Records, PutDoc(d, r), r.path = op.path,
           op.k \in Lands, Behind(d, Reached) => r.ver = Current(d),
           op'.k = "idle" \/ SameWork
    PROVE FeedInv'
  <1>1. RecOK /\ FeedOK /\ FeedSays /\ Held /\ Placed /\ Harmless /\ Cursor
    BY IInvIs, ModuleOKIs DEF FeedInv, Core, Types
  <1>2. ModuleStep
    BY <1>1, SameModuleStep DEF moduleVars
  <1>3. Cursor' /\ Listing' /\ Reached' = Reached /\ lastSeq' = lastSeq
    BY <1>2, LoopStays DEF loopVars
  <1>4. /\ \A e, n : Behind(e, n)' <=> Behind(e, n)
        /\ \A e, p : Was(e, p)' <=> Was(e, p)
        /\ \A e : Current(e)' = Current(e)
    BY SameModule DEF moduleVars
  <1>5. rec'[d] = r /\ Known(d)'
        /\ \A e \in Docs \ {d} : rec'[e] = IF e \in RecordsAt(r.path) THEN None ELSE rec[e]
    BY <1>1, PutDocOK DEF PutDoc
  <1>6. \A e \in Docs \ {d} : Known(e)' => Known(e) /\ rec'[e] = rec[e] /\ rec[e].path # op.path
    BY <1>5 DEF Known, RecordsAt
  <1>7. ASSUME NEW e \in Docs, Behind(e, Reached) PROVE Has(e)'
    <2>1. CASE e = d
      BY <1>4, <1>5, <1>7, <2>1 DEF Has
    <2>2. CASE e # d
      <3>1. Has(e)
        BY <1>1, <1>7, <2>2 DEF Held, Coming
      <3>2. rec[e].path # op.path
        BY <1>1, <1>7, <2>2, <3>1 DEF Harmless, Has
      <3>3. rec'[e] = rec[e]
        BY <1>5, <2>2, <3>2 DEF RecordsAt
      <3> QED
        BY <1>4, <3>1, <3>3 DEF Has, Known
    <2> QED
      BY <2>1, <2>2
  <1>8. Held'
    <2>1. \A e \in Docs : Behind(e, lastSeq) => Behind(e, Reached)
      BY <1>1, ReachedIs, BehindGrows
    <2> QED
      BY <1>3, <1>4, <1>7, <2>1 DEF Held
  <1>9. Placed'
    BY <1>1, <1>4, <1>5, <1>6 DEF Placed, Harmless
  <1>10. Harmless'
    <2>1. CASE op'.k = "idle"
      BY <2>1, NoHarm
    <2>2. CASE SameWork
      BY <1>1, <1>3, <1>4, <1>6, <2>2 DEF Harmless, SameWork
    <2> QED
      BY <2>1, <2>2
  <1>11. FeedSays'
    BY <1>1, <1>2, FeedSaysOn, IInvIs
  <1> QED
    BY <1>3, <1>8, <1>9, <1>10, <1>11 DEF FeedInv

\* The record follows the file.
LEMMA MoveRecordKept == ASSUME IInv, FeedInv, MoveRecord PROVE FeedInv'
  <1>1. UNCHANGED <<moduleVars, session, loopVars, lastSeq>> /\ op.k \in {"moved:relist", "moved:got"}
    BY DEF MoveRecord, Local, InOp
  <1>2. /\ RecOK /\ op \in Steps /\ Known(op.id) /\ op.id \in Docs /\ op.path \in Paths
        /\ Held /\ Harmless
    BY <1>1, IInvIs DEF FeedInv, Core, Types, OpFits
  <1>3. PICK d \in Docs : d = op.id
    BY <1>2
  <1>4. PICK r : r = [rec[d] EXCEPT !.path = op.path]
    OBVIOUS
  <1>5. r \in Records /\ r.path = op.path /\ r.ver = rec[d].ver
    BY <1>2, <1>3, <1>4, KnownOK DEF Records
  <1>6. PutDoc(d, r)
    BY <1>3, <1>4 DEF MoveRecord
  <1>7. Behind(d, Reached) => r.ver = Current(d)
    BY <1>1, <1>2, <1>5, NotComing DEF Held, Has
  <1>8. SameWork
    <2>1. op' = [op EXCEPT !.k = IF op.k = "moved:relist" THEN "relist" ELSE "got"]
      BY DEF MoveRecord
    <2> QED
      BY <1>1, <1>2, <2>1 DEF SameWork, Steps, Takes, Brings, Lands
  <1>9. op.k \in Lands
    BY <1>1 DEF Lands, Brings
  <1> QED
    BY <1>1, <1>3, <1>5, <1>6, <1>7, <1>8, <1>9, PutKept

\* The record of what was fetched or sent.
LEMMA PutStepKept == ASSUME IInv, FeedInv, Put PROVE FeedInv'
  <1>1. UNCHANGED <<moduleVars, session, loopVars, lastSeq>> /\ op.k = "put" /\ op'.k = "idle"
    BY IdleIs DEF Put, Local, InOp
  <1>2. op \in Steps /\ op.id \in Docs /\ op.path \in Paths /\ op.body \in Contents /\ Harmless
    BY <1>1, IInvIs DEF FeedInv, Core, Types, OpFits
  <1>3. PICK d \in Docs : d = op.id
    BY <1>2
  <1>4. PICK r : r = [path |-> op.path, ver |-> op.ver, sum |-> op.body, conf |-> op.conf]
    OBVIOUS
  <1>5. r \in Records /\ r.path = op.path /\ r.ver = op.ver
    BY <1>2, <1>4 DEF Records, Steps
  <1>6. PutDoc(d, r)
    BY <1>3, <1>4 DEF Put
  <1>7. op.k \in Lands /\ op.k \in Brings
    BY <1>1 DEF Lands, Brings
  <1>8. Behind(d, Reached) => r.ver = Current(d)
    BY <1>2, <1>3, <1>5, <1>7 DEF Harmless
  <1> QED
    BY <1>1, <1>3, <1>5, <1>6, <1>7, <1>8, PutKept

\* What is forgotten was not looked at.
LEMMA ForgetKept == ASSUME IInv, FeedInv, Forget PROVE FeedInv'
  <1>1. UNCHANGED <<moduleVars, session, loopVars, lastSeq>> /\ op.k = "forget" /\ op'.k = "idle"
    BY IdleIs DEF Forget, Local, InOp
  <1>2. RecOK /\ FeedOK /\ FeedSays /\ Held /\ Placed /\ Harmless /\ Cursor /\ op.id \in Docs
    BY <1>1, IInvIs, ModuleOKIs DEF FeedInv, Core, Types, OpFits
  <1>3. ModuleStep
    BY <1>1, <1>2, SameModuleStep DEF moduleVars
  <1>4. Cursor' /\ Listing' /\ Reached' = Reached /\ lastSeq' = lastSeq
    BY <1>1, <1>3, LoopStays DEF loopVars
  <1>5. /\ \A e, n : Behind(e, n)' <=> Behind(e, n)
        /\ \A e, p : Was(e, p)' <=> Was(e, p)
        /\ \A e : Current(e)' = Current(e)
    BY <1>1, SameModule DEF moduleVars
  <1>6. \A e \in Docs : rec'[e] = IF e = op.id THEN None ELSE rec[e]
    BY <1>2 DEF Forget, DeleteDoc, RecOK
  <1>7. ~Behind(op.id, Reached)
    BY <1>1, <1>2 DEF Harmless, Takes
  <1>8. Held'
    <2>1. \A e \in Docs : Behind(e, lastSeq) => Behind(e, Reached)
      BY <1>2, ReachedIs, BehindGrows
    <2>2. \A e \in Docs : Behind(e, Reached) => Has(e)
      BY <1>1, <1>2, NotComing DEF Held
    <2>3. \A e \in Docs : Behind(e, Reached) => Has(e)'
      BY <1>5, <1>6, <1>7, <2>2 DEF Has, Known
    <2> QED
      BY <1>4, <1>5, <2>1, <2>3 DEF Held
  <1>9. Placed'
    BY <1>2, <1>5, <1>6 DEF Placed, Known
  <1>10. Harmless'
    BY <1>1, NoHarm
  <1>11. FeedSays'
    BY <1>2, <1>3, FeedSaysOn, IInvIs
  <1> QED
    BY <1>4, <1>8, <1>9, <1>10, <1>11 DEF FeedInv

\* The reply of documents.get is the document as it is now.
LEMMA GetKept == ASSUME IInv, FeedInv, Get PROVE FeedInv'
  <1>1. UNCHANGED <<moduleVars, session, loopVars, lastSeq>> /\ op.k = "get"
    BY DEF Get, Local, InOp
  <1>2. FeedSays /\ Held /\ Placed /\ op.id \in Docs
    BY <1>1, IInvIs DEF FeedInv, Core, Types, OpFits
  <1>3. PICK d \in Docs : d = op.id
    BY <1>2
  <1>4. Reached' = Reached
    BY <1>1 DEF Reached, Applying, loopVars
  <1>5. CASE doc[d].life # "live"
    <2>1. ~Behind(d, Reached)
      BY <1>5 DEF Behind
    <2>2. StillComing
      BY <1>3, <2>1 DEF StillComing, Coming
    <2>3. rec' = rec /\ (op'.k = "idle" \/ (op'.k \in Takes /\ op'.id = d))
      <3>1. Ignore => rec' = rec /\ op'.k = "idle"
        BY IdleIs DEF Ignore
      <3>2. Ignore \/ MoveAside(d) \/ RemoteDeleted(d, 0)
        <4>1. doc[d].life \in {"unborn", "deleted"}
          BY <1>5, IInvIs, ModuleOKIs DEF DocOK, Lives
        <4> QED
          BY <1>3, <4>1 DEF Get
      <3> QED
        BY <3>1, <3>2, AsideTakes, DeletedTakes
    <2>4. Harmless'
      BY <1>1, <1>4, <2>1, <2>3, NoHarm, TakesHarmless DEF moduleVars
    <2> QED
      BY <1>1, <2>2, <2>3, <2>4, OpKept, SameRecords
  <1>6. CASE doc[d].life = "live"
    <2>1. doc[d].readable
      BY <1>2 DEF FeedSays, AllOpen
    <2>2. /\ op' = [Step("got", d, doc[d].path, Current(d), Content(d)) EXCEPT !.had = op.had]
          /\ rec' = rec
      BY <1>3, <1>6, <2>1 DEF Get
    <2>3. op'.k = "got" /\ op'.id = d /\ op'.path = doc[d].path /\ op'.ver = Current(d)
      BY <2>2 DEF Step
    <2>4. /\ \A e, n : Behind(e, n)' <=> Behind(e, n)
          /\ \A e, p : Was(e, p)' <=> Was(e, p)
          /\ \A e : Current(e)' = Current(e)
      BY <1>1, SameModule DEF moduleVars
    <2>5. StillComing
      BY <1>3, <2>3, <2>4 DEF StillComing, Coming
    <2>6. Was(d, doc[d].path)
      BY <1>2, <1>6 DEF FeedSays, SaysWhere
    <2>7. ASSUME NEW e \in Docs, e # d, Behind(e, Reached), Known(e) PROVE rec[e].path # doc[d].path
      <3>1. rec[e].path = doc[e].path
        BY <1>2, <2>7, OnePlace DEF Placed
      <3>2. doc[e].life = "live"
        BY <2>7 DEF Behind
      <3> QED
        BY <1>2, <1>6, <2>7, <3>1, <3>2 DEF FeedSays, Apart
    <2>8. Harmless'
      <3>1. ~(op'.k \in Takes)
        BY <2>3 DEF Takes
      <3>2. op'.ver = Current(op.id)'
        BY <2>3, <2>4
      <3>3. \A e \in Docs : Known(e)' <=> Known(e)
        BY <2>2 DEF Known
      <3> QED
        BY <1>4, <2>2, <2>3, <2>4, <2>6, <2>7, <3>1, <3>2, <3>3 DEF Harmless
    <2> QED
      BY <1>1, <2>2, <2>5, <2>8, OpKept, SameRecords
  <1> QED
    BY <1>5, <1>6

\* What was asked of the module was done, or was so already: it is not behind what
\* was looked at, or it is recorded at the version it has.
LEMMA AskedKept ==
    ASSUME IInv, FeedInv, op.k \in {"update", "create"}, Done,
           UNCHANGED <<rec, session, loopVars, lastSeq>>,
           \/ op'.k = "idle"
           \/ /\ op'.k \in {"put", "clear"} /\ op'.id = op.id /\ op'.path = op.path
    PROVE FeedInv'
  <1>1. ModuleOK /\ HistFits /\ Core /\ FeedSays /\ Placed /\ Harmless /\ Cursor
    BY IInvIs DEF FeedInv
  <1>2. PICK d : d = op.id
    OBVIOUS
  <1>3. /\ ModuleStep /\ d \in Docs /\ op.path \in Paths
        /\ \A n \in Nat : n <= Len(feed) => ~Behind(d, n)'
        /\ doc'[d].life = "live"
        /\ op.k = "create" => doc'[d].path = op.path
    BY <1>1, <1>2, DoneStep
  <1>4. Cursor' /\ Listing' /\ Reached' = Reached
    BY <1>3, LoopStays DEF loopVars
  <1>5. ~Behind(d, Reached)'
    BY <1>1, <1>3, <1>4, ReachedIs
  <1>6. Harmless'
    <2>1. CASE op'.k = "idle"
      BY <2>1, NoHarm
    <2>2. CASE op'.k \in {"put", "clear"} /\ op'.id = op.id /\ op'.path = op.path
      <3>1. Was(d, op.path)'
        <4>1. CASE op.k = "update"
          <5>1. Was(d, op.path)
            BY <1>1, <1>2, <4>1 DEF Harmless, Lands
          <5>2. \A p : Was(d, p) => Was(d, p)'
            BY <1>1, <1>3, WasStays
          <5> QED
            BY <2>2, <5>1, <5>2
        <4>2. CASE op.k = "create"
          <5>1. SaysWhere'
            BY <1>1, <1>3, FeedSaysOn DEF FeedSays
          <5>2. doc'[d].path = op'.path
            BY <1>3, <2>2, <4>2
          <5> QED
            BY <1>3, <5>1, <5>2 DEF SaysWhere
        <4> QED
          BY <4>1, <4>2
      <3>2. ASSUME NEW e \in Docs, e # d, Behind(e, Reached)', Known(e)' PROVE rec'[e].path # op.path
        <4>1. Behind(e, Reached) /\ Untouched(e) /\ Known(e) /\ rec'[e] = rec[e]
          BY <1>3, <1>4, <3>2, BackTo DEF Known
        <4>2. CASE op.k = "update"
          BY <1>1, <1>2, <3>2, <4>1, <4>2 DEF Harmless, Lands
        <4>3. CASE op.k = "create"
          <5>1. rec[e].path = doc[e].path
            BY <1>1, <4>1, OnePlace DEF Placed
          <5>2. doc'[e].life = "live" /\ doc'[e].path = doc[e].path
            BY <4>1 DEF Behind, Untouched
          <5> QED
            BY <1>3, <3>2, <4>1, <4>3, <5>1, <5>2 DEF ModuleStep, Apart
        <4> QED
          BY <4>2, <4>3
      <3> QED
        BY <1>2, <1>5, <2>2, <3>1, <3>2 DEF Harmless, Takes
    <2> QED
      BY <2>1, <2>2
  <1>7. StillComing
    BY NotComing
  <1> QED
    BY <1>3, <1>4, <1>6, <1>7, Kept, SameRecords

\* An upload and what its reply calls for.
LEMMA UpdateKept == ASSUME IInv, FeedInv, Update PROVE FeedInv'
  <1>1. UNCHANGED <<session, loopVars, lastSeq>> /\ op.k = "update"
    BY DEF Update
  <1>2. /\ ModuleOK /\ FeedSays /\ Harmless /\ op \in Steps /\ op.id \in Docs
    BY <1>1, IInvIs DEF FeedInv, Core, Types, OpFits
  <1>3. PICK d \in Docs : d = op.id
    BY <1>2
  <1>4. PICK reply : reply = SaveReply(d, op.ver, op.body)
    OBVIOUS
  <1>5. /\ reply = "saved" => ModuleSaves(d, op.body)
        /\ reply # "saved" => UNCHANGED <<moduleVars, notes>>
        /\ CASE reply = "saved" -> Saved(Current(d) + 1) /\ UNCHANGED <<diskVars, rec, pending>>
             [] reply = "same" -> Saved(Current(d)) /\ UNCHANGED <<diskVars, rec, pending>>
             [] reply = "version_conflict" -> Fetch(d, TRUE)
             [] reply = "locked" -> Ignore
             [] reply = "not_found" -> MoveAside(d)
    BY <1>3, <1>4 DEF Update
  <1>6. reply \in {"saved", "same", "version_conflict", "locked", "not_found"}
    BY <1>4 DEF SaveReply
  <1>7. CASE reply = "saved"
    <2>1. Done
      BY <1>1, <1>3, <1>4, <1>5, <1>7 DEF Done
    <2>2. rec' = rec /\ op' = [op EXCEPT !.k = "put", !.ver = Current(d) + 1]
      BY <1>5, <1>7 DEF Saved
    <2>3. op'.k = "put" /\ op'.id = op.id /\ op'.path = op.path
      BY <1>2, <2>2 DEF Steps
    <2> QED
      BY <1>1, <2>1, <2>2, <2>3, AskedKept
  <1>8. CASE reply = "same"
    <2>1. UNCHANGED moduleVars /\ rec' = rec /\ op' = [op EXCEPT !.k = "put", !.ver = Current(d)]
      BY <1>5, <1>8 DEF Saved
    <2>2. op'.k = "put" /\ op'.id = op.id /\ op'.path = op.path /\ op'.ver = Current(d)
      BY <1>2, <2>1 DEF Steps
    <2>3. /\ \A e, n : Behind(e, n)' <=> Behind(e, n)
          /\ \A e, p : Was(e, p)' <=> Was(e, p)
          /\ \A e : Current(e)' = Current(e) /\ (Known(e)' <=> Known(e))
      BY <2>1, SameModule DEF moduleVars, Known
    <2>4. Reached' = Reached
      BY <1>1 DEF Reached, Applying, loopVars
    <2>5. Harmless'
      <3>1. op.k \in Lands /\ ~(op'.k \in Takes)
        BY <1>1, <2>2 DEF Lands, Takes
      <3>2. op'.ver = Current(op.id)'
        BY <1>3, <2>2, <2>3
      <3> QED
        BY <1>2, <2>1, <2>2, <2>3, <2>4, <3>1, <3>2 DEF Harmless
    <2> QED
      BY <1>1, <2>1, <2>5, OpKept, NotComing, SameRecords
  <1>9. CASE reply \in {"version_conflict", "locked"}
    <2>1. UNCHANGED moduleVars /\ rec' = rec /\ op'.k \in {"get", "idle"}
      <3>1. Fetch(d, TRUE) \/ Ignore
        BY <1>5, <1>9
      <3> QED
        BY <1>5, <1>9, <3>1, IdleIs DEF Fetch, Ignore, Step
    <2> QED
      BY <1>1, <2>1, OpKept, NoHarm, NotComing, SameRecords
  <1>10. CASE reply = "not_found"
    <2>1. UNCHANGED moduleVars /\ op'.k \in Takes /\ op'.id = d /\ rec' = rec
      BY <1>5, <1>10, AsideTakes
    <2>2. ~Behind(d, Reached)
      <3>1. ~Readable(d) /\ doc[d].readable
        BY <1>2, <1>4, <1>10 DEF SaveReply, FeedSays, AllOpen
      <3> QED
        BY <3>1 DEF Behind, Readable
    <2>3. Reached' = Reached
      BY <1>1 DEF Reached, Applying, loopVars
    <2>4. Harmless'
      BY <2>1, <2>2, <2>3, TakesHarmless DEF moduleVars
    <2> QED
      BY <1>1, <2>1, <2>4, OpKept, NotComing, SameRecords
  <1> QED
    BY <1>6, <1>7, <1>8, <1>9, <1>10

\* A creation and what its reply calls for.
LEMMA CreateKept == ASSUME IInv, FeedInv, Create, ~RetryReturnsAny PROVE FeedInv'
  <1>1. UNCHANGED <<session, loopVars, lastSeq, rec>> /\ op.k = "create"
    BY DEF Create, InOp
  <1>2. /\ ModuleOK /\ FeedSays /\ Placed /\ op \in Steps /\ op.id \in Docs
    BY <1>1, IInvIs DEF FeedInv, Core, Types, OpFits
  <1>3. PICK d \in Docs : d = op.id
    BY <1>2
  <1>4. PICK reply : reply = CreateReply(d, op.path, op.body)
    OBVIOUS
  <1>5. /\ reply = "created" => ModuleCreates(d, op.path, op.body)
        /\ reply # "created" => UNCHANGED <<moduleVars, notes>>
        /\ reply = "created" => op' = [op EXCEPT !.k = "clear", !.ver = 1]
        /\ reply = "known" => op' = [op EXCEPT !.k = "clear", !.ver = Current(d), !.path = doc[d].path]
        /\ reply = "exists" => op' = Idle
    BY <1>3, <1>4 DEF Create
  <1>6. reply \in {"created", "known", "exists"}
    BY <1>4 DEF CreateReply
  <1>7. CASE reply = "created"
    <2>1. Done
      BY <1>1, <1>3, <1>4, <1>5, <1>7 DEF Done
    <2>2. op'.k = "clear" /\ op'.id = op.id /\ op'.path = op.path
      BY <1>2, <1>5, <1>7 DEF Steps
    <2> QED
      BY <1>1, <2>1, <2>2, AskedKept
  <1>8. CASE reply = "known"
    <2>1. UNCHANGED moduleVars
      BY <1>5, <1>8
    <2>2. op'.k = "clear" /\ op'.id = op.id /\ op'.path = doc[d].path /\ op'.ver = Current(d)
      BY <1>2, <1>5, <1>8 DEF Steps
    <2>3. /\ \A e, n : Behind(e, n)' <=> Behind(e, n)
          /\ \A e, p : Was(e, p)' <=> Was(e, p)
          /\ \A e : Current(e)' = Current(e) /\ (Known(e)' <=> Known(e))
      BY <1>1, <2>1, SameModule DEF moduleVars, Known
    <2>4. Reached' = Reached
      BY <1>1 DEF Reached, Applying, loopVars
    <2>5. doc[d].life = "live"
      BY <1>4, <1>8 DEF CreateReply, Readable
    <2>6. Was(d, doc[d].path)
      BY <1>2, <2>5 DEF FeedSays, SaysWhere
    <2>7. ASSUME NEW e \in Docs, e # d, Behind(e, Reached), Known(e) PROVE rec[e].path # doc[d].path
      <3>1. rec[e].path = doc[e].path
        BY <1>2, <2>7, OnePlace DEF Placed
      <3>2. doc[e].life = "live"
        BY <2>7 DEF Behind
      <3> QED
        BY <1>2, <2>5, <2>7, <3>1, <3>2 DEF FeedSays, Apart
    <2>8. Harmless'
      <3>1. ~(op'.k \in Takes)
        BY <2>2 DEF Takes
      <3>2. op'.ver = Current(op.id)'
        BY <1>3, <2>2, <2>3
      <3> QED
        BY <1>1, <1>3, <2>2, <2>3, <2>4, <2>6, <2>7, <3>1, <3>2 DEF Harmless
    <2> QED
      BY <1>1, <2>1, <2>8, OpKept, NotComing, SameRecords
  <1>9. CASE reply = "exists"
    <2>1. UNCHANGED moduleVars /\ op'.k = "idle"
      BY <1>5, <1>9, IdleIs
    <2> QED
      BY <1>1, <2>1, OpKept, NoHarm, NotComing, SameRecords
  <1> QED
    BY <1>6, <1>7, <1>8, <1>9

\* A step of an operation.
LEMMA OpStepKept == ASSUME IInv, FeedInv, OpStep, ~RetryReturnsAny PROVE FeedInv'
  BY RelistKept, MoveFileKept, GoesOnKept, MoveRecordKept, PutStepKept, ForgetKept, GetKept,
     UpdateKept, CreateKept DEF OpStep

\* What a changed file calls for.
LEMMA LocalKept ==
    ASSUME IInv, FeedInv, NEW p, LocalChanged(p), UNCHANGED <<doc, hist, feed>>, Reached' = Reached
    PROVE RecordsStay /\ Harmless'
  <1>1. RecOK /\ Placed
    BY IInvIs DEF FeedInv, Core, Types
  <1>2. CASE Ignore
    BY <1>2, IdleIs, NoHarm, SameRecords DEF Ignore
  <1>3. CASE CreateLocal(p)
    <2>1. rec' = rec /\ op'.k \in {"idle", "create"}
      BY <1>3, IdleIs DEF CreateLocal, Step
    <2> QED
      BY <2>1, NoHarm, SameRecords
  <1>4. ASSUME NEW d \in RecordsAt(p), Upload(d, p), RecordsStay PROVE Harmless'
    <2>1. d \in Docs /\ Known(d) /\ rec[d].path = p
      BY <1>4 DEF RecordsAt
    <2>2. op'.k = "idle" \/ (op'.k = "update" /\ op'.id = d /\ op'.path = p)
      BY <1>4, IdleIs DEF Upload, Step
    <2>3. /\ \A e, n : Behind(e, n)' <=> Behind(e, n)
          /\ \A e, q : Was(e, q)' <=> Was(e, q)
      BY SameModule
    <2>4. CASE op'.k = "idle"
      BY <2>4, NoHarm
    <2>5. CASE op'.k = "update" /\ op'.id = d /\ op'.path = p
      <3>1. Was(d, p)
        BY <1>1, <2>1 DEF Placed
      <3>2. \A e \in Docs : e # d /\ Known(e)' => rec'[e].path # p
        BY <1>1, <1>4, <2>1 DEF Placed, RecordsStay
      <3> QED
        BY <2>3, <2>5, <3>1, <3>2 DEF Harmless, Takes, Brings, Lands
    <2> QED
      BY <2>2, <2>4, <2>5
  <1>5. ASSUME NEW d \in RecordsAt(p), PutDoc(d, [rec[d] EXCEPT !.conf = None]) PROVE RecordsStay
    <2>1. d \in Docs /\ Known(d) /\ rec[d].path = p
      BY <1>5 DEF RecordsAt
    <2>2. PICK r : r = [rec[d] EXCEPT !.conf = None]
      OBVIOUS
    <2>3. r \in Records /\ r.path = p /\ r.ver = rec[d].ver
      BY <1>1, <2>1, <2>2, KnownOK DEF Records
    <2>4. PutDoc(d, r)
      BY <1>5, <2>2
    <2>5. rec'[d] = r /\ Known(d)'
      BY <1>1, <2>1, <2>3, <2>4, PutDocOK
    <2>6. \A e \in Docs \ {d} : rec'[e] = rec[e]
      <3>1. \A e \in Docs \ {d} : e \notin RecordsAt(r.path)
        BY <1>1, <2>1, <2>3 DEF Placed, RecordsAt
      <3> QED
        BY <2>4, <3>1 DEF PutDoc
    <2> QED
      BY <2>1, <2>3, <2>5, <2>6 DEF RecordsStay, Known
  <1> QED
    BY <1>2, <1>3, <1>4, <1>5, SameRecords DEF LocalChanged

\* What a list says of the job after the first.
LEMMA TailFirst ==
    ASSUME NEW a \in Seq(Jobs), a # <<>>, ReadFirst(a)
    PROVE /\ ReadFirst(Tail(a))
          /\ Tail(a) # <<>> => /\ Head(Tail(a)) # "read"
                               /\ Head(Tail(a)) = "apply" => Head(a) = "read"
          /\ \A i \in 1..Len(Tail(a)) : Tail(a)[i] # "read" /\ (Head(a) # "read" => Tail(a)[i] # "apply")
  <1>1. /\ Len(Tail(a)) = Len(a) - 1 /\ Len(a) \in Nat /\ Head(a) = a[1]
        /\ \A i \in 1..Len(Tail(a)) : Tail(a)[i] = a[i + 1] /\ i + 1 \in 2..Len(a)
    OBVIOUS
  <1>2. \A i \in 1..Len(Tail(a)) : Tail(a)[i] # "read" /\ (Tail(a)[i] = "apply" => i = 1 /\ a[1] = "read")
    BY <1>1 DEF ReadFirst
  <1>3. ReadFirst(Tail(a))
    BY <1>1, <1>2 DEF ReadFirst
  <1>4. Tail(a) # <<>> => Head(Tail(a)) = Tail(a)[1] /\ 1 \in 1..Len(Tail(a))
    OBVIOUS
  <1> QED
    BY <1>1, <1>2, <1>3, <1>4

\* The plans read the feed first, and so does another page before what is left.
LEMMA PlansReadFirst ==
    /\ ReadFirst(<<>>) /\ ReadFirst(Full) /\ ReadFirst(CatchUp) /\ ReadFirst(CatchUp \o Scan)
    /\ \A a \in Seq(Jobs) : (\A i \in 1..Len(a) : a[i] # "read" /\ a[i] # "apply")
                            => ReadFirst(CatchUp \o a) /\ Head(CatchUp \o a) = "read"
  <1>1. ReadFirst(<<>>) /\ ReadFirst(Full) /\ ReadFirst(CatchUp)
    BY DEF ReadFirst, Full, CatchUp
  <1>2. ASSUME NEW a \in Seq(Jobs), \A i \in 1..Len(a) : a[i] # "read" /\ a[i] # "apply"
        PROVE ReadFirst(CatchUp \o a) /\ Head(CatchUp \o a) = "read"
    <2>1. /\ CatchUp \in Seq(Jobs) /\ Len(CatchUp) = 2 /\ CatchUp[1] = "read" /\ CatchUp[2] = "apply"
          /\ Len(a) \in Nat
      BY DEF CatchUp, Jobs
    <2>2. /\ CatchUp \o a \in Seq(Jobs) /\ Len(CatchUp \o a) = 2 + Len(a)
          /\ \A i \in 1..Len(CatchUp \o a) : (CatchUp \o a)[i] = IF i <= 2 THEN CatchUp[i] ELSE a[i - 2]
      <3>1. ASSUME NEW c \in Seq(Jobs)
            PROVE /\ c \o a \in Seq(Jobs) /\ Len(c \o a) = Len(c) + Len(a)
                  /\ \A i \in 1..Len(c \o a) : (c \o a)[i] = IF i <= Len(c) THEN c[i] ELSE a[i - Len(c)]
        OBVIOUS
      <3> QED
        BY <2>1, <3>1
    <2>3. (CatchUp \o a)[1] = "read" /\ (CatchUp \o a)[2] = "apply"
      BY <2>1, <2>2
    <2>4. \A i \in 3..Len(CatchUp \o a) : i - 2 \in 1..Len(a) /\ (CatchUp \o a)[i] = a[i - 2]
      BY <2>1, <2>2
    <2>5. ReadFirst(CatchUp \o a)
      BY <1>2, <2>1, <2>2, <2>3, <2>4 DEF ReadFirst
    <2>6. Head(CatchUp \o a) = (CatchUp \o a)[1]
      BY <2>2
    <2> QED
      BY <2>3, <2>5, <2>6
  <1>3. Scan \in Seq(Jobs) /\ \A i \in 1..Len(Scan) : Scan[i] # "read" /\ Scan[i] # "apply"
    BY DEF Scan, Jobs
  <1> QED
    BY <1>1, <1>2, <1>3

\* The next job of the agenda, after one that reads nothing of the feed.
LEMMA NextJob ==
    ASSUME IInv, FeedInv, agenda # <<>>, Head(agenda) \notin {"read", "apply"},
           agenda' = Tail(agenda), UNCHANGED <<moduleVars, session, lastSeq>>
    PROVE /\ Cursor' /\ Reached' = Reached /\ Reached = lastSeq
          /\ agenda' # <<>> /\ Head(agenda') \in Followers => Head(agenda) = Before(Head(agenda'))
  <1>1. Cursor /\ agenda \in Seq(Jobs) /\ Ordered(agenda)
    BY IInvIs DEF FeedInv, WorkOK
  <1>2. /\ ReadFirst(agenda)'
        /\ agenda' # <<>> => Head(agenda') \notin {"read", "apply"}
        /\ agenda' # <<>> /\ Head(agenda') \in Followers => Head(agenda) = Before(Head(agenda'))
    <2>1. ReadFirst(Tail(agenda))
      BY <1>1, TailFirst DEF Cursor
    <2>2. Tail(agenda) # <<>> => Head(Tail(agenda)) \notin {"read", "apply"}
      BY <1>1, TailFirst DEF Cursor
    <2>3. Tail(agenda) # <<>> /\ Head(Tail(agenda)) \in Followers => Head(agenda) = Before(Head(Tail(agenda)))
      BY <1>1, TailOrdered
    <2> QED
      BY <2>1, <2>2, <2>3 DEF ReadFirst
  <1>3. ~Applying /\ ~Applying'
    BY <1>2 DEF Applying
  <1>4. Cursor'
    BY <1>1, <1>2, <1>3 DEF Cursor, moduleVars
  <1> QED
    BY <1>2, <1>3, <1>4 DEF Reached

\* A job that decides nothing about a document.
LEMMA JobKept ==
    ASSUME IInv, FeedInv, UNCHANGED <<moduleVars, rec, op, lastSeq>>, Reached' = Reached, Cursor',
           Listing'
    PROVE FeedInv'
  <1>1. ModuleStep
    BY SameModuleStep DEF FeedInv, moduleVars
  <1> QED
    BY <1>1, Kept, SameRecords, SameComing, HarmlessStays

\* The jobs of a reconciliation and of a scan, but for the documents one by one.
LEMMA ListKept == ASSUME IInv, FeedInv, List PROVE FeedInv'
  <1>1. /\ agenda # <<>> /\ Head(agenda) = "list" /\ agenda' = Tail(agenda)
        /\ UNCHANGED <<moduleVars, session, lastSeq, rec, op>>
        /\ listed' = [d \in Docs |-> IF Readable(d) THEN <<doc[d].path, Current(d)>> ELSE None]
    BY DEF List, Doing, Finish, Agenda, NoDecision
  <1>2. /\ Cursor' /\ Reached' = Reached
        /\ agenda' # <<>> /\ Head(agenda') \in Followers => Head(agenda') = "reconcile"
    BY <1>1, NextJob DEF Before, Followers
  <1>3. FeedSays /\ DocOK /\ HistOK
    BY IInvIs, ModuleOKIs DEF FeedInv
  <1>4. /\ \A e, n : Behind(e, n)' <=> Behind(e, n)
        /\ \A e, p : Was(e, p)' <=> Was(e, p)
    BY <1>1, SameModule DEF moduleVars
  <1>5. ASSUME NEW d \in Docs
        PROVE /\ listed'[d] = None => ~Behind(d, lastSeq)
              /\ listed'[d] # None => /\ Was(d, listed'[d][1])
                                      /\ \A e \in Docs : e # d /\ Behind(e, lastSeq)
                                                         => doc[e].path # listed'[d][1]
    <2>1. CASE doc[d].life = "live"
      <3>1. Readable(d) /\ listed'[d] = <<doc[d].path, Current(d)>>
        BY <1>1, <1>3, <2>1 DEF FeedSays, AllOpen, Readable
      <3>2. listed'[d] # None /\ listed'[d][1] = doc[d].path
        <4>1. doc[d].path \in Paths /\ Current(d) \in Nat
          BY <1>3 DEF DocOK, HistOK, Current
        <4> QED
          BY <3>1, <4>1, RecordAssumption
      <3>3. Was(d, doc[d].path)
        BY <1>3, <2>1 DEF FeedSays, SaysWhere
      <3>4. \A e \in Docs : e # d /\ Behind(e, lastSeq) => doc[e].path # doc[d].path
        BY <1>3, <2>1 DEF FeedSays, Apart, Behind
      <3> QED
        BY <3>2, <3>3, <3>4
    <2>2. CASE doc[d].life # "live"
      BY <1>1, <2>2 DEF Readable, Behind
    <2> QED
      BY <2>1, <2>2
  <1>6. Listing'
    BY <1>1, <1>2, <1>4, <1>5 DEF Listing, Followers, moduleVars
  <1> QED
    BY <1>1, <1>2, <1>6, JobKept

LEMMA MissingKept == ASSUME IInv, FeedInv, AllReconciled PROVE FeedInv'
  <1>1. /\ agenda # <<>> /\ Head(agenda) = "reconcile" /\ agenda' = Tail(agenda)
        /\ UNCHANGED <<moduleVars, session, lastSeq, rec, op, listed>>
        /\ todo' = {d \in Docs : Known(d) /\ listed[d] = None}
    BY DEF AllReconciled, Doing, Finish, Agenda, NoDecision
  <1>2. /\ Cursor' /\ Reached' = Reached
        /\ agenda' # <<>> /\ Head(agenda') \in Followers => Head(agenda') = "missing"
    BY <1>1, NextJob DEF Before, Followers
  <1>3. \A e, n : Behind(e, n)' <=> Behind(e, n)
    BY <1>1, SameModule DEF moduleVars
  <1>4. \A d \in todo' : ~Behind(d, lastSeq)
    BY <1>1 DEF FeedInv, Listing
  <1>5. Listing'
    BY <1>1, <1>2, <1>3, <1>4 DEF Listing, Followers
  <1> QED
    BY <1>1, <1>2, <1>5, JobKept

LEMMA OtherJobsKept ==
    ASSUME IInv, FeedInv, AllMoved \/ StartScan \/ ScanDone \/ StampFull PROVE FeedInv'
  <1>1. /\ agenda # <<>> /\ Head(agenda) \in {"missing", "scan", "visit", "stamp"}
        /\ agenda' = Tail(agenda) /\ UNCHANGED <<moduleVars, session, lastSeq, rec, op>>
    BY DEF AllMoved, StartScan, ScanDone, StampFull, Doing, Finish, Agenda, NoDecision
  <1>2. /\ Cursor' /\ Reached' = Reached
        /\ agenda' # <<>> => Head(agenda') \notin {"reconcile", "missing"}
    BY <1>1, NextJob DEF Before, Followers
  <1>3. Listing'
    BY <1>2 DEF Listing
  <1> QED
    BY <1>1, <1>2, <1>3, JobKept

\* A document of the listing, and one the listing lacks.
LEMMA ReconcileKept ==
    ASSUME IInv, FeedInv, NEW d \in Docs, ReconcileDoc(d) PROVE FeedInv'
  <1>1. /\ agenda # <<>> /\ Head(agenda) = "reconcile" /\ op.k = "idle" /\ d \in todo
        /\ UNCHANGED <<moduleVars, session, lastSeq, rec, agenda, listed, page>>
        /\ op' = Step("relist", d, listed[d][1], listed[d][2], Nothing)
    BY QuietIs DEF ReconcileDoc, Doing, Agenda
  <1>2. FeedSays /\ Placed /\ Cursor /\ Listing /\ listed[d] # None
    BY <1>1, IInvIs DEF FeedInv, TodoFits
  <1>3. op'.k = "relist" /\ op'.id = d /\ op'.path = listed[d][1]
    BY <1>1 DEF Step
  <1>4. /\ \A e, n : Behind(e, n)' <=> Behind(e, n)
        /\ \A e, p : Was(e, p)' <=> Was(e, p)
    BY <1>1, SameModule DEF moduleVars
  <1>5. Reached' = Reached /\ Reached = lastSeq
    BY <1>1 DEF Reached, Applying
  <1>6. Was(d, listed[d][1]) /\ \A e \in Docs : e # d /\ Behind(e, lastSeq) => doc[e].path # listed[d][1]
    BY <1>1, <1>2 DEF Listing
  <1>7. \A e \in Docs : e # d /\ Behind(e, lastSeq) /\ Known(e) => rec[e].path # listed[d][1]
    BY <1>2, <1>6, OnePlace DEF Placed
  <1>8. \A e : Known(e)' <=> Known(e)
    BY <1>1 DEF Known
  <1>9. Harmless'
    BY <1>1, <1>3, <1>4, <1>5, <1>6, <1>7, <1>8 DEF Harmless, Takes, Brings, Lands
  <1>10. Cursor' /\ Listing'
    BY <1>1, <1>2, <1>4 DEF Cursor, Listing, Applying, moduleVars
  <1>11. ModuleStep
    BY <1>1, <1>2, SameModuleStep DEF moduleVars
  <1> QED
    BY <1>1, <1>5, <1>9, <1>10, <1>11, Kept, SameRecords, NotComing

LEMMA NotListedKept ==
    ASSUME IInv, FeedInv, NEW d \in Docs, NotListed(d) PROVE FeedInv'
  <1>1. /\ agenda # <<>> /\ Head(agenda) = "missing" /\ op.k = "idle" /\ d \in todo
        /\ UNCHANGED <<moduleVars, session, lastSeq, agenda, listed, page>>
        /\ todo' = todo \ {d} /\ MoveAside(d)
    BY QuietIs DEF NotListed, Doing, Agenda
  <1>2. FeedSays /\ Cursor /\ Listing
    BY DEF FeedInv
  <1>3. rec' = rec /\ op'.k \in Takes /\ op'.id = d
    BY <1>1, AsideTakes
  <1>4. \A e, n : Behind(e, n)' <=> Behind(e, n)
    BY <1>1, SameModule DEF moduleVars
  <1>5. Reached' = Reached /\ Reached = lastSeq
    BY <1>1 DEF Reached, Applying
  <1>6. ~Behind(d, Reached)
    BY <1>1, <1>2, <1>5 DEF Listing
  <1>7. Harmless'
    BY <1>1, <1>3, <1>5, <1>6, TakesHarmless DEF moduleVars
  <1>8. Cursor' /\ Listing'
    BY <1>1, <1>2, <1>4 DEF Cursor, Listing, Applying, moduleVars
  <1>9. ModuleStep
    BY <1>1, <1>2, SameModuleStep DEF moduleVars
  <1> QED
    BY <1>1, <1>3, <1>5, <1>7, <1>8, <1>9, Kept, SameRecords, NotComing

\* A file of a scan.
LEMMA ScanFileKept ==
    ASSUME IInv, FeedInv, NEW p \in Paths, ScanFile(p) PROVE FeedInv'
  <1>1. /\ agenda # <<>> /\ Head(agenda) = "visit" /\ op.k = "idle" /\ LocalChanged(p)
        /\ UNCHANGED <<moduleVars, session, lastSeq, agenda, listed, page>>
    BY QuietIs DEF ScanFile, Doing, Agenda
  <1>2. FeedSays /\ Cursor
    BY DEF FeedInv
  <1>3. Reached' = Reached
    BY <1>1 DEF Reached, Applying
  <1>4. RecordsStay /\ Harmless'
    BY <1>1, <1>3, LocalKept DEF moduleVars
  <1>5. Cursor' /\ Listing'
    BY <1>1, <1>2 DEF Cursor, Listing, Applying, moduleVars
  <1>6. ModuleStep
    BY <1>1, <1>2, SameModuleStep DEF moduleVars
  <1> QED
    BY <1>1, <1>3, <1>4, <1>5, <1>6, Kept, NotComing

\* One entry further: either it is the document's last, or the document is behind
\* the entry before.
LEMMA OneFurther ==
    ASSUME FeedOK, FeedSays, NEW d \in Docs, NEW n \in Nat, n + 1 <= Len(feed), Behind(d, n + 1)
    PROVE IF feed[n + 1].id = d THEN SaysCurrent(d, n + 1) ELSE Behind(d, n)
  <1>1. Len(feed) \in Nat /\ n + 1 \in 1..Len(feed)
    BY DEF FeedOK
  <1>2. \A i \in 1..Len(feed) : feed[i].id = d => i <= n + 1
    BY DEF Behind
  <1>3. CASE feed[n + 1].id = d
    <2>1. \A j \in (n + 1 + 1)..Len(feed) : j \in 1..Len(feed) /\ ~(j <= n + 1)
      BY <1>1
    <2>2. LastEntry(d, n + 1)
      BY <1>2, <1>3, <2>1 DEF LastEntry
    <2> QED
      BY <1>1, <1>3, <2>2 DEF FeedSays, SaysHow, Behind
  <1>4. CASE feed[n + 1].id # d
    <2>1. ASSUME NEW i \in 1..Len(feed), feed[i].id = d PROVE i <= n
      <3>1. i <= n + 1 /\ i # n + 1
        BY <1>2, <1>4, <2>1
      <3> QED
        BY <3>1
    <2> QED
      BY <1>4, <2>1 DEF Behind
  <1> QED
    BY <1>3, <1>4

\* A page of the feed.
LEMMA ReadPageKept == ASSUME IInv, FeedInv, ReadPage PROVE FeedInv'
  <1>1. /\ agenda # <<>> /\ Head(agenda) = "read"
        /\ UNCHANGED <<moduleVars, session, lastSeq, rec, op>>
    BY DEF ReadPage, Doing, Agenda, NoDecision
  <1>2. FeedSays /\ Cursor /\ FeedOK /\ PageOK /\ agenda \in Seq(Jobs) /\ Ordered(agenda)
        /\ lastSeq \in Nat
    BY IInvIs, ModuleOKIs DEF FeedInv, WorkOK, CursorsOK
  <1>3. floor = 0 /\ page.pos = lastSeq /\ page.pos \in Nat /\ PageSize \in Nat /\ Len(feed) \in Nat
        /\ lastSeq <= Len(feed)
    BY <1>1, <1>2, EngineAssumption DEF FeedSays, AllOpen, Cursor, PageOK, FeedOK
  <1>4. FirstKept(page.pos) = page.pos /\ ~(page.pos < floor)
    BY <1>3 DEF FirstKept
  <1>5. PICK end : end = IF Len(feed) < page.pos + PageSize THEN Len(feed) ELSE page.pos + PageSize
    OBVIOUS
  <1>6. /\ page' = [pos |-> page.pos, at |-> page.pos, end |-> end, more |-> end < Len(feed)]
        /\ agenda' = Tail(agenda)
    BY <1>4, <1>5 DEF ReadPage, Finish
  <1>7. page'.pos = lastSeq /\ page'.at = lastSeq /\ lastSeq <= page'.end
    BY <1>3, <1>5, <1>6
  <1>8. /\ ReadFirst(Tail(agenda)) /\ (Tail(agenda) # <<>> => Head(Tail(agenda)) \notin Followers)
    <2>1. Tail(agenda) # <<>> /\ Head(Tail(agenda)) \in Followers => Head(agenda) = Before(Head(Tail(agenda)))
      BY <1>1, <1>2, TailOrdered
    <2> QED
      BY <1>1, <1>2, <2>1, TailFirst DEF Cursor, Followers, Before
  <1>9. Cursor'
    <2>1. ReadFirst(agenda)'
      BY <1>6, <1>8 DEF ReadFirst
    <2>2. lastSeq' = lastSeq /\ feed' = feed /\ session' = session /\ lastSeq <= lastSeq
      BY <1>1, <1>3 DEF moduleVars
    <2> QED
      BY <1>1, <1>2, <1>3, <1>7, <2>1, <2>2 DEF Cursor
  <1>10. Reached' = Reached
    BY <1>1, <1>7 DEF Reached, Applying
  <1>11. Listing'
    BY <1>6, <1>8 DEF Listing, Followers
  <1> QED
    BY <1>1, <1>9, <1>10, <1>11, JobKept

\* An entry of the page: a change that is not held is fetched, a deletion that
\* counts is of a document that is not live.
LEMMA ApplyKept == ASSUME IInv, FeedInv, ApplyChange, ~RetryReturnsAny PROVE FeedInv'
  <1>1. /\ Applying /\ op.k = "idle" /\ page.at < page.end
        /\ page' = [page EXCEPT !.at = @ + 1]
        /\ UNCHANGED <<moduleVars, session, lastSeq, agenda, todo, listed>>
    BY QuietIs DEF ApplyChange, Doing, Agenda, Applying
  <1>2. /\ FeedSays /\ Held /\ Placed /\ Cursor /\ FeedOK /\ PageOK /\ RecOK /\ HistOK /\ RecordHonest
        /\ page.end <= Len(feed)
    BY IInvIs, ModuleOKIs DEF FeedInv, WorkOK, Core, Types, Honesty
  <1>3. PICK n : n = page.at
    OBVIOUS
  <1>4. /\ n \in Nat /\ Len(feed) \in Nat /\ n + 1 \in Nat /\ n + 1 <= page.end /\ n + 1 <= Len(feed)
        /\ n + 1 \in 1..Len(feed) /\ lastSeq <= n + 1
    <2>1. n \in Nat /\ page.end \in Nat /\ Len(feed) \in Nat /\ n < page.end /\ lastSeq <= n
          /\ lastSeq \in Nat
      BY <1>1, <1>2, <1>3, ReachedIs DEF PageOK, FeedOK, Cursor
    <2> QED
      BY <1>2, <2>1
  <1>5. PICK e \in Entries : e = feed[n + 1]
    BY <1>2, <1>4 DEF FeedOK
  <1>6. /\ e.id \in Docs /\ e.ver \in Nat
        /\ IF e.type = "deleted" THEN RemoteDeleted(e.id, e.ver) ELSE RemoteChanged(e.id, e.path, e.ver)
    BY <1>3, <1>5 DEF ApplyChange, Entries
  <1>7. Reached = n /\ Reached' = n + 1 /\ page'.pos = page.pos /\ page'.at = n + 1
        /\ page'.end = page.end /\ Applying'
    BY <1>1, <1>2, <1>3 DEF Reached, Applying, PageOK
  <1>8. /\ \A d, m : Behind(d, m)' <=> Behind(d, m)
        /\ \A d, p : Was(d, p)' <=> Was(d, p)
        /\ \A d : Current(d)' = Current(d)
    BY <1>1, SameModule DEF moduleVars
  <1>9. \A d \in Docs : Behind(d, n + 1) => IF e.id = d THEN SaysCurrent(d, n + 1) ELSE Behind(d, n)
    BY <1>2, <1>4, <1>5, OneFurther
  <1>10. \A d \in Docs : Behind(d, n) => Has(d)
    BY <1>1, <1>2, <1>7, NotComing DEF Held
  <1>11. rec' = rec
    BY <1>6, DeletedTakes DEF RemoteChanged, Fetch, Ignore
  <1>12. \A d : Has(d)' <=> Has(d)
    BY <1>8, <1>11 DEF Has, Known
  <1>13. ASSUME Behind(e.id, n + 1) PROVE Has(e.id) \/ Coming(e.id)'
    <2>1. e.type = "changed" /\ e.ver = Current(e.id)
      BY <1>5, <1>6, <1>9, <1>13 DEF SaysCurrent
    <2>2. RemoteChanged(e.id, e.path, e.ver)
      BY <1>6, <2>1
    <2>3. CASE Known(e.id) /\ e.ver > 0 /\ e.ver <= rec[e.id].ver /\ e.path = rec[e.id].path
      <3>1. rec[e.id].ver \in 1..Len(hist[e.id]) /\ Len(hist[e.id]) \in Nat
        BY <1>2, <1>6, <2>3 DEF RecordHonest, Honest, Versions, HistOK
      <3>2. rec[e.id].ver = Current(e.id)
        BY <2>1, <2>3, <3>1 DEF Current
      <3> QED
        BY <2>3, <3>2 DEF Has
    <2>4. CASE ~(Known(e.id) /\ e.ver > 0 /\ e.ver <= rec[e.id].ver /\ e.path = rec[e.id].path)
      <3>1. Fetch(e.id, Known(e.id))
        BY <2>2, <2>4 DEF RemoteChanged
      <3>2. op'.k = "get" /\ op'.id = e.id
        BY <3>1 DEF Fetch, Step
      <3> QED
        BY <3>2 DEF Coming
    <2> QED
      BY <2>3, <2>4
  <1>14. Held'
    <2>1. \A d \in Docs : Behind(d, lastSeq)' => Has(d)'
      BY <1>1, <1>2, <1>8, <1>12 DEF Held
    <2>2. ASSUME NEW d \in Docs, Behind(d, Reached)' PROVE Has(d)' \/ Coming(d)'
      <3>1. Behind(d, n + 1)
        BY <1>7, <1>8, <2>2
      <3>2. CASE d = e.id
        BY <1>12, <1>13, <3>1, <3>2
      <3>3. CASE d # e.id
        BY <1>9, <1>10, <1>12, <3>1, <3>3
      <3> QED
        BY <3>2, <3>3
    <2> QED
      BY <2>1, <2>2 DEF Held
  <1>15. Harmless'
    <2>1. CASE e.type = "deleted"
      <3>1. ~Behind(e.id, n + 1)
        BY <1>5, <1>6, <1>9, <2>1 DEF SaysCurrent
      <3>2. op'.k = "idle" \/ (op'.k \in Takes /\ op'.id = e.id)
        BY <1>6, <2>1, DeletedTakes
      <3>3. CASE op'.k \in Takes /\ op'.id = e.id
        BY <1>7, <1>8, <3>1, <3>3 DEF Harmless, Takes, Brings, Lands
      <3> QED
        BY <3>2, <3>3, NoHarm
    <2>2. CASE e.type # "deleted"
      <3>1. op'.k \in {"idle", "get"}
        BY <1>6, <2>2, IdleIs DEF RemoteChanged, Ignore, Fetch, Step
      <3> QED
        BY <3>1, NoHarm
    <2> QED
      BY <2>1, <2>2
  <1>16. Cursor'
    BY <1>1, <1>2, <1>4, <1>7 DEF Cursor, moduleVars
  <1>17. Listing'
    BY <1>7 DEF Listing, Applying
  <1>18. FeedSays' /\ Placed'
    <2>1. FeedSays'
      BY <1>1, <1>2, IInvIs, FeedSaysOn, SameModuleStep DEF moduleVars
    <2> QED
      BY <1>2, <1>8, <1>11, <2>1 DEF Placed, Known
  <1> QED
    BY <1>14, <1>15, <1>16, <1>17, <1>18 DEF FeedInv

\* The page was applied: lastSeq is where it ends, and what it brought is held.
LEMMA PageDoneKept == ASSUME IInv, FeedInv, PageDone PROVE FeedInv'
  <1>1. /\ Applying /\ agenda # <<>> /\ Head(agenda) = "apply" /\ op.k = "idle" /\ page.at >= page.end
        /\ UNCHANGED <<moduleVars, session, todo, listed, rec, op>>
        /\ lastSeq' = IF page.end > page.pos THEN page.end ELSE lastSeq
        /\ page' = [page EXCEPT !.pos = IF page.end > page.pos THEN page.end ELSE @]
        /\ agenda' = IF page.more THEN CatchUp \o Tail(agenda) ELSE Tail(agenda)
    BY QuietIs DEF PageDone, Doing, Agenda, Applying, NoDecision
  <1>2. /\ FeedSays /\ Held /\ Placed /\ Cursor /\ FeedOK /\ PageOK
        /\ page.end <= Len(feed) /\ agenda \in Seq(Jobs) /\ Ordered(agenda)
    BY IInvIs, ModuleOKIs DEF FeedInv, WorkOK, Core, Types
  <1>3. lastSeq \in Nat /\ page.at \in Nat /\ page.end \in Nat /\ Len(feed) \in Nat /\ page.pos = lastSeq
        /\ lastSeq <= page.at /\ page.at <= page.end
    BY <1>1, <1>2, ReachedIs DEF PageOK, Cursor
  <1>4. lastSeq' = page.end /\ page'.pos = page.end /\ Reached = page.end
    BY <1>1, <1>2, <1>3 DEF PageOK, Reached
  <1>5. /\ \A d, m : Behind(d, m)' <=> Behind(d, m)
        /\ \A d, p : Was(d, p)' <=> Was(d, p)
        /\ \A d : Current(d)' = Current(d)
    BY <1>1, SameModule DEF moduleVars
  <1>6. \A i \in 1..Len(Tail(agenda)) : Tail(agenda)[i] \notin {"read", "apply"}
    BY <1>1, <1>2, TailFirst DEF Cursor
  <1>7. Tail(agenda) \in Seq(Jobs) /\ ReadFirst(Tail(agenda))
    BY <1>1, <1>2, TailOrdered, TailFirst DEF Cursor
  <1>8. Tail(agenda) # <<>> => Head(Tail(agenda)) \notin {"read", "apply"} \cup Followers
    <2>1. Tail(agenda) # <<>> /\ Head(Tail(agenda)) \in Followers => Head(agenda) = Before(Head(Tail(agenda)))
      BY <1>1, <1>2, TailOrdered
    <2>2. Tail(agenda) # <<>> => 1 \in 1..Len(Tail(agenda)) /\ Head(Tail(agenda)) = Tail(agenda)[1]
      BY <1>7
    <2> QED
      BY <1>1, <1>6, <2>1, <2>2 DEF Followers, Before
  <1>9. ReadFirst(agenda)' /\ (agenda' # <<>> => Head(agenda') \notin {"apply"} \cup Followers)
    <2>1. CASE page.more
      <3>1. agenda' = CatchUp \o Tail(agenda)
        BY <1>1, <2>1
      <3>2. ReadFirst(CatchUp \o Tail(agenda)) /\ Head(CatchUp \o Tail(agenda)) = "read"
        BY <1>6, <1>7, PlansReadFirst
      <3> QED
        BY <3>1, <3>2 DEF ReadFirst, Followers
    <2>2. CASE ~page.more
      <3>1. agenda' = Tail(agenda)
        BY <1>1, <2>2
      <3> QED
        BY <1>7, <1>8, <3>1 DEF ReadFirst
    <2> QED
      BY <2>1, <2>2
  <1>10. ~Applying' /\ Reached' = page.end
    BY <1>4, <1>9 DEF Applying, Reached
  <1>11. Cursor'
    BY <1>1, <1>2, <1>4, <1>9, <1>10 DEF Cursor, moduleVars
  <1>12. Held'
    <2>1. \A d \in Docs : Behind(d, Reached) => Has(d)
      BY <1>1, <1>2, NotComing DEF Held
    <2>2. \A d : Has(d)' <=> Has(d)
      BY <1>1, <1>5 DEF Has, Known
    <2> QED
      BY <1>4, <1>5, <1>10, <2>1, <2>2 DEF Held
  <1>13. Harmless'
    BY <1>1, NoHarm
  <1>14. Listing'
    BY <1>9 DEF Listing, Followers
  <1>15. FeedSays' /\ Placed'
    <2>1. FeedSays'
      BY <1>1, <1>2, IInvIs, FeedSaysOn, SameModuleStep DEF moduleVars
    <2> QED
      BY <1>1, <1>2, <1>5, <2>1 DEF Placed, Known
  <1> QED
    BY <1>11, <1>12, <1>13, <1>14, <1>15 DEF FeedInv

\* A job of the agenda.
LEMMA AgendaStepKept == ASSUME IInv, FeedInv, AgendaStep, ~RetryReturnsAny PROVE FeedInv'
  BY ListKept, MissingKept, OtherJobsKept, ReadPageKept, ApplyKept, PageDoneKept, ReconcileKept,
     NotListedKept, ScanFileKept DEF AgendaStep

\* A notification takes away no document that was looked at.
LEMMA NoteKept == ASSUME IInv, AllPast, FeedInv, HandleNote PROVE FeedInv'
  <1>1. /\ op.k = "idle" /\ agenda = <<>> /\ session = "up" /\ notes # <<>>
        /\ UNCHANGED <<moduleVars, session, todo, listed, page, lastSeq>>
    BY QuietIs DEF HandleNote, Selecting, SeqAfterNote
  <1>2. /\ FeedSays /\ Held /\ Placed /\ Cursor /\ RecOK /\ HistOK /\ notes \in Seq(Notices)
    BY IInvIs, ModuleOKIs DEF FeedInv, FeedOK, Core, Types
  <1>3. PICK n \in Notices : n = Head(notes) /\ Past(n, hist, doc)
    BY <1>1, <1>2 DEF AllPast, PastAll
  <1>4. /\ agenda' \in {Full, agenda}
        /\ \/ NoDecision
           \/ n.type = "deleted" /\ RemoteDeleted(n.id, n.ver)
           \/ n.type = "changed" /\ RemoteChanged(n.id, n.path, n.ver)
           \/ Ignore
           \/ LocalChanged(rec[n.id].path)
    BY <1>3 DEF HandleNote
  <1>5. ReadFirst(agenda)' /\ (agenda' # <<>> => Head(agenda') = "list")
    BY <1>1, <1>4, PlansReadFirst, PlansOrdered DEF ReadFirst
  <1>6. ~Applying /\ ~Applying' /\ Reached' = Reached /\ Reached = lastSeq
    BY <1>1, <1>5 DEF Applying, Reached
  <1>7. Cursor'
    BY <1>1, <1>2, <1>5, <1>6 DEF Cursor, moduleVars
  <1>8. Listing'
    BY <1>5 DEF Listing
  <1>9. RecordsStay /\ Harmless'
    <2>1. CASE NoDecision \/ Ignore
      <3>1. rec' = rec /\ op'.k = "idle"
        BY <1>1, <2>1, IdleIs DEF NoDecision, Ignore
      <3> QED
        BY <3>1, NoHarm, SameRecords
    <2>2. CASE n.type = "deleted" /\ RemoteDeleted(n.id, n.ver)
      <3>1. n.id \in Docs
        BY <1>3, <2>2 DEF Notices, Entries
      <3>2. rec' = rec /\ (op'.k = "idle" \/ (op'.k \in Takes /\ op'.id = n.id))
        BY <2>2, DeletedTakes
      <3>3. CASE op'.k = "idle"
        BY <3>2, <3>3, NoHarm, SameRecords
      <3>4. CASE op'.k \in Takes /\ op'.id = n.id
        <4>1. ~(Readable(n.id) /\ rec[n.id].ver = Current(n.id))
          BY <1>2, <1>3, <2>2, <3>4, DeletedCurrent DEF Takes
        <4>2. ~Behind(n.id, Reached)
          <5>1. Behind(n.id, Reached) => Has(n.id) /\ doc[n.id].life = "live" /\ doc[n.id].readable
            BY <1>2, <1>6, <3>1 DEF Held, Behind, FeedSays, AllOpen
          <5> QED
            BY <4>1, <5>1 DEF Has, Readable
        <4>3. UNCHANGED <<doc, hist, feed>>
          BY <1>1 DEF moduleVars
        <4> QED
          BY <1>6, <3>2, <3>4, <4>2, <4>3, TakesHarmless, SameRecords
      <3> QED
        BY <3>2, <3>3, <3>4
    <2>3. CASE RemoteChanged(n.id, n.path, n.ver)
      <3>1. rec' = rec /\ op'.k \in {"idle", "get"}
        BY <2>3, IdleIs DEF RemoteChanged, Ignore, Fetch, Step
      <3> QED
        BY <3>1, NoHarm, SameRecords
    <2>4. CASE LocalChanged(rec[n.id].path)
      BY <1>1, <1>6, <2>4, LocalKept DEF moduleVars
    <2> QED
      BY <1>4, <2>1, <2>2, <2>3, <2>4
  <1>10. ModuleStep
    BY <1>1, <1>2, SameModuleStep DEF moduleVars
  <1> QED
    BY <1>1, <1>6, <1>7, <1>8, <1>9, <1>10, Kept, NotComing

\* A plan that begins: the feed is read from lastSeq.
LEMMA PlanKept ==
    ASSUME IInv, FeedInv, agenda = <<>>, session' # "off", UNCHANGED <<moduleVars, rec, op, lastSeq>>,
           page'.pos = lastSeq, agenda' \in {Full, CatchUp, CatchUp \o Scan}
    PROVE FeedInv'
  <1>1. ReadFirst(agenda)' /\ agenda' # <<>> /\ Head(agenda') \in {"list", "read"}
    BY PlansReadFirst, PlansOrdered DEF ReadFirst
  <1>2. Reached' = Reached
    BY <1>1 DEF Reached, Applying
  <1>3. Cursor'
    BY <1>1 DEF FeedInv, Cursor, Applying, moduleVars
  <1>4. Listing'
    BY <1>1 DEF Listing
  <1> QED
    BY <1>2, <1>3, <1>4, JobKept

\* A step of the session and its loop.
LEMMA LoopStepKept == ASSUME IInv, AllPast, FeedInv, LoopStep PROVE FeedInv'
  <1>1. CASE StartSession
    <2>1. agenda = <<>>
      BY <1>1 DEF FeedInv, Cursor, StartSession
    <2>2. UNCHANGED <<moduleVars, rec, op, lastSeq>> /\ session' # "off" /\ page'.pos = lastSeq
          /\ agenda' \in {Full, CatchUp \o Scan}
      BY <1>1 DEF StartSession, NoDecision, NoPage
    <2> QED
      BY <2>1, <2>2, PlanKept
  <1>2. CASE Tick \/ Reconnected \/ FullCheck
    <2>1. UNCHANGED <<moduleVars, rec, op, lastSeq>> /\ session' # "off" /\ page'.pos = lastSeq
          /\ agenda = <<>> /\ agenda' \in {Full, CatchUp, CatchUp \o Scan}
      BY <1>2 DEF Tick, Reconnected, FullCheck, Selecting, Begin, NoDecision, NoPage
    <2> QED
      BY <2>1, PlanKept
  <1>3. CASE Online
    <2>1. UNCHANGED <<moduleVars, rec, op, lastSeq, agenda, todo, listed, page>> /\ agenda = <<>>
      BY <1>3 DEF Online, NoDecision, loopVars
    <2>2. Reached' = Reached /\ Listing' /\ Cursor'
      BY <2>1 DEF Reached, Applying, Listing, FeedInv, Cursor, moduleVars
    <2> QED
      BY <2>1, <2>2, JobKept
  <1>4. ASSUME NEW p \in Paths, HandleDue(p) PROVE FeedInv'
    <2>1. op.k = "idle" /\ LocalChanged(p) /\ UNCHANGED <<moduleVars, session, loopVars, lastSeq>>
      BY <1>4, QuietIs DEF HandleDue, Selecting
    <2>2. Reached' = Reached
      BY <2>1 DEF Reached, Applying, loopVars
    <2>3. RecordsStay /\ Harmless'
      BY <2>1, <2>2, LocalKept DEF moduleVars
    <2> QED
      BY <2>1, <2>3, OpKept, NotComing
  <1> QED
    BY <1>1, <1>2, <1>3, <1>4, NoteKept DEF LoopStep

\* What goes wrong, but for requests that fail without ending the session.
LEMMA MisfortuneKept ==
    ASSUME IInv, FeedInv, Misfortune, "error" \notin FaultKinds PROVE FeedInv'
  <1>1. ModuleOK /\ HistFits /\ Core /\ FeedSays
    BY IInvIs DEF FeedInv
  <1>2. ASSUME UNCHANGED moduleVars PROVE ModuleStep
    BY <1>1, <1>2, SameModuleStep DEF moduleVars
  <1>3. CASE Crash \/ Unreachable
    <2>1. UNCHANGED moduleVars /\ EndSession /\ rec' = rec /\ lastSeq' = lastSeq
      BY <1>3 DEF Crash, Unreachable, Fault
    <2> QED
      BY <1>2, <2>1, EndKept
  <1>4. CASE ReplyLost
    <2>1. Done /\ EndSession /\ rec' = rec /\ lastSeq' = lastSeq
      BY <1>4 DEF ReplyLost, Fault
    <2>2. ModuleStep
      BY <1>1, <2>1, DoneStep
    <2> QED
      BY <2>1, <2>2, EndKept
  <1>5. CASE FailsAfterDoing
    <2>1. Done /\ op'.k = "idle" /\ UNCHANGED <<rec, session, loopVars, lastSeq>>
      BY <1>5, IdleIs DEF FailsAfterDoing, Fault
    <2>2. op.k \in {"update", "create"}
      BY <2>1 DEF Done
    <2> QED
      BY <2>1, <2>2, AskedKept
  <1>6. CASE Refused
    <2>1. op.k \in {"update", "create"} /\ op'.k = "idle" /\ rec' = rec
          /\ UNCHANGED <<moduleVars, session, loopVars, lastSeq>>
      BY <1>6, IdleIs DEF Refused, Fault
    <2> QED
      BY <2>1, OpKept, NoHarm, NotComing, SameRecords
  <1>7. CASE ListingFails
    <2>1. UNCHANGED <<moduleVars, rec, lastSeq>> /\ (Doing("list") \/ Doing("read"))
      BY <1>7 DEF ListingFails, Fault
    <2>2. CASE EndSession
      BY <1>2, <2>1, <2>2, EndKept
    <2>3. CASE agenda' = <<>> /\ UNCHANGED <<session, notes, todo, op, dirty, page, listed>>
      <3>1. Reached' = Reached
        BY <2>1, <2>3 DEF Reached, Applying, Doing
      <3>2. Cursor' /\ Listing'
        <4>1. ReadFirst(agenda)'
          BY <2>3, PlansReadFirst DEF ReadFirst
        <4> QED
          BY <2>1, <2>3, <4>1 DEF FeedInv, Cursor, Listing, Applying, moduleVars
      <3> QED
        BY <2>1, <2>3, <3>1, <3>2, JobKept
    <2> QED
      BY <1>7, <2>2, <2>3 DEF ListingFails
  <1>8. ~RequestFails
    BY DEF RequestFails, Fault
  <1> QED
    BY <1>3, <1>4, <1>5, <1>6, <1>7, <1>8 DEF Misfortune

\* Every step.
LEMMA StepKept ==
    ASSUME IInv, AllPast, FeedInv, [Next]_vars, ~RetryReturnsAny,
           OtherKinds \cap {"trim", "access"} = {}, "error" \notin FaultKinds
    PROVE FeedInv'
  <1>1. CASE Engine
    BY <1>1, OpStepKept, AgendaStepKept, LoopStepKept DEF Engine
  <1>2. CASE Misfortune
    BY <1>2, MisfortuneKept
  <1>3. CASE People \/ UNCHANGED vars
    <2>1. UNCHANGED <<doc, hist, feed, floor, rec, op, session, agenda, todo, listed, page, lastSeq>>
      BY <1>3 DEF People, PersonSaves, PersonTakesCopy, PersonRemoves, PersonRemovesCopy, Person,
                  vars, moduleVars, dbVars, loopVars
    <2>2. ModuleStep
      BY <2>1, SameModuleStep DEF FeedInv
    <2> QED
      BY <2>1, <2>2, KeptByModule
  <1>4. CASE OthersAct
    <2>1. ModuleStep
      BY <1>4, OthersStep, IInvIs DEF OthersAct, FeedInv
    <2>2. UNCHANGED <<rec, op, session, agenda, todo, listed, page, lastSeq>>
      BY <1>4 DEF OthersAct, dbVars, loopVars
    <2> QED
      BY <2>1, <2>2, KeptByModule
  <1> QED
    BY <1>1, <1>2, <1>3, <1>4 DEF Next

\* At first nothing was announced, read or recorded.
LEMMA FeedInit == Init => FeedInv
  <1> SUFFICES ASSUME Init PROVE FeedInv
    OBVIOUS
  <1>1. /\ feed = <<>> /\ floor = 0 /\ lastSeq = 0 /\ agenda = <<>> /\ op.k = "idle"
        /\ \A d \in Docs : /\ ~Known(d) /\ doc[d].readable /\ doc[d].path = Home[d]
                           /\ doc[d].life # "unborn" => d \in Initial
                           /\ doc[d].life = "live" => d \in Initial
    BY IdleIs DEF Init, ModuleInit, Known
  <1>2. Len(feed) = 0 /\ 1..Len(feed) = {}
    BY <1>1
  <1>3. FeedSays
    BY <1>1, <1>2, HomeAssumption DEF FeedSays, AllOpen, Apart, SaysWhere, SaysHow, Was
  <1>4. Held /\ Placed /\ Harmless /\ Listing
    BY <1>1, <1>2 DEF Held, Behind, Placed, Harmless, Takes, Brings, Lands, Listing
  <1>5. Cursor
    BY <1>1, <1>2, PlansReadFirst DEF Cursor, Applying
  <1> QED
    BY <1>3, <1>4, <1>5 DEF FeedInv

\* What was looked at and is held, is held as the feed says.
LEMMA HeldIsApplied == ASSUME IInv, FeedInv PROVE FeedApplied
  <1> SUFFICES ASSUME NEW d \in Docs, NEW i \in 1..Len(feed), Readable(d), NeverMoved(d),
                      i <= lastSeq, feed[i].id = d, \A j \in (i + 1)..Len(feed) : feed[j].id # d
               PROVE Known(d) /\ rec[d].ver = feed[i].ver
    BY DEF FeedApplied
  <1>1. FeedSays /\ Held /\ Len(feed) \in Nat /\ lastSeq \in Nat
    BY ReachedIs DEF FeedInv
  <1>2. ASSUME NEW j \in 1..Len(feed), feed[j].id = d PROVE j <= lastSeq
    <2>1. j \notin (i + 1)..Len(feed)
      BY <1>2
    <2> QED
      BY <1>1, <2>1
  <1>3. Behind(d, lastSeq)
    BY <1>2 DEF Behind, Readable
  <1>4. LastEntry(d, i)
    BY DEF LastEntry
  <1> QED
    BY <1>1, <1>3, <1>4 DEF Held, Has, FeedSays, SaysHow, SaysCurrent, Readable

\* The feed is never read past a change that was not applied (engine.go:1137-1154):
\* whatever is lost, crashes, is renamed or conflicts, a document whose last entry
\* lies before lastSeq is in the database at that version.
THEOREM FeedIsApplied ==
    /\ ~RetryReturnsAny /\ DeleteCarriesVersion
    /\ OtherKinds \cap {"trim", "access"} = {} /\ "error" \notin FaultKinds
    => (Spec => []FeedApplied)
  <1> SUFFICES ASSUME ~RetryReturnsAny, DeleteCarriesVersion,
                      OtherKinds \cap {"trim", "access"} = {}, "error" \notin FaultKinds
               PROVE Spec => []FeedApplied
    OBVIOUS
  <1>1. Init => AllPast
    BY DEF Init, ModuleInit, AllPast, PastAll
  <1>2. IInv /\ AllPast /\ [Next]_vars => AllPast'
    BY StepPast
  <1>3. IInv /\ AllPast /\ FeedInv /\ [Next]_vars => FeedInv'
    BY StepKept
  <1>4. IInv /\ FeedInv => FeedApplied
    BY HeldIsApplied
  <1> QED
    BY <1>1, <1>2, <1>3, <1>4, FeedInit, Invariant, PTL DEF Spec

-----------------------------------------------------------------------------
(* An upload replaces only what the person saw.                            *)

\* Ids are drawn at random (ids.go NewID): nobody else's new document gets one that
\* is reserved here.
IdsApart == \A d \in Docs, p \in Paths : OtherCreates(d, p) => \A q \in Paths : pending[q] # d

\* The module is past version v of d, or d is gone.
Stale(d, v) == doc[d].life # "live" \/ v < Current(d)
StaleRecord(d) == Stale(d, rec[d].ver)

\* The person saw x, or has it still to see in the file at p or in the copy conf.
Shown(p, conf, x) == \/ x \in seen
                     \/ file[p] = x
                     \/ conf # None /\ \E c \in copies : c.name = conf /\ c.body = x

AllReadable == \A d \in Docs : doc[d].readable

\* A document has its record where it is filed, which is nobody else's place.
Rooted ==
    /\ \A d \in Docs : Known(d) => rec[d].path = doc[d].path
    /\ \A d, e \in Docs : d # e /\ Known(d) /\ Known(e) => rec[d].path # rec[e].path
    /\ \A d \in Docs : Known(d) /\ rec[d].conf # None => rec[d].conf = CopyName(rec[d].path, rec[d].ver)

\* What a record holds was seen or can be, unless no upload on it would be taken.
Backed == \A d \in Docs : Known(d) => StaleRecord(d) \/ Shown(rec[d].path, rec[d].conf, rec[d].sum)

\* An id is reserved for one path, where its document then is.
Reserved ==
    /\ \A p \in Paths : pending[p] # None /\ hist[pending[p]] # <<>> => doc[pending[p]].path = p
    /\ \A p, q \in Paths : p # q /\ pending[p] # None => pending[p] # pending[q]

Fetched == {"got", "write"}
Sent == {"create", "clear", "update", "put"}
Filed == {"relist", "got", "write", "put", "clear", "update"}

\* The operation at hand is about a document where it is filed, ...
InPlace ==
    /\ op.k = "create" => pending[op.path] = op.id
    /\ op.k \notin {"moved:relist", "moved:got"}
    /\ op.k \in Filed => hist[op.id] # <<>> /\ doc[op.id].path = op.path
    /\ op.conf # None => op.k = "put" /\ op.conf = CopyName(op.path, op.ver)

\* ... replaces no file that a later upload might rest on, ...
Replaceable ==
    /\ op.k \in Fetched => /\ Known(op.id) => rec[op.id].ver <= op.ver
                           /\ \A d \in Docs : d # op.id /\ Known(d) /\ rec[d].path = op.path
                                              => StaleRecord(d)
    /\ op.k = "rm" => Known(op.id) /\ rec[op.id].path = op.path /\ StaleRecord(op.id)

\* ... and sends what the person saw, on what they saw.
SentAsSeen ==
    /\ op.k \in Sent => Shown(op.path, op.conf, op.body)
    /\ op.k = "update" => /\ op.ver \in Versions(op.id)
                          /\ Stale(op.id, op.ver) \/ hist[op.id][op.ver] \in seen

\* What a listing lacks is gone, and what it has is where it was.
ListedRight ==
    agenda # <<>> =>
        /\ Head(agenda) = "reconcile" =>
            /\ \A d \in Docs : IF listed[d] = None THEN Known(d) => StaleRecord(d)
                               ELSE hist[d] # <<>> /\ doc[d].path = listed[d][1]
            /\ op.k # "idle" => listed[op.id] # None
        /\ Head(agenda) = "missing" => \A d \in todo : Known(d) => StaleRecord(d)

Sound == Rooted /\ Backed
Working == InPlace /\ Replaceable /\ SentAsSeen
SeenInv == AllReadable /\ Apart /\ Sound /\ Reserved /\ Working /\ ListedRight

\* What a step leaves of the module: versions are only added, a document that has
\* any stays where it is, and those that live are apart.
Goes(d) == hist[d] # <<>> => hist'[d] # <<>> /\ doc'[d].path = doc[d].path
ModuleGoesOn == Grows /\ Ages /\ AllReadable' /\ Apart' /\ \A d \in Docs : Goes(d)

LEMMA SameGoesOn ==
    ASSUME ModuleOK, AllReadable, Apart, UNCHANGED <<doc, hist>> PROVE ModuleGoesOn
  <1>1. Ages
    BY StillAges, ModuleOKIs
  <1> QED
    BY <1>1 DEF ModuleGoesOn, Grows, AllReadable, Apart, Goes

\* A document got its first version, or its next, and is filed where no other live
\* one is.
LEMMA OneGoesOn ==
    ASSUME ModuleOK, HistOK', Grows, AllReadable, Apart, NEW d \in Docs, NEW x,
           \/ hist' = [hist EXCEPT ![d] = Append(@, x)] /\ doc'[d].path = doc[d].path
           \/ hist[d] = <<>> /\ hist' = [hist EXCEPT ![d] = <<x>>],
           (doc[d].life = "live" /\ doc'[d].path = doc[d].path) \/ ~Taken(doc'[d].path),
           \A c \in Docs : doc'[c].readable = doc[c].readable,
           \A c \in Docs \ {d} : doc'[c].life = doc[c].life /\ doc'[c].path = doc[c].path
    PROVE ModuleGoesOn
  <1>1. HistOK /\ \A c \in Docs \ {d} : hist'[c] = hist[c]
    BY ModuleOKIs DEF HistOK
  <1>2. Ages
    BY <1>1, OneAges
  <1>3. AllReadable'
    BY DEF AllReadable
  <1>4. Apart'
    BY <1>1, StillApart DEF Untouched
  <1>5. Goes(d)
    <2>1. CASE hist' = [hist EXCEPT ![d] = Append(@, x)] /\ doc'[d].path = doc[d].path
      <3>1. hist[d] \in Seq(Contents) /\ hist'[d] = Append(hist[d], x)
        BY <1>1, <2>1 DEF HistOK
      <3>2. hist'[d] # <<>>
        BY <3>1
      <3> QED
        BY <2>1, <3>2 DEF Goes
    <2> QED
      BY <2>1 DEF Goes
  <1>6. \A c \in Docs : Goes(c)
    BY <1>1, <1>5 DEF Goes
  <1> QED
    BY <1>2, <1>3, <1>4, <1>6 DEF ModuleGoesOn

\* Nobody else moves a document or changes who may read it.
LEMMA OthersGoOn ==
    ASSUME ModuleOK, HistFits, AllReadable, Apart, OtherPeople,
           OtherKinds \cap {"move", "access"} = {}
    PROVE ModuleGoesOn
  <1> USE DEF Other
  <1>1. DocOK /\ HistOK /\ HistOK' /\ Grows
    BY ModuleOKIs, OtherPeopleOK DEF ModuleOK, HistOK
  <1>2. ASSUME NEW d \in Docs, NEW p \in Paths, OtherCreates(d, p) PROVE ModuleGoesOn
    <2>1. /\ hist[d] = <<>> /\ hist' = [hist EXCEPT ![d] = <<fresh>>] /\ ~Taken(p)
          /\ doc'[d].path = p
          /\ \A c \in Docs : doc'[c].readable = doc[c].readable
          /\ \A c \in Docs \ {d} : doc'[c].life = doc[c].life /\ doc'[c].path = doc[c].path
      BY <1>1, <1>2 DEF OtherCreates, HistFits, DocOK
    <2> QED
      BY <1>1, <2>1, OneGoesOn
  <1>3. ASSUME NEW d \in Docs, OtherSaves(d) \/ OtherRestores(d) PROVE ModuleGoesOn
    <2>1. PICK x : hist' = [hist EXCEPT ![d] = Append(@, x)]
      BY <1>3 DEF OtherSaves, OtherRestores
    <2>2. /\ \A c \in Docs : doc'[c].readable = doc[c].readable /\ doc'[c].path = doc[c].path
          /\ \A c \in Docs \ {d} : doc'[c].life = doc[c].life
      BY <1>1, <1>3 DEF OtherSaves, OtherRestores, DocOK
    <2>3. doc[d].life = "live" \/ ~Taken(doc[d].path)
      BY <1>3 DEF OtherSaves, OtherRestores
    <2> QED
      BY <1>1, <2>1, <2>2, <2>3, OneGoesOn
  <1>4. ASSUME NEW d \in Docs, OtherDeletes(d) \/ OtherLocks(d) \/ LockEnds(d) PROVE ModuleGoesOn
    <2>1. /\ hist' = hist
          /\ \A c \in Docs : /\ doc'[c].readable = doc[c].readable /\ doc'[c].path = doc[c].path
                             /\ doc'[c].life = "live" => doc[c].life = "live"
      BY <1>1, <1>4 DEF OtherDeletes, OtherLocks, LockEnds, DocOK
    <2>2. \A c \in Docs : Len(hist[c]) \in Nat
      BY <1>1 DEF HistOK
    <2> QED
      BY <1>1, <2>1, <2>2 DEF ModuleGoesOn, Ages, AllReadable, Apart, Goes
  <1>5. CASE TrimFeed
    BY <1>5, SameGoesOn DEF TrimFeed
  <1>6. \A d \in Docs : ~OtherChangesAccess(d) /\ \A p \in Paths : ~OtherMoves(d, p)
    BY DEF OtherChangesAccess, OtherMoves
  <1> QED
    BY <1>2, <1>3, <1>4, <1>5, <1>6 DEF OtherPeople

\* What the engine asked for was done.
LEMMA DoneGoesOn ==
    ASSUME ModuleOK, HistFits, Core, AllReadable, Apart, Done, NEW d, d = op.id
    PROVE /\ ModuleGoesOn /\ d \in Docs /\ op.path \in Paths
          /\ hist'[d] # <<>> /\ \A c \in Docs \ {d} : hist'[c] = hist[c]
          /\ op.k = "create" => hist[d] = <<>> /\ doc'[d].path = op.path
  <1>1. /\ DocOK /\ HistOK /\ HistOK' /\ Grows
        /\ d \in Docs /\ op.path \in Paths /\ op.body \in Contents
    BY ModuleOKIs, DoneOK, OpIs DEF Done, Core, OpFits
  <1>2. PICK x \in Contents, p \in Paths : x = op.body /\ p = op.path
    BY <1>1
  <1>3. CASE op.k = "update" /\ SaveReply(d, op.ver, op.body) = "saved" /\ ModuleSaves(d, op.body)
    <2>1. doc[d].life = "live" /\ hist[d] # <<>>
      BY <1>1, <1>3, SaveReplyIs
    <2>2. hist' = [hist EXCEPT ![d] = Append(@, x)] /\ doc' = doc
      BY <1>2, <1>3 DEF ModuleSaves
    <2>3. ModuleGoesOn
      BY <1>1, <2>1, <2>2, OneGoesOn
    <2>4. hist'[d] # <<>> /\ \A c \in Docs \ {d} : hist'[c] = hist[c]
      BY <1>1, <2>1, <2>2, <2>3 DEF ModuleGoesOn, Goes, HistOK
    <2> QED
      BY <1>1, <1>3, <2>3, <2>4
  <1>4. CASE /\ op.k = "create" /\ CreateReply(d, op.path, op.body) = "created"
             /\ ModuleCreates(d, op.path, op.body)
    <2>1. ~Taken(p) /\ hist[d] = <<>>
      BY <1>2, <1>4 DEF CreateReply
    <2>2. hist' = [hist EXCEPT ![d] = <<x>>] /\ doc' = [doc EXCEPT ![d].life = "live", ![d].path = p]
      BY <1>2, <1>4 DEF ModuleCreates
    <2>3. /\ doc'[d].path = p
          /\ \A c \in Docs : doc'[c].readable = doc[c].readable
          /\ \A c \in Docs \ {d} : doc'[c].life = doc[c].life /\ doc'[c].path = doc[c].path
      BY <1>1, <2>2 DEF DocOK
    <2>4. ModuleGoesOn
      BY <1>1, <2>1, <2>2, <2>3, OneGoesOn
    <2>5. hist'[d] # <<>> /\ \A c \in Docs \ {d} : hist'[c] = hist[c]
      BY <1>1, <2>2 DEF HistOK
    <2> QED
      BY <1>1, <1>2, <1>4, <2>1, <2>3, <2>4, <2>5
  <1> QED
    BY <1>3, <1>4 DEF Done

-----------------------------------------------------------------------------
(* What stays.                                                             *)

\* A record is of a version the module has, and holds its content.
LEMMA KnownIs ==
    ASSUME IInv, ~RetryReturnsAny, NEW d \in Docs, Known(d)
    PROVE /\ rec[d] \in Records /\ rec[d].path \in Paths /\ rec[d].ver \in Nat
          /\ rec[d].sum \in Contents /\ rec[d].sum # Nothing
          /\ hist[d] # <<>> /\ Current(d) \in Nat /\ rec[d].ver <= Current(d) /\ 0 < rec[d].ver
          /\ Honest(d, rec[d].ver, rec[d].sum) /\ rec[d].ver \in Versions(d)
  <1>1. HistOK /\ RecOK /\ RecordHonest
    BY IInvIs, ModuleOKIs DEF Core, Types, IInv, Honesty
  <1>2. Honest(d, rec[d].ver, rec[d].sum)
    BY <1>1 DEF RecordHonest
  <1>3. rec[d] \in Records /\ rec[d].path \in Paths /\ rec[d].ver \in Nat /\ rec[d].sum \in Contents
    BY <1>1, KnownOK
  <1>4. hist[d] \in Seq(Contents) /\ rec[d].ver \in DOMAIN hist[d]
    BY <1>1, <1>2 DEF Honest, Versions, HistOK
  <1>5. hist[d] # <<>> /\ Len(hist[d]) \in Nat /\ rec[d].ver <= Len(hist[d]) /\ 0 < rec[d].ver
    BY <1>4
  <1>6. rec[d].sum # Nothing
    BY <1>3 DEF Contents, Nothing
  <1> QED
    BY <1>2, <1>3, <1>5, <1>6 DEF Honest, Current

\* A version the module is past stays so.
LEMMA StaleStays ==
    ASSUME HistOK, HistOK', ModuleGoesOn, NEW d \in Docs, NEW v \in Versions(d), Stale(d, v)
    PROVE Stale(d, v)'
  <1>1. Len(hist[d]) \in Nat /\ Len(hist'[d]) \in Nat /\ v \in Nat /\ v <= Len(hist[d]) /\ 0 < v
    BY DEF HistOK, Versions
  <1>2. /\ Len(hist[d]) <= Len(hist'[d])
        /\ doc'[d].life = "live" => \/ doc[d].life = "live"
                                    \/ Len(hist[d]) < Len(hist'[d]) \/ Len(hist[d]) = 0
    BY DEF ModuleGoesOn, Ages
  <1> QED
    BY <1>1, <1>2 DEF Stale, Current

\* What leaves the folder was seen.
StillThere == /\ seen \subseteq seen'
              /\ \A p \in Paths : file'[p] = file[p] \/ file[p] \in seen' \cup {Nothing}
              /\ \A c \in copies : c \in copies' \/ c.body \in seen'

LEMMA SameFolder == ASSUME UNCHANGED <<file, copies, seen>> PROVE StillThere
  BY DEF StillThere

\* x can still be seen, if it could.
Stays(p, conf, x) ==
    Shown(p, conf, x) => \/ x \in seen'
                         \/ file'[p] = x
                         \/ conf # None /\ \E c \in copies' : c.name = conf /\ c.body = x

LEMMA ShownStays ==
    ASSUME StillThere, NEW p \in Paths, NEW conf, NEW x, x # Nothing PROVE Stays(p, conf, x)
  <1>1. CASE x \in seen
    BY <1>1 DEF StillThere, Stays
  <1>2. CASE file[p] = x
    BY <1>2 DEF StillThere, Stays
  <1>3. CASE conf # None /\ \E c \in copies : c.name = conf /\ c.body = x
    BY <1>3 DEF StillThere, Stays
  <1> QED
    BY <1>1, <1>2, <1>3 DEF Shown, Stays

\* The records that stay and that an upload could still rest on keep what they rest on.
KeepsShown == \A d \in Docs : Known(d) /\ rec'[d] = rec[d]
                              => StaleRecord(d) \/ Stays(rec[d].path, rec[d].conf, rec[d].sum)

LEMMA StillKeeps == ASSUME IInv, ~RetryReturnsAny, StillThere PROVE KeepsShown
  <1>1. ASSUME NEW d \in Docs, Known(d) PROVE Stays(rec[d].path, rec[d].conf, rec[d].sum)
    <2>1. PICK p, conf, x : p \in Paths /\ p = rec[d].path /\ conf = rec[d].conf /\ x = rec[d].sum
      BY <1>1, KnownIs
    <2>2. Stays(p, conf, x)
      BY <1>1, <2>1, KnownIs, ShownStays
    <2> QED
      BY <2>1, <2>2
  <1> QED
    BY <1>1 DEF KeepsShown

\* A record that stays is right still.
LEMMA RecordStays ==
    ASSUME IInv, HistOK', ~RetryReturnsAny, SeenInv, ModuleGoesOn, KeepsShown,
           NEW d \in Docs, Known(d)', rec'[d] = rec[d]
    PROVE /\ rec'[d].path = doc'[d].path
          /\ rec'[d].conf # None => rec'[d].conf = CopyName(rec'[d].path, rec'[d].ver)
          /\ StaleRecord(d)' \/ Shown(rec[d].path, rec[d].conf, rec[d].sum)'
          /\ StaleRecord(d) => StaleRecord(d)'
  <1>1. Known(d) /\ HistOK
    BY IInvIs, ModuleOKIs DEF Known
  <1>2. hist[d] # <<>> /\ rec[d].ver \in Versions(d)
    BY <1>1, KnownIs
  <1>3. /\ rec[d].path = doc[d].path
        /\ rec[d].conf # None => rec[d].conf = CopyName(rec[d].path, rec[d].ver)
        /\ StaleRecord(d) \/ Shown(rec[d].path, rec[d].conf, rec[d].sum)
    BY <1>1 DEF SeenInv, Sound, Rooted, Backed
  <1>4. doc'[d].path = doc[d].path
    BY <1>2 DEF ModuleGoesOn, Goes
  <1>5. StaleRecord(d) => StaleRecord(d)'
    BY <1>1, <1>2, StaleStays DEF StaleRecord, Stale, Current
  <1>6. StaleRecord(d) \/ Shown(rec[d].path, rec[d].conf, rec[d].sum)'
    BY <1>1, <1>3 DEF KeepsShown, Stays, Shown
  <1> QED
    BY <1>3, <1>4, <1>5, <1>6 DEF CopyName

\* Records that stay or go stay right.
LEMMA SoundStays ==
    ASSUME IInv, HistOK', ~RetryReturnsAny, SeenInv, ModuleGoesOn, KeepsShown,
           \A d \in Docs : rec'[d] \in {None, rec[d]}
    PROVE Sound'
  <1>1. ASSUME NEW d \in Docs, Known(d)' PROVE Known(d) /\ rec'[d] = rec[d]
    BY <1>1 DEF Known
  <1>2. Rooted'
    <2>1. ASSUME NEW d \in Docs, NEW e \in Docs, d # e, Known(d)', Known(e)'
          PROVE rec'[d].path # rec'[e].path
      BY <1>1, <2>1 DEF SeenInv, Sound, Rooted
    <2> QED
      BY <1>1, <2>1, RecordStays DEF Rooted, CopyName
  <1>3. Backed'
    BY <1>1, RecordStays DEF Backed
  <1> QED
    BY <1>2, <1>3 DEF Sound

\* A record is stored where its document is.
LEMMA SoundPut ==
    ASSUME IInv, HistOK', ~RetryReturnsAny, SeenInv, ModuleGoesOn, KeepsShown,
           NEW d \in Docs, NEW r \in Records, PutDoc(d, r), r.path = doc'[d].path,
           r.conf # None => r.conf = CopyName(r.path, r.ver),
           Stale(d, r.ver)' \/ Shown(r.path, r.conf, r.sum)'
    PROVE Sound'
  <1>1. RecOK
    BY IInvIs DEF Core, Types
  <1>2. rec'[d] = r /\ \A e \in Docs \ {d} : rec'[e] \in {None, rec[e]}
    BY <1>1, PutDocOK
  <1>3. ASSUME NEW e \in Docs \ {d}, Known(e)'
        PROVE rec'[e] = rec[e] /\ Known(e) /\ rec[e].path # r.path
    <2>1. rec'[e] = rec[e] /\ Known(e)
      BY <1>2, <1>3 DEF Known
    <2>2. e \notin RecordsAt(r.path)
      BY <1>3, <2>1 DEF PutDoc, Known
    <2> QED
      BY <2>1, <2>2 DEF RecordsAt
  <1>4. Rooted'
    <2>1. ASSUME NEW c \in Docs, NEW e \in Docs, c # e, Known(c)', Known(e)'
          PROVE rec'[c].path # rec'[e].path
      BY <1>2, <1>3, <2>1 DEF SeenInv, Sound, Rooted
    <2>2. ASSUME NEW e \in Docs, Known(e)'
          PROVE /\ rec'[e].path = doc'[e].path
                /\ rec'[e].conf # None => rec'[e].conf = CopyName(rec'[e].path, rec'[e].ver)
      <3>1. CASE e = d
        BY <1>2, <3>1
      <3>2. CASE e # d
        BY <1>3, <2>2, <3>2, RecordStays
      <3> QED
        BY <3>1, <3>2
    <2> QED
      BY <2>1, <2>2 DEF Rooted, CopyName
  <1>5. ASSUME NEW e \in Docs, Known(e)'
        PROVE StaleRecord(e)' \/ Shown(rec[e].path, rec[e].conf, rec[e].sum)'
    <2>1. CASE e = d
      BY <1>2, <2>1 DEF StaleRecord, Stale, Current, Shown
    <2>2. CASE e # d
      BY <1>3, <1>5, <2>2, RecordStays
    <2> QED
      BY <2>1, <2>2
  <1> QED
    BY <1>4, <1>5 DEF Sound, Backed

\* Ids that are reserved stay reserved for the one path; a document that is created
\* under one is created there.
BornInPlace == \A d \in Docs : hist[d] = <<>> /\ hist'[d] # <<>>
                               => \A q \in Paths : pending[q] = d => doc'[d].path = q

LEMMA ReservedStays ==
    ASSUME PendingOK, SeenInv, ModuleGoesOn, BornInPlace,
           \A q \in Paths : pending'[q] \in {None, pending[q]}
    PROVE Reserved'
  <1>1. Reserved
    BY DEF SeenInv
  <1>2. ASSUME NEW p \in Paths, pending'[p] # None, hist'[pending'[p]] # <<>>
        PROVE doc'[pending'[p]].path = p
    <2>1. PICK d \in Docs : pending[p] = d /\ pending'[p] = d
      BY <1>2 DEF PendingOK
    <2>2. CASE hist[d] = <<>>
      BY <1>2, <2>1, <2>2 DEF BornInPlace
    <2>3. CASE hist[d] # <<>>
      <3>1. doc[d].path = p
        BY <1>1, <2>1, <2>3, NoneAssumption DEF Reserved
      <3> QED
        BY <2>1, <2>3, <3>1 DEF ModuleGoesOn, Goes
    <2> QED
      BY <2>2, <2>3
  <1>3. ASSUME NEW p \in Paths, NEW q \in Paths, p # q, pending'[p] # None
        PROVE pending'[p] # pending'[q]
    BY <1>1, <1>3 DEF Reserved
  <1> QED
    BY <1>2, <1>3 DEF Reserved

LEMMA SameBirths == ASSUME UNCHANGED hist PROVE BornInPlace
  BY DEF BornInPlace

\* The operation at hand is left as it is.
LEMMA WorkingStays ==
    ASSUME IInv, HistOK', ~RetryReturnsAny, SeenInv, ModuleGoesOn, StillThere,
           UNCHANGED <<op, rec, pending>>
    PROVE Working'
  <1>1. Core /\ HistOK /\ InPlace /\ Replaceable /\ SentAsSeen /\ Grows
    BY IInvIs, ModuleOKIs DEF SeenInv, Working, ModuleGoesOn
  <1>2. op.k # "idle" => op.id \in Docs
    BY <1>1, OpIs
  <1>3. ASSUME NEW d \in Docs, Known(d) PROVE StaleRecord(d) => StaleRecord(d)'
    BY <1>1, <1>3, KnownIs, StaleStays DEF StaleRecord, Stale, Current
  <1>4. InPlace'
    BY <1>1, <1>2 DEF InPlace, Filed, ModuleGoesOn, Goes, CopyName
  <1>5. Replaceable'
    BY <1>1, <1>2, <1>3 DEF Replaceable, Known, Fetched
  <1>6. op.k \in Sent => Shown(op.path, op.conf, op.body)'
    <2> SUFFICES ASSUME op.k \in Sent PROVE Shown(op.path, op.conf, op.body)'
      OBVIOUS
    <2>1. op.path \in Paths /\ op.body \in Contents
      BY <1>1, OpIs DEF Core, OpFits, Sent
    <2>2. PICK p, conf, x : p \in Paths /\ p = op.path /\ conf = op.conf /\ x = op.body
      BY <2>1
    <2>3. Shown(p, conf, x) /\ x # Nothing
      BY <1>1, <2>1, <2>2 DEF SentAsSeen, Contents, Nothing
    <2>4. x \in seen' \/ file'[p] = x \/ (conf # None /\ \E c \in copies' : c.name = conf /\ c.body = x)
      BY <2>2, <2>3, ShownStays DEF Stays
    <2> QED
      BY <2>2, <2>4 DEF Shown
  <1>7. op.k = "update" => /\ op.ver \in Versions(op.id)'
                           /\ Stale(op.id, op.ver)' \/ hist'[op.id][op.ver] \in seen'
    <2> SUFFICES ASSUME op.k = "update"
                 PROVE /\ op.ver \in Versions(op.id)'
                       /\ Stale(op.id, op.ver)' \/ hist'[op.id][op.ver] \in seen'
      OBVIOUS
    <2>1. PICK d, v : d \in Docs /\ d = op.id /\ v = op.ver /\ v \in Versions(d)
      BY <1>1, <1>2 DEF SentAsSeen
    <2>2. Stale(d, v) \/ hist[d][v] \in seen
      BY <1>1, <2>1 DEF SentAsSeen
    <2>3. v \in DOMAIN hist'[d] /\ hist'[d][v] = hist[d][v]
      BY <1>1, <2>1 DEF Grows, Versions
    <2>4. Stale(d, v)' \/ hist'[d][v] \in seen'
      BY <1>1, <2>1, <2>2, <2>3, StaleStays DEF StillThere
    <2> QED
      BY <2>1, <2>3, <2>4 DEF Versions, Stale, Current
  <1>8. SentAsSeen'
    BY <1>6, <1>7 DEF SentAsSeen
  <1> QED
    BY <1>4, <1>5, <1>8 DEF Working

\* There is none, or one that has only just been decided on.
LEMMA IdleWorks == ASSUME op'.k \in {"idle", "get", "forget"}, op'.conf = None PROVE Working'
  BY DEF Working, InPlace, Replaceable, SentAsSeen, Filed, Fetched, Sent

LEMMA StepHas == \A k, d, p, v, b : /\ Step(k, d, p, v, b).k = k /\ Step(k, d, p, v, b).id = d
                                    /\ Step(k, d, p, v, b).path = p /\ Step(k, d, p, v, b).ver = v
                                    /\ Step(k, d, p, v, b).body = b /\ Step(k, d, p, v, b).conf = None
                                    /\ Step(k, d, p, v, b).had = FALSE
  BY DEF Step

LEMMA IdleHas == Idle.k = "idle" /\ Idle.conf = None
  BY DEF Idle, Step

\* An operation goes on while the listing is gone through.
LEMMA ListedStays ==
    ASSUME IInv, HistOK', ~RetryReturnsAny, SeenInv, ModuleGoesOn,
           UNCHANGED <<agenda, listed>>, todo' \subseteq todo,
           \A d \in Docs : \/ rec'[d] \in {None, rec[d]}
                           \/ d = op.id /\ op.k \notin {"idle", "forget"},
           op'.k = "idle" \/ (op.k # "idle" /\ op'.id = op.id)
    PROVE ListedRight'
  <1>1. TodoFits /\ HistOK /\ ListedRight
    BY IInvIs, ModuleOKIs DEF SeenInv
  <1>2. ASSUME NEW d \in Docs, Known(d)', rec'[d] \in {None, rec[d]}
        PROVE Known(d) /\ (StaleRecord(d) => StaleRecord(d)')
    <2>1. Known(d) /\ rec'[d] = rec[d]
      BY <1>2 DEF Known
    <2> QED
      BY <1>1, <2>1, KnownIs, StaleStays DEF StaleRecord, Stale, Current
  <1>3. ASSUME agenda # <<>>, Head(agenda) = "reconcile"
        PROVE /\ \A d \in Docs : IF listed[d] = None THEN Known(d)' => StaleRecord(d)'
                                 ELSE hist'[d] # <<>> /\ doc'[d].path = listed[d][1]
              /\ op'.k # "idle" => listed[op'.id] # None
    <2>1. /\ \A d \in Docs : IF listed[d] = None THEN Known(d) => StaleRecord(d)
                             ELSE hist[d] # <<>> /\ doc[d].path = listed[d][1]
          /\ op.k # "idle" => listed[op.id] # None
      BY <1>1, <1>3 DEF ListedRight
    <2>2. ASSUME NEW d \in Docs, listed[d] = None, Known(d)' PROVE StaleRecord(d)'
      BY <1>2, <2>1, <2>2
    <2>3. ASSUME NEW d \in Docs, listed[d] # None PROVE hist'[d] # <<>> /\ doc'[d].path = listed[d][1]
      BY <2>1, <2>3 DEF ModuleGoesOn, Goes
    <2> QED
      BY <2>1, <2>2, <2>3
  <1>4. ASSUME agenda # <<>>, Head(agenda) = "missing", NEW d \in todo', Known(d)'
        PROVE StaleRecord(d)'
    <2>1. op.k \in {"idle", "forget"} /\ d \in Docs /\ (Known(d) => StaleRecord(d))
      BY <1>1, <1>4 DEF TodoFits, ListedRight
    <2> QED
      BY <1>2, <1>4, <2>1
  <1> QED
    BY <1>3, <1>4 DEF ListedRight

LEMMA SeenNext ==
    ASSUME SeenInv, ModuleGoesOn, Sound', Reserved', Working', ListedRight' PROVE SeenInv'
  BY DEF SeenInv, ModuleGoesOn

\* The parts of the invariants that the steps are proved with.
LEMMA SeenIs ==
    ASSUME IInv, ~RetryReturnsAny, SeenInv
    PROVE /\ ModuleOK /\ HistFits /\ Core /\ HistOK /\ DocOK /\ RecOK /\ PendingOK /\ OpHonest
          /\ AllReadable /\ Apart /\ Sound /\ Reserved /\ Working /\ ListedRight
          /\ Rooted /\ Backed /\ InPlace /\ Replaceable /\ SentAsSeen
  BY IInvIs, ModuleOKIs DEF Core, Types, IInv, Honesty, SeenInv, Sound, Working

\* An operation goes on without the module hearing of it.
LEMMA LocalSeen ==
    ASSUME IInv, ~RetryReturnsAny, SeenInv,
           UNCHANGED <<doc, hist, pending, agenda, listed, todo>>, KeepsShown,
           \A d \in Docs : rec'[d] \in {None, rec[d]},
           op.k # "idle", op'.k = "idle" \/ op'.id = op.id, Working'
    PROVE SeenInv'
  <1>1. ModuleOK /\ HistOK /\ HistOK' /\ AllReadable /\ Apart /\ PendingOK
    BY SeenIs DEF HistOK
  <1>2. ModuleGoesOn
    BY <1>1, SameGoesOn
  <1>3. Sound'
    BY <1>1, <1>2, SoundStays
  <1>4. Reserved'
    BY <1>1, <1>2, SameBirths, ReservedStays
  <1>5. ListedRight'
    BY <1>1, <1>2, ListedStays
  <1> QED
    BY <1>2, <1>3, <1>4, <1>5, SeenNext

\* What aside does to a record no upload can rest on: no other has its path.
LEMMA AsideSeen ==
    ASSUME IInv, ~RetryReturnsAny, SeenInv, NEW d \in Docs, Known(d), StaleRecord(d),
           MoveAside(d), UNCHANGED seen
    PROVE KeepsShown /\ Working' /\ rec' = rec /\ pending' = pending /\ op'.id = d /\ op'.k = "forget"
  <1>1. op'.k = "forget" /\ op'.id = d /\ op'.conf = None /\ rec' = rec /\ pending' = pending /\ copies' = copies
    BY StepHas DEF MoveAside
  <1>2. ASSUME NEW p \in Paths, p # rec[d].path PROVE file'[p] = file[p]
    <2>1. file \in [Paths -> Nat]
      BY SeenIs DEF Core, Types, FilesOK
    <2> QED
      BY <1>2, <2>1 DEF MoveAside
  <1>3. ASSUME NEW e \in Docs, Known(e), e # d PROVE file'[rec[e].path] = file[rec[e].path]
    <2>1. rec[e].path # rec[d].path /\ rec[e].path \in Paths
      BY <1>3, SeenIs, KnownIs DEF Rooted
    <2> QED
      BY <1>2, <2>1
  <1>4. KeepsShown
    BY <1>1, <1>3 DEF KeepsShown, Stays, Shown
  <1> QED
    BY <1>1, <1>4, IdleWorks

\* What a deletion does to one.
LEMMA DeletedSeen ==
    ASSUME IInv, ~RetryReturnsAny, SeenInv, NEW d \in Docs, NEW v,
           Known(d) => StaleRecord(d) \/ ~(v = 0 \/ rec[d].ver <= v),
           RemoteDeleted(d, v), v \in Nat, UNCHANGED <<doc, hist, seen>>
    PROVE /\ KeepsShown /\ Working' /\ rec' = rec /\ pending' = pending
          /\ op'.k = "idle" \/ op'.id = d
  <1>1. CASE Ignore
    <2>1. op'.k = "idle" /\ op'.conf = None /\ rec' = rec /\ pending' = pending
          /\ UNCHANGED <<file, copies, seen>>
      BY <1>1, IdleHas DEF Ignore, diskVars
    <2> QED
      BY <2>1, IdleWorks, SameFolder, StillKeeps
  <1>2. CASE Known(d) /\ ~(v > 0 /\ rec[d].ver > v) /\ MoveAside(d)
    <2>1. StaleRecord(d)
      BY <1>2, KnownIs
    <2> QED
      BY <1>2, <2>1, AsideSeen
  <1>3. CASE /\ Known(d) /\ ~(v > 0 /\ rec[d].ver > v)
             /\ op' = Step(IF file[rec[d].path] = Nothing THEN "forget" ELSE "rm",
                           d, rec[d].path, 0, Nothing)
             /\ UNCHANGED <<diskVars, rec, pending>>
    <2>1. StaleRecord(d)
      BY <1>3, KnownIs
    <2>2. UNCHANGED <<file, copies, seen, rec, pending>>
      BY <1>3 DEF diskVars
    <2>3. op'.k \in {"forget", "rm"} /\ op'.id = d /\ op'.path = rec[d].path /\ op'.conf = None
      BY <1>3, StepHas
    <2>4. KeepsShown
      BY <2>2, SameFolder, StillKeeps
    <2>5. InPlace' /\ SentAsSeen'
      BY <2>3 DEF InPlace, SentAsSeen, Filed, Sent
    <2>6. Replaceable'
      <3>1. StaleRecord(d)' /\ Known(d)' /\ rec'[d] = rec[d]
        BY <1>3, <2>1, <2>2 DEF Known, StaleRecord, Stale, Current
      <3>2. op'.k = "rm" => Known(op.id)' /\ rec'[op'.id].path = op'.path /\ StaleRecord(op.id)'
        BY <2>3, <3>1 DEF Known, StaleRecord, Stale, Current
      <3> QED
        BY <2>3, <3>2 DEF Replaceable, Fetched, Known, StaleRecord, Stale, Current
    <2> QED
      BY <2>2, <2>3, <2>4, <2>5, <2>6 DEF Working
  <1> QED
    BY <1>1, <1>2, <1>3 DEF RemoteDeleted

LEMMA LocalIs == ASSUME Local PROVE UNCHANGED <<doc, hist, agenda, todo, listed, seen>>
  BY DEF Local, InOp, moduleVars, loopVars, envVars

\* A decision to ask for the document, or to leave it.
LEMMA AskOrLeave ==
    ASSUME NEW d, NEW h, Fetch(d, h) \/ Ignore, UNCHANGED seen
    PROVE /\ op'.k = "idle" \/ (op'.k = "get" /\ op'.id = d)
          /\ Working' /\ StillThere /\ UNCHANGED <<file, copies, rec, pending>>
  <1>1. op'.k = "idle" \/ (op'.k = "get" /\ op'.id = d)
    BY StepHas, IdleHas DEF Fetch, Ignore, Step
  <1>2. op'.conf = None
    BY IdleHas DEF Fetch, Ignore, Step
  <1>3. UNCHANGED <<file, copies, rec, pending>>
    BY DEF Fetch, Ignore, diskVars
  <1> QED
    BY <1>1, <1>2, <1>3, IdleWorks, SameFolder

LEMMA RelistSeen == ASSUME IInv, ~RetryReturnsAny, SeenInv, Relist PROVE SeenInv'
  <1>1. op.k = "relist" /\ UNCHANGED <<doc, hist, agenda, todo, listed, seen>>
        /\ ((\E h \in BOOLEAN : Fetch(op.id, h)) \/ Ignore)
    BY LocalIs DEF Relist
  <1>2. PICK h : Fetch(op.id, h) \/ Ignore
    BY <1>1
  <1>3. /\ op'.k = "idle" \/ op'.id = op.id
        /\ Working' /\ StillThere /\ rec' = rec /\ pending' = pending
    BY <1>1, <1>2, AskOrLeave
  <1> QED
    BY <1>1, <1>3, StillKeeps, LocalSeen

\* No document is moved: a record is where its document is.
LEMMA NobodyFollows ==
    ASSUME IInv, ~RetryReturnsAny, SeenInv PROVE ~MoveFile /\ ~MoveRecord /\ \A d \in Docs : ~Following(d)
  <1>1. Rooted /\ InPlace
    BY SeenIs
  <1>2. \A d \in Docs : ~Following(d)
    BY <1>1 DEF Following, Rooted, InPlace, Filed
  <1> QED
    BY <1>1, <1>2 DEF MoveFile, MoveRecord, InPlace

LEMMA GetSeen == ASSUME IInv, ~RetryReturnsAny, SeenInv, Get PROVE SeenInv'
  <1> DEFINE d == op.id
  <1>1. op.k = "get" /\ UNCHANGED <<doc, hist, agenda, todo, listed, seen>>
    BY LocalIs DEF Get
  <1>2. d \in Docs /\ (op.had => Known(d)) /\ doc[d].readable
    BY <1>1, SeenIs, OpIs DEF Core, OpFits, AllReadable
  <1>3. ASSUME KeepsShown, Working', rec' = rec, pending' = pending, op'.k = "idle" \/ op'.id = d
        PROVE SeenInv'
    BY <1>1, <1>3, LocalSeen
  <1>4. CASE Ignore
    BY <1>1, <1>3, <1>4, AskOrLeave, StillKeeps
  <1>5. CASE doc[d].life = "unborn"
    <2>1. ~Known(d)
      BY <1>2, <1>5, SeenIs, KnownIs DEF HistFits
    <2> QED
      BY <1>2, <1>4, <1>5, <2>1 DEF Get
  <1>6. CASE doc[d].life = "deleted" /\ RemoteDeleted(d, 0)
    <2>1. StaleRecord(d)
      BY <1>6 DEF StaleRecord, Stale
    <2>2. /\ KeepsShown /\ Working' /\ rec' = rec /\ pending' = pending
          /\ op'.k = "idle" \/ op'.id = d
      BY <1>1, <1>2, <1>6, <2>1, DeletedSeen
    <2> QED
      BY <1>3, <2>2
  <1>7. CASE /\ doc[d].life = "live"
             /\ op' = [Step("got", d, doc[d].path, Current(d), Content(d)) EXCEPT !.had = op.had]
             /\ UNCHANGED <<diskVars, rec, pending>>
    <2>1. op'.k = "got" /\ op'.id = d /\ op'.path = doc[d].path /\ op'.ver = Current(d) /\ op'.conf = None
      BY <1>7 DEF Step
    <2>2. UNCHANGED <<file, copies, rec, pending>>
      BY <1>7 DEF diskVars
    <2>3. hist[d] # <<>>
      BY <1>2, <1>7, SeenIs DEF HistFits
    <2>4. InPlace'
      BY <1>1, <2>1, <2>3 DEF InPlace, Filed
    <2>5. Known(d) => rec[d].ver <= Current(d)
      BY <1>2, KnownIs
    <2>6. \A e \in Docs : e # d /\ Known(e) /\ rec[e].path = doc[d].path => StaleRecord(e)
      BY <1>2, <1>7, SeenIs DEF Apart, Rooted, StaleRecord, Stale
    <2>7. Replaceable'
      BY <1>1, <2>1, <2>2, <2>5, <2>6 DEF Replaceable, Fetched, Known, StaleRecord, Stale, Current
    <2>8. SentAsSeen'
      BY <2>1 DEF SentAsSeen, Sent
    <2> QED
      BY <1>1, <1>3, <2>1, <2>2, <2>4, <2>7, <2>8, SameFolder, StillKeeps DEF Working
  <1> QED
    <2>1. doc[d].life \in {"unborn", "live", "deleted"}
      BY <1>2, SeenIs DEF DocOK, Lives
    <2> QED
      BY <1>2, <1>4, <1>5, <1>6, <1>7, <2>1 DEF Get

\* What an operation about to write or record its document is known to have.
LEMMA BroughtIs ==
    ASSUME IInv, ~RetryReturnsAny, SeenInv, op.k \in {"got", "write", "put"}
    PROVE /\ op.id \in Docs /\ op.path \in Paths /\ op.body \in Contents /\ op.body # Nothing
          /\ op.ver \in Nat /\ op.ver \in Versions(op.id) /\ op.ver <= Current(op.id)
          /\ hist[op.id][op.ver] = op.body /\ op.conf \in (Paths \X Nat) \cup {None}
          /\ hist[op.id] # <<>> /\ doc[op.id].path = op.path
  <1>1. /\ op.id \in Docs /\ op.path \in Paths /\ op.body \in Contents /\ op.ver \in Nat
        /\ op.conf \in (Paths \X Nat) \cup {None}
    BY SeenIs, OpIs DEF Core, OpFits
  <1>2. op.ver \in Versions(op.id) /\ hist[op.id][op.ver] = op.body
    BY SeenIs DEF OpHonest, Honest
  <1>3. hist[op.id] \in Seq(Contents)
    BY <1>1, SeenIs DEF HistOK
  <1>4. op.ver <= Len(hist[op.id])
    BY <1>2, <1>3 DEF Versions
  <1>5. hist[op.id] # <<>> /\ doc[op.id].path = op.path
    BY SeenIs DEF InPlace, Filed
  <1> QED
    BY <1>1, <1>2, <1>4, <1>5 DEF Current, Contents, Nothing

\* Of the records at the path it goes to, those an upload could rest on hold the same.
LEMMA ReplacesSame ==
    ASSUME IInv, ~RetryReturnsAny, SeenInv, op.k \in Fetched,
           NEW d \in Docs, Known(d), rec[d].path = op.path, ~StaleRecord(d)
    PROVE d = op.id /\ rec[d].ver = op.ver /\ rec[d].sum = op.body
  <1>1. d = op.id /\ rec[d].ver <= op.ver
    BY SeenIs DEF Replaceable
  <1>2. op.ver <= Current(d) /\ op.ver \in Nat /\ hist[d][op.ver] = op.body
    BY <1>1, BroughtIs DEF Fetched
  <1>3. rec[d].ver \in Nat /\ Current(d) \in Nat /\ hist[d][rec[d].ver] = rec[d].sum
    BY KnownIs DEF Honest
  <1>4. ~(rec[d].ver < Current(d))
    BY DEF StaleRecord, Stale
  <1> QED
    BY <1>1, <1>2, <1>3, <1>4

\* The operation is about to be recorded.
LEMMA ReadyWorks ==
    ASSUME op'.k \in {"put", "clear"}, hist'[op'.id] # <<>>, doc'[op'.id].path = op'.path,
           op'.conf = None \/ (op'.k = "put" /\ op'.conf = CopyName(op'.path, op'.ver)),
           Shown(op.path, op.conf, op.body)'
    PROVE Working'
  <1>1. InPlace'
    BY DEF InPlace, Filed, CopyName
  <1>2. Replaceable'
    BY DEF Replaceable, Fetched
  <1>3. SentAsSeen'
    BY DEF SentAsSeen
  <1> QED
    BY <1>1, <1>2, <1>3 DEF Working

LEMMA PlaceSeen == ASSUME IInv, ~RetryReturnsAny, SeenInv, Place PROVE SeenInv'
  <1>1. op.k = "got" /\ UNCHANGED <<doc, hist, agenda, todo, listed, seen, file, rec, pending>>
    BY LocalIs DEF Place
  <1>2. /\ op.id \in Docs /\ op.path \in Paths /\ op.body # Nothing
        /\ hist[op.id] # <<>> /\ doc[op.id].path = op.path /\ op.conf = None
    BY <1>1, SeenIs, BroughtIs DEF InPlace
  <1>3. op \in Steps /\ Core
    BY SeenIs DEF Core, Types
  <1>4. CASE WriteCopy(op.path, op.ver, op.body)
             /\ op' = [op EXCEPT !.k = "put", !.conf = CopyName(op.path, op.ver)]
    <2>1. op'.k = "put" /\ op'.id = op.id /\ op'.path = op.path /\ op'.ver = op.ver
          /\ op'.body = op.body /\ op'.conf = CopyName(op.path, op.ver)
      BY <1>3, <1>4 DEF Steps
    <2>2. CopyName(op.path, op.ver) # None
      <3>1. op.path \in Paths /\ op.ver \in Nat
        BY <1>1, <1>2, BroughtIs
      <3> QED
        BY <3>1, RecordAssumption DEF CopyName
    <2>3. \E c \in copies' : c.name = CopyName(op.path, op.ver) /\ c.body = op.body
      <3>1. [name |-> CopyName(op.path, op.ver), body |-> op.body] \in copies'
        BY <1>4 DEF WriteCopy
      <3> QED
        BY <3>1
    <2>4. Working'
      BY <1>1, <1>2, <2>1, <2>2, <2>3, ReadyWorks DEF Shown, CopyName
    <2>5. ASSUME NEW d \in Docs, Known(d), ~StaleRecord(d)
          PROVE Stays(rec[d].path, rec[d].conf, rec[d].sum)
      <3>1. CASE rec[d].conf = CopyName(op.path, op.ver)
        <4>1. rec[d].conf = CopyName(rec[d].path, rec[d].ver)
          BY <2>2, <2>5, <3>1, SeenIs DEF Rooted
        <4>2. rec[d].path = op.path
          BY <3>1, <4>1 DEF CopyName
        <4>3. rec[d].sum = op.body
          BY <1>1, <2>5, <4>2, ReplacesSame DEF Fetched
        <4> QED
          BY <2>2, <2>3, <3>1, <4>3 DEF Stays
      <3>2. CASE rec[d].conf # CopyName(op.path, op.ver)
        <4>1. \A c \in copies : c.name = rec[d].conf => c \in copies'
          BY <1>4, <3>2 DEF WriteCopy
        <4> QED
          BY <1>1, <4>1 DEF Stays, Shown
      <3> QED
        BY <3>1, <3>2
    <2> QED
      BY <1>1, <2>1, <2>4, <2>5, LocalSeen DEF KeepsShown
  <1>5. CASE op' = [op EXCEPT !.k = IF file[op.path] = op.body THEN "put" ELSE "write"]
             /\ UNCHANGED copies
    <2>1. KeepsShown
      BY <1>1, <1>5, SameFolder, StillKeeps
    <2>2. op'.k \in {"put", "write"} /\ op'.id = op.id /\ op'.path = op.path /\ op'.ver = op.ver
          /\ op'.body = op.body /\ op'.conf = None
      BY <1>2, <1>3, <1>5 DEF Steps
    <2>3. CASE op'.k = "put"
      <3>1. file[op.path] = op.body
        BY <1>3, <1>5, <2>3 DEF Steps
      <3>2. Working'
        BY <1>1, <1>2, <2>2, <2>3, <3>1, ReadyWorks DEF Shown
      <3> QED
        BY <1>1, <2>1, <2>2, <3>2, LocalSeen
    <2>4. CASE op'.k = "write"
      <3>1. InPlace' /\ SentAsSeen'
        BY <1>1, <1>2, <2>2, <2>4 DEF InPlace, SentAsSeen, Filed, Sent
      <3>2. Replaceable'
        BY <1>1, <2>2, <2>4, SeenIs DEF Replaceable, Fetched, Known, StaleRecord, Stale, Current
      <3> QED
        BY <1>1, <2>1, <2>2, <3>1, <3>2, LocalSeen DEF Working
    <2> QED
      BY <2>2, <2>3, <2>4
  <1> QED
    BY <1>4, <1>5 DEF Place

\* Writing replaces no file that an upload could rest on.
LEMMA WriteSeen == ASSUME IInv, ~RetryReturnsAny, SeenInv, Write PROVE SeenInv'
  <1>1. op.k = "write" /\ UNCHANGED <<doc, hist, agenda, todo, listed, seen, copies, rec, pending>>
    BY LocalIs DEF Write
  <1>2. /\ op.id \in Docs /\ op.path \in Paths /\ op.body # Nothing
        /\ hist[op.id] # <<>> /\ doc[op.id].path = op.path /\ op.conf = None
    BY <1>1, SeenIs, BroughtIs DEF InPlace
  <1>3. file \in [Paths -> Nat] /\ op \in Steps
    BY SeenIs DEF Core, Types, FilesOK
  <1>4. file'[op.path] = op.body /\ \A p \in Paths \ {op.path} : file'[p] = file[p]
    BY <1>2, <1>3 DEF Write
  <1>5. op'.k = "put" /\ op'.id = op.id /\ op'.path = op.path /\ op'.ver = op.ver
        /\ op'.body = op.body /\ op'.conf = None
    BY <1>2, <1>3 DEF Write, Steps
  <1>6. Working'
    BY <1>1, <1>2, <1>4, <1>5, ReadyWorks DEF Shown
  <1>7. ASSUME NEW d \in Docs, Known(d), ~StaleRecord(d)
        PROVE Stays(rec[d].path, rec[d].conf, rec[d].sum)
    <2>1. CASE rec[d].path = op.path
      BY <1>1, <1>4, <1>7, <2>1, ReplacesSame DEF Fetched, Stays
    <2>2. CASE rec[d].path # op.path
      BY <1>1, <1>4, <1>7, <2>2, KnownIs DEF Stays, Shown
    <2> QED
      BY <2>1, <2>2
  <1> QED
    BY <1>1, <1>5, <1>6, <1>7, LocalSeen DEF KeepsShown

\* What is recorded was shown; the record replaces any other at its path.
LEMMA PutSeen == ASSUME IInv, ~RetryReturnsAny, SeenInv, Put PROVE SeenInv'
  <1>1. /\ op.k = "put" /\ op' = Idle
        /\ PutDoc(op.id, [path |-> op.path, ver |-> op.ver, sum |-> op.body, conf |-> op.conf])
        /\ UNCHANGED <<doc, hist, agenda, todo, listed, seen, file, copies, pending>>
    BY LocalIs DEF Put, diskVars
  <1>2. PICK d \in Docs, r \in Records :
            d = op.id /\ r = [path |-> op.path, ver |-> op.ver, sum |-> op.body, conf |-> op.conf]
    BY <1>1, BroughtIs DEF Records
  <1>3. ModuleGoesOn /\ HistOK'
    BY <1>1, SeenIs, SameGoesOn DEF HistOK
  <1>4. StillThere /\ KeepsShown
    BY <1>1, SameFolder, StillKeeps
  <1>5. Shown(r.path, r.conf, r.sum)'
    <2>1. Shown(r.path, r.conf, r.sum)
      BY <1>1, <1>2, SeenIs DEF SentAsSeen, Sent
    <2> QED
      BY <1>1, <2>1 DEF Shown
  <1>6. Sound'
    <2>1. PutDoc(d, r)
      BY <1>1, <1>2
    <2>2. r.path = doc'[d].path
      BY <1>1, <1>2, BroughtIs
    <2>3. r.conf # None => r.conf = CopyName(r.path, r.ver)
      BY <1>1, <1>2, SeenIs DEF InPlace
    <2> QED
      BY <1>3, <1>4, <1>5, <2>1, <2>2, <2>3, SoundPut
  <1>7. Reserved'
    BY <1>1, <1>3, SeenIs, SameBirths, ReservedStays
  <1>8. Working'
    BY <1>1, IdleHas, IdleWorks
  <1>9. ListedRight'
    <2>1. \A e \in Docs : rec'[e] \in {None, rec[e]} \/ e = op.id
      BY <1>1, <1>2, SeenIs, PutDocOK
    <2> QED
      BY <1>1, <1>3, <2>1, IdleHas, ListedStays
  <1> QED
    BY <1>3, <1>6, <1>7, <1>8, <1>9, SeenNext

\* Removing takes a file that no upload could rest on.
LEMMA RemoveSeen == ASSUME IInv, ~RetryReturnsAny, SeenInv, Remove PROVE SeenInv'
  <1>1. op.k = "rm" /\ UNCHANGED <<doc, hist, agenda, todo, listed, seen, copies, rec, pending>>
    BY LocalIs DEF Remove
  <1>2. file \in [Paths -> Nat] /\ op \in Steps /\ op.conf = None /\ op.id \in Docs
    BY <1>1, SeenIs, OpIs DEF Core, Types, FilesOK, InPlace
  <1>3. op'.k = "forget" /\ op'.id = op.id /\ op'.conf = None
    BY <1>2 DEF Remove, Steps
  <1>4. \A p \in Paths \ {op.path} : file'[p] = file[p]
    BY <1>2 DEF Remove
  <1>5. KeepsShown
    <2> SUFFICES ASSUME NEW d \in Docs, Known(d), ~StaleRecord(d)
                 PROVE Stays(rec[d].path, rec[d].conf, rec[d].sum)
      BY DEF KeepsShown
    <2>1. Known(op.id) /\ rec[op.id].path = op.path /\ d # op.id
      BY <1>1, SeenIs DEF Replaceable
    <2>2. rec[d].path # op.path /\ rec[d].path \in Paths
      BY <1>2, <2>1, SeenIs, KnownIs DEF Rooted
    <2> QED
      BY <1>1, <1>4, <2>2 DEF Stays, Shown
  <1> QED
    BY <1>1, <1>3, <1>5, IdleWorks, LocalSeen

LEMMA ForgetSeen == ASSUME IInv, ~RetryReturnsAny, SeenInv, Forget PROVE SeenInv'
  <1>1. op.k = "forget" /\ op' = Idle /\ DeleteDoc(op.id)
        /\ UNCHANGED <<doc, hist, agenda, todo, listed, seen, file, copies, pending>>
    BY LocalIs DEF Forget, diskVars
  <1>2. op.id \in Docs
    BY <1>1, SeenIs, OpIs
  <1>3. \A d \in Docs : rec'[d] \in {None, rec[d]}
    BY <1>1, <1>2, SeenIs, DeleteDocOK
  <1> QED
    BY <1>1, <1>3, IdleHas, IdleWorks, SameFolder, StillKeeps, LocalSeen

\* The module did what it was asked.
LEMMA DoneSound ==
    ASSUME IInv, ~RetryReturnsAny, SeenInv, Done, UNCHANGED <<file, copies, seen, rec>>,
           \A q \in Paths : pending'[q] \in {None, pending[q]}
    PROVE /\ ModuleGoesOn /\ HistOK' /\ Sound' /\ Reserved' /\ op.id \in Docs
          /\ hist'[op.id] # <<>> /\ doc'[op.id].path = op.path
          /\ op.k \in {"update", "create"} /\ op.conf = None
  <1>1. PICK d : d = op.id
    OBVIOUS
  <1>2. ModuleOK /\ HistFits /\ Core /\ AllReadable /\ Apart
    BY SeenIs
  <1>3. /\ ModuleGoesOn /\ d \in Docs /\ op.path \in Paths
        /\ hist'[d] # <<>> /\ \A c \in Docs \ {d} : hist'[c] = hist[c]
        /\ op.k = "create" => hist[d] = <<>> /\ doc'[d].path = op.path
    BY <1>1, <1>2, DoneGoesOn
  <1>4. HistOK'
    BY <1>2, DoneOK
  <1>5. op.k \in {"update", "create"} /\ op.conf = None
    BY SeenIs DEF Done, InPlace
  <1>6. BornInPlace
    <2> SUFFICES ASSUME NEW e \in Docs, hist[e] = <<>>, hist'[e] # <<>>, NEW q \in Paths, pending[q] = e
                 PROVE doc'[e].path = q
      BY DEF BornInPlace
    <2>1. e = d
      BY <1>3
    <2>2. op.k = "create"
      BY <1>1, <1>5, <2>1, SeenIs DEF InPlace, Filed
    <2>3. pending[op.path] = d
      BY <1>1, <2>2, SeenIs DEF InPlace
    <2>4. q = op.path
      BY <1>3, <2>1, <2>3, SeenIs, NoneAssumption DEF Reserved
    <2> QED
      BY <1>3, <2>1, <2>2, <2>4
  <1>7. StillThere /\ KeepsShown
    BY SameFolder, StillKeeps
  <1>8. Sound'
    BY <1>3, <1>4, <1>7, SoundStays
  <1>9. Reserved'
    BY <1>3, <1>6, SeenIs, ReservedStays
  <1>10. doc'[d].path = op.path
    <2>1. CASE op.k = "update"
      <3>1. hist[d] # <<>> /\ doc[d].path = op.path
        BY <1>1, <2>1, SeenIs DEF InPlace, Filed
      <3> QED
        BY <1>3, <3>1 DEF ModuleGoesOn, Goes
    <2> QED
      BY <1>3, <1>5, <2>1
  <1> QED
    BY <1>1, <1>3, <1>4, <1>5, <1>8, <1>9, <1>10

\* It did, and says so: what was sent is recorded next.
LEMMA DoneAsked ==
    ASSUME IInv, ~RetryReturnsAny, SeenInv, Done,
           UNCHANGED <<file, copies, seen, rec, pending, agenda, listed, todo>>,
           op'.k \in {"put", "clear"}, op'.id = op.id, op'.path = op.path, op'.body = op.body,
           op'.conf = None
    PROVE SeenInv'
  <1>1. /\ ModuleGoesOn /\ HistOK' /\ Sound' /\ Reserved'
        /\ hist'[op.id] # <<>> /\ doc'[op.id].path = op.path
        /\ op.k \in {"update", "create"} /\ op.conf = None
    BY DoneSound
  <1>2. Shown(op.path, op.conf, op.body)
    BY <1>1, SeenIs DEF SentAsSeen, Sent
  <1>3. Shown(op.path, op.conf, op.body)'
    BY <1>1, <1>2 DEF Shown
  <1>4. Working'
    BY <1>1, <1>3, ReadyWorks
  <1>5. ListedRight'
    BY <1>1, ListedStays
  <1> QED
    BY <1>1, <1>4, <1>5, SeenNext

\* The module has it already: the same.
LEMMA KnownAsked ==
    ASSUME IInv, ~RetryReturnsAny, SeenInv, op.k \in {"update", "create"},
           UNCHANGED <<doc, hist, file, copies, seen, rec, pending, agenda, listed, todo>>,
           op'.k \in {"put", "clear"}, op'.id = op.id, op'.path = op.path, op'.body = op.body,
           op'.conf = op.conf, hist[op.id] # <<>>, doc[op.id].path = op.path
    PROVE SeenInv'
  <1>1. op.conf = None
    BY SeenIs DEF InPlace
  <1>2. Shown(op.path, op.conf, op.body)
    BY SeenIs DEF SentAsSeen, Sent
  <1>3. Shown(op.path, op.conf, op.body)'
    BY <1>1, <1>2 DEF Shown
  <1>4. Working'
    BY <1>1, <1>3, ReadyWorks
  <1> QED
    BY <1>4, SameFolder, StillKeeps, LocalSeen

LEMMA UpdateSeen == ASSUME IInv, ~RetryReturnsAny, SeenInv, Update PROVE SeenInv'
  <1> DEFINE reply == SaveReply(op.id, op.ver, op.body)
  <1>1. op.k = "update" /\ UNCHANGED <<agenda, todo, listed, seen>>
    BY DEF Update, loopVars, envVars
  <1>2. op \in Steps /\ op.id \in Docs /\ Known(op.id) /\ hist[op.id] # <<>> /\ doc[op.id].path = op.path
    BY <1>1, SeenIs, OpIs DEF Core, Types, OpFits, InPlace, Filed
  <1>3. reply \in {"not_found", "locked", "same", "version_conflict", "saved"}
    BY DEF SaveReply
  <1>4. CASE reply = "saved"
    <2>1. Done
      BY <1>1, <1>4 DEF Update, Done
    <2>2. Saved(Current(op.id) + 1) /\ UNCHANGED <<diskVars, rec, pending>>
      BY <1>4 DEF Update
    <2>3. op'.k = "put" /\ op'.id = op.id /\ op'.path = op.path /\ op'.body = op.body /\ op'.conf = op.conf
      BY <1>2, <2>2 DEF Saved, Steps
    <2>4. op.conf = None
      BY <1>1, SeenIs DEF InPlace
    <2> QED
      BY <1>1, <2>1, <2>2, <2>3, <2>4, DoneAsked DEF diskVars
  <1>5. ASSUME reply # "saved" PROVE UNCHANGED <<doc, hist>>
    BY <1>5 DEF Update, moduleVars
  <1>6. CASE reply = "same"
    <2>1. Saved(Current(op.id)) /\ UNCHANGED <<diskVars, rec, pending>>
      BY <1>6 DEF Update
    <2>2. op'.k = "put" /\ op'.id = op.id /\ op'.path = op.path /\ op'.body = op.body /\ op'.conf = op.conf
      BY <1>2, <2>1 DEF Saved, Steps
    <2> QED
      BY <1>1, <1>2, <1>5, <1>6, <2>1, <2>2, KnownAsked DEF diskVars
  <1>7. CASE reply \in {"version_conflict", "locked"}
    <2>1. Fetch(op.id, TRUE) \/ Ignore
      BY <1>7 DEF Update
    <2>2. /\ op'.k = "idle" \/ op'.id = op.id
          /\ Working' /\ StillThere /\ rec' = rec /\ pending' = pending
      BY <1>1, <2>1, AskOrLeave
    <2> QED
      BY <1>1, <1>5, <1>7, <2>2, StillKeeps, LocalSeen
  <1>8. CASE reply = "not_found"
    <2>1. MoveAside(op.id)
      BY <1>8 DEF Update
    <2>2. StaleRecord(op.id)
      BY <1>2, <1>8, SeenIs DEF SaveReply, Readable, AllReadable, StaleRecord, Stale
    <2>3. KeepsShown /\ Working' /\ rec' = rec /\ pending' = pending /\ op'.id = op.id
      BY <1>1, <1>2, <2>1, <2>2, AsideSeen
    <2> QED
      BY <1>1, <1>5, <1>8, <2>3, LocalSeen
  <1> QED
    BY <1>3, <1>4, <1>6, <1>7, <1>8

\* A reservation is dropped.
LEMMA DropsOne ==
    ASSUME PendingOK, NEW p \in Paths, pending' = [pending EXCEPT ![p] = None]
    PROVE \A q \in Paths : pending'[q] \in {None, pending[q]}
  BY DEF PendingOK

LEMMA IdleSeen ==
    ASSUME IInv, ~RetryReturnsAny, SeenInv, op'.k = "idle", op'.conf = None,
           UNCHANGED <<doc, hist, file, copies, seen, rec>>,
           UNCHANGED <<agenda, listed, todo>> \/ agenda' = <<>>,
           \A q \in Paths : pending'[q] \in {None, pending[q]}
    PROVE SeenInv'
  <1>1. ModuleGoesOn /\ HistOK'
    BY SeenIs, SameGoesOn DEF HistOK
  <1>2. StillThere /\ KeepsShown
    BY SameFolder, StillKeeps
  <1>3. Sound'
    BY <1>1, <1>2, SoundStays
  <1>4. Reserved'
    BY <1>1, SeenIs, SameBirths, ReservedStays
  <1>5. Working'
    BY IdleWorks
  <1>6. ListedRight'
    <2>1. CASE agenda' = <<>>
      BY <2>1 DEF ListedRight
    <2>2. CASE UNCHANGED <<agenda, listed, todo>>
      BY <1>1, <2>2, ListedStays
    <2> QED
      BY <2>1, <2>2
  <1> QED
    BY <1>1, <1>3, <1>4, <1>5, <1>6, SeenNext

LEMMA CreateSeen == ASSUME IInv, ~RetryReturnsAny, SeenInv, Create PROVE SeenInv'
  <1> DEFINE reply == CreateReply(op.id, op.path, op.body)
  <1>1. op.k = "create" /\ UNCHANGED <<agenda, todo, listed, seen, file, copies, rec>>
    BY DEF Create, InOp, loopVars, envVars, diskVars
  <1>2. op \in Steps /\ op.id \in Docs /\ op.path \in Paths /\ op.conf = None
        /\ pending[op.path] = op.id
    BY <1>1, SeenIs, OpIs DEF Core, Types, InPlace
  <1>3. reply \in {"exists", "known", "created"}
    BY DEF CreateReply
  <1>4. CASE reply = "created"
    <2>1. Done
      BY <1>1, <1>4 DEF Create, Done
    <2>2. op' = [op EXCEPT !.k = "clear", !.ver = 1] /\ pending' = pending
      BY <1>4 DEF Create
    <2>3. op'.k = "clear" /\ op'.id = op.id /\ op'.path = op.path /\ op'.body = op.body /\ op'.conf = None
      BY <1>2, <2>2 DEF Steps
    <2> QED
      BY <1>1, <2>1, <2>2, <2>3, DoneAsked
  <1>5. ASSUME reply # "created" PROVE UNCHANGED <<doc, hist>>
    BY <1>5 DEF Create, moduleVars
  <1>6. CASE reply = "known"
    <2>1. hist[op.id] # <<>>
      BY <1>6 DEF CreateReply
    <2>2. doc[op.id].path = op.path
      BY <1>2, <2>1, SeenIs, NoneAssumption DEF Reserved
    <2>3. op' = [op EXCEPT !.k = "clear", !.ver = Current(op.id), !.path = doc[op.id].path]
          /\ pending' = pending
      BY <1>6 DEF Create
    <2>4. op'.k = "clear" /\ op'.id = op.id /\ op'.path = op.path /\ op'.body = op.body
          /\ op'.conf = op.conf
      BY <1>2, <2>2, <2>3 DEF Steps
    <2> QED
      BY <1>1, <1>5, <1>6, <2>1, <2>2, <2>3, <2>4, KnownAsked
  <1>7. CASE reply = "exists"
    <2>1. op' = Idle /\ pending' = [pending EXCEPT ![op.path] = None]
      BY <1>7 DEF Create
    <2>2. \A q \in Paths : pending'[q] \in {None, pending[q]}
      BY <1>2, <2>1, SeenIs, DropsOne
    <2> QED
      BY <1>1, <1>5, <1>7, <2>1, <2>2, IdleHas, IdleSeen
  <1> QED
    BY <1>3, <1>4, <1>6, <1>7

LEMMA ClearSeen == ASSUME IInv, ~RetryReturnsAny, SeenInv, ClearPending PROVE SeenInv'
  <1>1. op.k = "clear" /\ UNCHANGED <<doc, hist, agenda, todo, listed, seen, file, copies, rec>>
    BY LocalIs DEF ClearPending, diskVars
  <1>2. op \in Steps /\ op.conf = None /\ hist[op.id] # <<>> /\ doc[op.id].path = op.path
    BY <1>1, SeenIs DEF Core, Types, InPlace, Filed
  <1>3. op'.k = "put" /\ op'.id = op.id /\ op'.path = op.path /\ op'.body = op.body /\ op'.conf = None
    BY <1>2 DEF ClearPending, Steps
  <1>4. Shown(op.path, op.conf, op.body)
    BY <1>1, SeenIs DEF SentAsSeen, Sent
  <1>5. Shown(op.path, op.conf, op.body)'
    BY <1>1, <1>2, <1>3, <1>4 DEF Shown
  <1>6. Working'
    BY <1>1, <1>2, <1>3, <1>5, ReadyWorks
  <1>7. ModuleGoesOn /\ HistOK'
    BY <1>1, SeenIs, SameGoesOn DEF HistOK
  <1>8. Sound'
    BY <1>1, <1>7, SameFolder, StillKeeps, SoundStays
  <1>9. Reserved'
    <2>1. \A q \in Paths : pending'[q] \in {None, pending[q]}
      BY DEF ClearPending
    <2> QED
      BY <1>1, <1>7, <2>1, SeenIs, SameBirths, ReservedStays
  <1>10. ListedRight'
    BY <1>1, <1>3, <1>7, ListedStays
  <1> QED
    BY <1>6, <1>7, <1>8, <1>9, <1>10, SeenNext

LEMMA OpStepSeen == ASSUME IInv, ~RetryReturnsAny, SeenInv, OpStep PROVE SeenInv'
  BY RelistSeen, NobodyFollows, GetSeen, PlaceSeen, WriteSeen, PutSeen, RemoveSeen, ForgetSeen,
     UpdateSeen, CreateSeen, ClearSeen DEF OpStep

-----------------------------------------------------------------------------
(* A file that changed.                                                    *)

\* With no copy to wait for, what the record holds was seen, or is in the file, or
\* the module is past it.
LEMMA NoCopy ==
    ASSUME IInv, ~RetryReturnsAny, SeenInv, NEW d \in Docs, Known(d),
           rec[d].conf = None \/ ~CopyThere(rec[d].conf)
    PROVE StaleRecord(d) \/ rec[d].sum \in seen \/ file[rec[d].path] = rec[d].sum
  BY SeenIs DEF Backed, Shown, CopyThere

\* What is uploaded is in the file, and differs from what the record holds, which
\* was therefore seen.
LEMMA UploadSeen ==
    ASSUME IInv, ~RetryReturnsAny, SeenInv, NEW d \in Docs, NEW p, Known(d), rec[d].path = p,
           rec[d].conf = None \/ ~CopyThere(rec[d].conf), Upload(d, p),
           UNCHANGED <<doc, hist, file, copies, seen>>
    PROVE Working'
  <1>1. CASE op' = Idle
    BY <1>1, IdleHas, IdleWorks
  <1>2. CASE file[p] # rec[d].sum /\ op' = Step("update", d, p, rec[d].ver, file[p])
    <2>1. op'.k = "update" /\ op'.id = d /\ op'.path = p /\ op'.ver = rec[d].ver
          /\ op'.body = file[p] /\ op'.conf = None
      BY <1>2, StepHas
    <2>2. /\ hist[d] # <<>> /\ doc[d].path = p /\ rec[d].ver \in Versions(d)
          /\ hist[d][rec[d].ver] = rec[d].sum
      BY KnownIs, SeenIs DEF Rooted, Honest
    <2>3. StaleRecord(d) \/ rec[d].sum \in seen
      BY <1>2, NoCopy
    <2>4. InPlace'
      BY <2>1, <2>2 DEF InPlace
    <2>5. Replaceable'
      BY <2>1 DEF Replaceable, Fetched
    <2>6. Shown(op.path, op.conf, op.body)'
      BY <2>1 DEF Shown
    <2>7. op'.ver \in Versions(op.id)'
      BY <2>1, <2>2 DEF Versions
    <2>8. Stale(op.id, op.ver)' \/ hist'[op'.id][op'.ver] \in seen'
      BY <2>1, <2>2, <2>3 DEF Stale, StaleRecord, Current
    <2> QED
      BY <2>1, <2>4, <2>5, <2>6, <2>7, <2>8 DEF Working, SentAsSeen
  <1> QED
    BY <1>1, <1>2 DEF Upload

\* A creation sends what is in the file, under an id that is reserved for it.
LEMMA CreateLocalSeen ==
    ASSUME IInv, ~RetryReturnsAny, SeenInv, NEW p \in Paths, CreateLocal(p),
           UNCHANGED <<doc, hist, seen>>
    PROVE Working' /\ Reserved' /\ UNCHANGED <<file, copies, rec>>
  <1>1. UNCHANGED <<file, copies, rec>>
    BY DEF CreateLocal, diskVars
  <1>2. ASSUME NEW d, op' = Step("create", d, p, 0, file[p]), pending'[p] = d PROVE Working'
    <2>1. op'.k = "create" /\ op'.id = d /\ op'.path = p /\ op'.body = file[p] /\ op'.conf = None
      BY <1>2, StepHas
    <2>2. InPlace' /\ Replaceable'
      BY <1>2, <2>1 DEF InPlace, Replaceable, Filed, Fetched
    <2>3. SentAsSeen'
      BY <1>1, <2>1 DEF SentAsSeen, Shown
    <2> QED
      BY <2>2, <2>3 DEF Working
  <1>3. ASSUME pending' = pending PROVE Reserved'
    BY <1>3, SeenIs DEF Reserved
  <1>4. CASE op' = Step("create", pending[p], p, 0, file[p]) /\ pending' = pending
    BY <1>1, <1>2, <1>3, <1>4
  <1>5. CASE op' = Idle /\ pending' = pending
    BY <1>1, <1>3, <1>5, IdleHas, IdleWorks
  <1>6. ASSUME NEW d \in Docs, hist[d] = <<>>, \A q \in Paths : pending[q] # d,
               pending' = [pending EXCEPT ![p] = d], op' = Step("create", d, p, 0, file[p])
        PROVE Working' /\ Reserved'
    <2>1. pending'[p] = d /\ \A q \in Paths \ {p} : pending'[q] = pending[q]
      BY <1>6, SeenIs DEF PendingOK
    <2>2. Reserved'
      BY <1>6, <2>1, SeenIs DEF Reserved
    <2> QED
      BY <1>2, <1>6, <2>1, <2>2
  <1> QED
    BY <1>1, <1>4, <1>5, <1>6 DEF CreateLocal

LEMMA LocalChangedSeen ==
    ASSUME IInv, ~RetryReturnsAny, SeenInv, NEW p \in Paths, LocalChanged(p),
           UNCHANGED <<doc, hist, seen>>
    PROVE ModuleGoesOn /\ Sound' /\ Reserved' /\ Working'
  <1>1. ModuleGoesOn /\ HistOK'
    BY SeenIs, SameGoesOn DEF HistOK
  <1>2. ASSUME UNCHANGED <<file, copies, rec>> PROVE Sound'
    BY <1>1, <1>2, SameFolder, StillKeeps, SoundStays
  <1>3. ASSUME pending' = pending PROVE Reserved'
    BY <1>1, <1>3, SeenIs, SameBirths, ReservedStays
  <1>4. CASE Ignore
    <2>1. Working' /\ UNCHANGED <<file, copies, rec, pending>>
      BY <1>4, AskOrLeave
    <2> QED
      BY <1>1, <1>2, <1>3, <2>1
  <1>5. CASE CreateLocal(p)
    BY <1>1, <1>2, <1>5, CreateLocalSeen
  <1>6. ASSUME NEW d \in RecordsAt(p), rec[d].conf = None, Upload(d, p),
               UNCHANGED <<diskVars, rec, pending>>
        PROVE ModuleGoesOn /\ Sound' /\ Reserved' /\ Working'
    <2>1. d \in Docs /\ Known(d) /\ rec[d].path = p /\ UNCHANGED <<file, copies, rec, pending>>
      BY <1>6 DEF RecordsAt, diskVars
    <2> QED
      BY <1>1, <1>2, <1>3, <1>6, <2>1, UploadSeen
  <1>7. ASSUME NEW d \in RecordsAt(p), ~CopyThere(rec[d].conf),
               PutDoc(d, [rec[d] EXCEPT !.conf = None]), Upload(d, p), UNCHANGED <<diskVars, pending>>
        PROVE ModuleGoesOn /\ Sound' /\ Reserved' /\ Working'
    <2>1. d \in Docs /\ Known(d) /\ rec[d].path = p /\ UNCHANGED <<file, copies, pending>>
      BY <1>7 DEF RecordsAt, diskVars
    <2>2. rec[d] \in Records /\ rec[d].path = doc[d].path
      BY <2>1, KnownIs, SeenIs DEF Rooted
    <2>3. PICK r \in Records : r = [rec[d] EXCEPT !.conf = None]
      BY <2>2 DEF Records
    <2>4. r.path = rec[d].path /\ r.ver = rec[d].ver /\ r.sum = rec[d].sum /\ r.conf = None
      BY <2>2, <2>3 DEF Records
    <2>5. StaleRecord(d) \/ rec[d].sum \in seen \/ file[rec[d].path] = rec[d].sum
      BY <1>7, <2>1, NoCopy
    <2>6. Stale(d, r.ver)' \/ Shown(r.path, r.conf, r.sum)'
      BY <2>1, <2>4, <2>5 DEF StaleRecord, Stale, Current, Shown
    <2>7. Sound'
      <3>1. PutDoc(d, r)
        BY <1>7, <2>3
      <3>2. KeepsShown
        BY <2>1, SameFolder, StillKeeps
      <3> QED
        BY <1>1, <2>1, <2>2, <2>4, <2>6, <3>1, <3>2, SoundPut
    <2> QED
      BY <1>1, <1>3, <1>7, <2>1, <2>7, UploadSeen
  <1> QED
    BY <1>4, <1>5, <1>6, <1>7 DEF LocalChanged

-----------------------------------------------------------------------------
(* The agenda, the loop, and everybody else.                               *)

\* A step that decides nothing.
LEMMA PlainSeen ==
    ASSUME IInv, ~RetryReturnsAny, SeenInv, UNCHANGED <<doc, hist, seen>>, NoDecision, ListedRight'
    PROVE SeenInv'
  <1>1. ModuleGoesOn /\ HistOK'
    BY SeenIs, SameGoesOn DEF HistOK
  <1>2. UNCHANGED <<file, copies, rec, pending, op>> /\ StillThere
    BY SameFolder DEF NoDecision, diskVars
  <1>3. Sound'
    BY <1>1, <1>2, StillKeeps, SoundStays
  <1>4. Reserved'
    BY <1>1, <1>2, SeenIs, SameBirths, ReservedStays
  <1>5. Working'
    BY <1>1, <1>2, WorkingStays
  <1> QED
    BY <1>1, <1>3, <1>4, <1>5, SeenNext

\* A step that decides what to do with a document.
LEMMA DecidedSeen ==
    ASSUME IInv, ~RetryReturnsAny, SeenInv, UNCHANGED <<doc, hist, rec, pending>>,
           KeepsShown, Working', ListedRight'
    PROVE SeenInv'
  <1>1. ModuleGoesOn /\ HistOK'
    BY SeenIs, SameGoesOn DEF HistOK
  <1>2. Sound'
    BY <1>1, SoundStays
  <1>3. Reserved'
    BY <1>1, SeenIs, SameBirths, ReservedStays
  <1> QED
    BY <1>1, <1>2, <1>3, SeenNext

LEMMA AgendaIs == ASSUME Agenda PROVE UNCHANGED <<doc, hist, seen>>
  BY DEF Agenda, moduleVars, envVars

\* The listing matters to the jobs that follow it only.
LEMMA NoListing ==
    ASSUME agenda' = <<>> \/ Head(agenda') \notin {"reconcile", "missing"} PROVE ListedRight'
  BY DEF ListedRight

LEMMA FollowerIs ==
    ASSUME IInv, agenda # <<>>, agenda' = Tail(agenda)
    PROVE agenda' # <<>> => /\ Head(agenda') = "reconcile" => Head(agenda) = "list"
                            /\ Head(agenda') = "missing" => Head(agenda) = "reconcile"
  <1>1. agenda \in Seq(Jobs) /\ Ordered(agenda)
    BY IInvIs DEF WorkOK
  <1>2. agenda' # <<>> /\ Head(agenda') \in Followers => Head(agenda) = Before(Head(agenda'))
    BY <1>1, TailOrdered
  <1> QED
    BY <1>2 DEF Followers, Before

LEMMA ListSeen == ASSUME IInv, ~RetryReturnsAny, SeenInv, List PROVE SeenInv'
  <1>1. op.k = "idle" /\ agenda # <<>> /\ Head(agenda) = "list" /\ agenda' = Tail(agenda)
        /\ NoDecision /\ UNCHANGED <<doc, hist, seen>> /\ op' = op /\ rec' = rec
    BY QuietIs, AgendaIs DEF List, Doing, Finish, NoDecision
  <1>2. ASSUME NEW d \in Docs, listed'[d] = None, Known(d)' PROVE StaleRecord(d)'
    <2>1. ~Readable(d)
      <3>1. ASSUME Readable(d) PROVE FALSE
        <4>1. listed'[d] = <<doc[d].path, Current(d)>>
          BY <1>2, <3>1 DEF List
        <4>2. doc[d].path \in Paths /\ Current(d) \in Nat
          BY <1>2, SeenIs DEF DocOK, HistOK, Current
        <4> QED
          BY <1>2, <4>1, <4>2, RecordAssumption
      <3> QED
        BY <3>1
    <2> QED
      BY <1>1, <2>1, SeenIs DEF Readable, AllReadable, StaleRecord, Stale
  <1>3. ASSUME NEW d \in Docs, listed'[d] # None
        PROVE hist'[d] # <<>> /\ doc'[d].path = listed'[d][1]
    <2>1. Readable(d) /\ listed'[d] = <<doc[d].path, Current(d)>>
      BY <1>3 DEF List
    <2> QED
      BY <1>1, <2>1, SeenIs DEF Readable, HistFits
  <1>4. ListedRight'
    BY <1>1, <1>2, <1>3, FollowerIs DEF ListedRight
  <1> QED
    BY <1>1, <1>4, PlainSeen

LEMMA ReconcileSeen ==
    ASSUME IInv, ~RetryReturnsAny, SeenInv, NEW d \in Docs, ReconcileDoc(d) PROVE SeenInv'
  <1>1. agenda # <<>> /\ Head(agenda) = "reconcile" /\ d \in todo
        /\ op' = Step("relist", d, listed[d][1], listed[d][2], Nothing)
        /\ UNCHANGED <<doc, hist, seen, file, copies, rec, pending, agenda, listed>>
    BY AgendaIs DEF ReconcileDoc, Doing, diskVars
  <1>2. listed[d] # None
    BY <1>1, IInvIs DEF TodoFits
  <1>3. hist[d] # <<>> /\ doc[d].path = listed[d][1]
    BY <1>1, <1>2, SeenIs DEF ListedRight
  <1>4. op'.k = "relist" /\ op'.id = d /\ op'.path = listed[d][1] /\ op'.conf = None
    BY <1>1, StepHas
  <1>5. Working'
    BY <1>1, <1>3, <1>4 DEF Working, InPlace, Replaceable, SentAsSeen, Filed, Fetched, Sent
  <1>6. ListedRight'
    BY <1>1, <1>2, <1>4, SeenIs DEF ListedRight, Known, StaleRecord, Stale, Current
  <1> QED
    BY <1>1, <1>5, <1>6, SameFolder, StillKeeps, DecidedSeen

LEMMA ReconciledSeen == ASSUME IInv, ~RetryReturnsAny, SeenInv, AllReconciled PROVE SeenInv'
  <1>1. agenda # <<>> /\ Head(agenda) = "reconcile" /\ agenda' = Tail(agenda)
        /\ NoDecision /\ UNCHANGED <<doc, hist, seen>> /\ rec' = rec
        /\ todo' = {d \in Docs : Known(d) /\ listed[d] = None}
    BY AgendaIs DEF AllReconciled, Doing, Finish, NoDecision
  <1>2. \A d \in todo' : StaleRecord(d)'
    BY <1>1, SeenIs DEF ListedRight, StaleRecord, Stale, Current
  <1>3. ListedRight'
    BY <1>1, <1>2, FollowerIs DEF ListedRight
  <1> QED
    BY <1>1, <1>3, PlainSeen

LEMMA NotListedSeen ==
    ASSUME IInv, ~RetryReturnsAny, SeenInv, NEW d \in Docs, NotListed(d) PROVE SeenInv'
  <1>1. agenda # <<>> /\ Head(agenda) = "missing" /\ d \in todo /\ MoveAside(d)
        /\ UNCHANGED <<doc, hist, seen, agenda, listed>> /\ todo' \subseteq todo
    BY AgendaIs DEF NotListed, Doing
  <1>2. Known(d) /\ StaleRecord(d)
    BY <1>1, IInvIs, SeenIs DEF TodoFits, ListedRight
  <1>3. KeepsShown /\ Working' /\ rec' = rec /\ pending' = pending
    BY <1>1, <1>2, AsideSeen
  <1>4. ListedRight'
    BY <1>1, <1>3, SeenIs DEF ListedRight, Known, StaleRecord, Stale, Current
  <1> QED
    BY <1>1, <1>3, <1>4, DecidedSeen

\* The jobs that use no listing.
LEMMA OtherJobsSeen ==
    ASSUME IInv, ~RetryReturnsAny, SeenInv, AllMoved \/ StartScan \/ ScanDone \/ StampFull
    PROVE SeenInv'
  <1>1. agenda # <<>> /\ Head(agenda) \notin {"list", "reconcile"} /\ agenda' = Tail(agenda)
        /\ NoDecision /\ UNCHANGED <<doc, hist, seen>>
    BY AgendaIs DEF AllMoved, StartScan, ScanDone, StampFull, Doing, Finish
  <1>2. ListedRight'
    BY <1>1, FollowerIs, NoListing
  <1> QED
    BY <1>1, <1>2, PlainSeen

LEMMA PagesSeen ==
    ASSUME IInv, ~RetryReturnsAny, SeenInv, ReadPage \/ PageDone PROVE SeenInv'
  <1>1. agenda # <<>> /\ Head(agenda) \in {"read", "apply"} /\ agenda \in Seq(Jobs)
        /\ NoDecision /\ UNCHANGED <<doc, hist, seen>>
        /\ agenda' \in {Tail(agenda), Full \o agenda, CatchUp \o Tail(agenda)}
    BY AgendaIs, IInvIs DEF ReadPage, PageDone, Doing, Finish, WorkOK
  <1>2. CASE agenda' = Tail(agenda)
    BY <1>1, <1>2, FollowerIs, NoListing, PlainSeen
  <1>3. CASE agenda' = Full \o agenda
    <2>1. Head(agenda') = "list"
      BY <1>1, <1>3 DEF Full
    <2> QED
      BY <1>1, <2>1, NoListing, PlainSeen
  <1>4. CASE agenda' = CatchUp \o Tail(agenda)
    <2>1. Tail(agenda) \in Seq(Jobs)
      BY <1>1
    <2>2. Head(agenda') = "read"
      BY <1>4, <2>1 DEF CatchUp
    <2> QED
      BY <1>1, <2>2, NoListing, PlainSeen
  <1> QED
    BY <1>1, <1>2, <1>3, <1>4

\* What an entry or a notification says of a document.
LEMMA SaidSeen ==
    ASSUME IInv, ~RetryReturnsAny, SeenInv, NEW e \in Entries \cup Notices,
           \/ e.type = "deleted" /\ Past(e, hist, doc) /\ RemoteDeleted(e.id, e.ver)
           \/ e.type # "deleted" /\ e.id \in Docs /\ RemoteChanged(e.id, e.path, e.ver),
           UNCHANGED <<doc, hist, seen>>, ListedRight'
    PROVE SeenInv'
  <1>1. CASE e.type = "deleted" /\ Past(e, hist, doc) /\ RemoteDeleted(e.id, e.ver)
    <2>1. e.id \in Docs /\ e.ver \in Nat
      BY <1>1 DEF Entries, Notices
    <2>2. Current(e.id) \in Nat
      BY <2>1, SeenIs DEF HistOK, Current
    <2>3. 0 < e.ver /\ (doc[e.id].life = "live" => e.ver < Current(e.id))
      BY <1>1 DEF Past, Current
    <2>4. ASSUME Known(e.id) PROVE StaleRecord(e.id) \/ ~(e.ver = 0 \/ rec[e.id].ver <= e.ver)
      <3>1. rec[e.id].ver \in Nat
        BY <2>1, <2>4, KnownIs
      <3> QED
        BY <2>1, <2>2, <2>3, <3>1 DEF StaleRecord, Stale
    <2>5. KeepsShown /\ Working' /\ rec' = rec /\ pending' = pending
      BY <1>1, <2>1, <2>4, DeletedSeen
    <2> QED
      BY <2>5, DecidedSeen
  <1>2. CASE RemoteChanged(e.id, e.path, e.ver)
    <2>1. Ignore \/ Fetch(e.id, Known(e.id))
      BY <1>2 DEF RemoteChanged
    <2>2. PICK h : Fetch(e.id, h) \/ Ignore
      BY <2>1
    <2>3. Working' /\ StillThere /\ rec' = rec /\ pending' = pending
      BY <2>2, AskOrLeave
    <2> QED
      BY <2>3, StillKeeps, DecidedSeen
  <1> QED
    BY <1>1, <1>2

LEMMA ApplySeen == ASSUME IInv, AllPast, ~RetryReturnsAny, SeenInv, ApplyChange PROVE SeenInv'
  <1>1. agenda # <<>> /\ Head(agenda) = "apply" /\ agenda' = agenda /\ UNCHANGED <<doc, hist, seen>>
    BY AgendaIs DEF ApplyChange, Doing
  <1>2. ListedRight'
    BY <1>1, NoListing
  <1>3. page.at \in Nat /\ page.end \in Nat /\ page.end <= Len(feed) /\ feed \in Seq(Entries)
    BY IInvIs, ModuleOKIs DEF WorkOK, PageOK, FeedOK
  <1>4. page.at + 1 \in DOMAIN feed
    BY <1>3 DEF ApplyChange
  <1>5. PICK e \in Entries : e = feed[page.at + 1]
    BY <1>3, <1>4
  <1>6. Past(e, hist, doc) /\ e.id \in Docs
    BY <1>4, <1>5 DEF AllPast, PastAll, Entries
  <1>7. \/ e.type = "deleted" /\ RemoteDeleted(e.id, e.ver)
        \/ e.type # "deleted" /\ RemoteChanged(e.id, e.path, e.ver)
    BY <1>5 DEF ApplyChange
  <1> QED
    BY <1>1, <1>2, <1>6, <1>7, SaidSeen

LEMMA ScanSeen ==
    ASSUME IInv, ~RetryReturnsAny, SeenInv, NEW p \in Paths, ScanFile(p) PROVE SeenInv'
  <1>1. Head(agenda) = "visit" /\ agenda' = agenda /\ LocalChanged(p) /\ UNCHANGED <<doc, hist, seen>>
    BY AgendaIs DEF ScanFile, Doing
  <1>2. ListedRight'
    BY <1>1, NoListing
  <1> QED
    BY <1>1, <1>2, LocalChangedSeen, SeenNext

LEMMA AgendaStepSeen ==
    ASSUME IInv, AllPast, ~RetryReturnsAny, SeenInv, AgendaStep PROVE SeenInv'
  BY ListSeen, ReconcileSeen, ReconciledSeen, NotListedSeen, OtherJobsSeen, PagesSeen, ApplySeen,
     ScanSeen DEF AgendaStep

LEMMA NoteSeen == ASSUME IInv, AllPast, ~RetryReturnsAny, SeenInv, HandleNote PROVE SeenInv'
  <1>1. notes # <<>> /\ notes \in Seq(Notices) /\ agenda = <<>>
    BY IInvIs, ModuleOKIs DEF HandleNote, Selecting, FeedOK
  <1>2. PICK n \in Notices : n = Head(notes) /\ n = notes[1] /\ 1 \in DOMAIN notes
    BY <1>1
  <1>3. /\ agenda' = IF n.type = "access" THEN Full ELSE agenda
        /\ \/ n.type = "access" /\ NoDecision
           \/ n.type = "deleted" /\ RemoteDeleted(n.id, n.ver)
           \/ n.type = "changed" /\ RemoteChanged(n.id, n.path, n.ver)
           \/ n.type = "unlocked" /\ IF n.id \in retry /\ Known(n.id)
                                     THEN LocalChanged(rec[n.id].path) ELSE Ignore
    BY <1>2 DEF HandleNote
  <1>4. UNCHANGED <<doc, hist, seen>>
    BY DEF HandleNote, moduleVars, envVars
  <1>5. ListedRight'
    <2>1. agenda' = <<>> \/ Head(agenda') = "list"
      BY <1>1, <1>3, PlansOrdered
    <2> QED
      BY <2>1, NoListing
  <1>6. CASE NoDecision
    BY <1>4, <1>5, <1>6, PlainSeen
  <1>7. CASE \/ n.type = "deleted" /\ RemoteDeleted(n.id, n.ver)
             \/ n.type = "changed" /\ RemoteChanged(n.id, n.path, n.ver)
    <2>1. Past(n, hist, doc)
      BY <1>2 DEF AllPast, PastAll
    <2>2. n.id \in Docs
      BY <1>7 DEF Notices, Entries
    <2>3. \/ n.type = "deleted" /\ Past(n, hist, doc) /\ RemoteDeleted(n.id, n.ver)
          \/ n.type # "deleted" /\ n.id \in Docs /\ RemoteChanged(n.id, n.path, n.ver)
      BY <1>7, <2>1, <2>2
    <2> QED
      BY <1>4, <1>5, <2>3, SaidSeen
  <1>8. CASE n.id \in retry /\ Known(n.id) /\ LocalChanged(rec[n.id].path)
    <2>1. n.id \in Docs
      BY <1>8, IInvIs DEF MemOK
    <2>2. PICK p \in Paths : p = rec[n.id].path
      BY <1>8, <2>1, KnownIs
    <2> QED
      BY <1>4, <1>5, <1>8, <2>2, LocalChangedSeen, SeenNext
  <1>9. CASE Ignore
    <2>1. Working' /\ StillThere /\ rec' = rec /\ pending' = pending
      BY <1>4, <1>9, AskOrLeave
    <2> QED
      BY <1>4, <1>5, <2>1, StillKeeps, DecidedSeen
  <1> QED
    BY <1>3, <1>6, <1>7, <1>8, <1>9

LEMMA LoopStepSeen == ASSUME IInv, AllPast, ~RetryReturnsAny, SeenInv, LoopStep PROVE SeenInv'
  <1>1. CASE StartSession \/ Tick \/ Reconnected \/ FullCheck
    <2>1. NoDecision /\ UNCHANGED <<doc, hist, seen>> /\ agenda' \in {Full, CatchUp, CatchUp \o Scan}
      BY <1>1 DEF StartSession, Tick, Reconnected, FullCheck, Begin, moduleVars, envVars
    <2>2. Head(agenda') \in {"list", "read"}
      BY <2>1, PlansOrdered
    <2> QED
      BY <2>1, <2>2, NoListing, PlainSeen
  <1>2. CASE Online
    <2>1. NoDecision /\ UNCHANGED <<doc, hist, seen>> /\ agenda' = <<>>
      BY <1>2 DEF Online, moduleVars, envVars, loopVars
    <2> QED
      BY <2>1, NoListing, PlainSeen
  <1>3. ASSUME NEW p \in Paths, HandleDue(p) PROVE SeenInv'
    <2>1. LocalChanged(p) /\ UNCHANGED <<doc, hist, seen>> /\ agenda' = <<>>
      BY <1>3 DEF HandleDue, Selecting, moduleVars, envVars, loopVars
    <2> QED
      BY <2>1, NoListing, LocalChangedSeen, SeenNext
  <1> QED
    BY <1>1, <1>2, <1>3, NoteSeen DEF LoopStep

\* What goes wrong.
LEMMA MisfortuneSeen == ASSUME IInv, ~RetryReturnsAny, SeenInv, Misfortune PROVE SeenInv'
  <1>1. UNCHANGED <<file, copies, seen>>
    BY DEF Misfortune, Crash, Unreachable, ReplyLost, RequestFails, ListingFails, FailsAfterDoing,
           Refused, Fault, diskVars
  <1>2. ASSUME pending' = pending PROVE \A q \in Paths : pending'[q] \in {None, pending[q]}
    BY <1>2
  <1>3. ASSUME UNCHANGED <<moduleVars, rec, pending>>, EndSession PROVE SeenInv'
    <2>1. op'.k = "idle" /\ op'.conf = None /\ agenda' = <<>> /\ UNCHANGED <<doc, hist, rec>>
      BY <1>3, IdleHas DEF EndSession, moduleVars
    <2> QED
      BY <1>1, <1>2, <1>3, <2>1, IdleSeen
  <1>4. CASE Crash \/ Unreachable
    BY <1>3, <1>4 DEF Crash, Unreachable
  <1>5. CASE ReplyLost \/ FailsAfterDoing
    <2>1. /\ Done /\ UNCHANGED <<rec, pending>> /\ op'.k = "idle" /\ op'.conf = None
          /\ agenda' = <<>> \/ UNCHANGED <<agenda, listed, todo>>
      BY <1>5, IdleHas DEF ReplyLost, FailsAfterDoing, EndSession, loopVars
    <2>2. ModuleGoesOn /\ HistOK' /\ Sound' /\ Reserved'
      BY <1>1, <1>2, <2>1, DoneSound
    <2>3. Working'
      BY <2>1, IdleWorks
    <2>4. ListedRight'
      <3>1. CASE agenda' = <<>>
        BY <3>1, NoListing
      <3>2. CASE UNCHANGED <<agenda, listed, todo>>
        BY <2>1, <2>2, <3>2, ListedStays
      <3> QED
        BY <2>1, <3>1, <3>2
    <2> QED
      BY <2>2, <2>3, <2>4, SeenNext
  <1>6. CASE RequestFails \/ Refused
    <2>1. op'.k = "idle" /\ op'.conf = None /\ UNCHANGED <<doc, hist, rec, agenda, listed, todo>>
      BY <1>6, IdleHas DEF RequestFails, Refused, moduleVars, loopVars
    <2>2. \A q \in Paths : pending'[q] \in {None, pending[q]}
      <3>1. CASE pending' = pending
        BY <1>2, <3>1
      <3>2. CASE op.k = "create" /\ pending' = [pending EXCEPT ![op.path] = None]
        BY <3>2, SeenIs, OpIs, DropsOne
      <3> QED
        BY <1>6, <3>1, <3>2 DEF RequestFails, Refused
    <2> QED
      BY <1>1, <2>1, <2>2, IdleSeen
  <1>7. CASE ListingFails
    <2>1. UNCHANGED <<moduleVars, rec, pending, doc, hist>>
      BY <1>7 DEF ListingFails, moduleVars
    <2>2. CASE EndSession
      BY <1>3, <2>1, <2>2
    <2>3. CASE agenda' = <<>> /\ op' = op
      <3>1. NoDecision
        BY <1>7, <2>1, <2>3 DEF ListingFails, Fault, NoDecision
      <3> QED
        BY <1>1, <2>1, <2>3, <3>1, NoListing, PlainSeen
    <2> QED
      BY <1>7, <2>2, <2>3 DEF ListingFails
  <1> QED
    BY <1>4, <1>5, <1>6, <1>7 DEF Misfortune

\* Nothing of the engine's: its work stays right.
LEMMA WorldSeen ==
    ASSUME IInv, HistOK', ~RetryReturnsAny, SeenInv, ModuleGoesOn, StillThere, BornInPlace,
           UNCHANGED <<op, rec, pending, agenda, listed, todo>>
    PROVE SeenInv'
  <1>1. Sound'
    BY StillKeeps, SoundStays
  <1>2. Reserved'
    BY SeenIs, ReservedStays
  <1>3. Working'
    BY WorkingStays
  <1>4. ListedRight'
    BY ListedStays
  <1> QED
    BY <1>1, <1>2, <1>3, <1>4, SeenNext

\* What the person takes away they have in front of them.
LEMMA PeopleSeen == ASSUME IInv, ~RetryReturnsAny, SeenInv, People PROVE SeenInv'
  <1>1. UNCHANGED <<doc, hist, op, rec, pending, agenda, listed, todo>>
    BY DEF People, PersonSaves, PersonTakesCopy, PersonRemoves, PersonRemovesCopy, Person,
           dbVars, loopVars
  <1>2. file \in [Paths -> Nat] /\ \A c \in copies : c.body # Nothing
    BY SeenIs DEF Core, Types, FilesOK, Copies, Contents, Nothing
  <1>3. ASSUME NEW p, NEW x, file' = [file EXCEPT ![p] = x], file[p] \in seen' \cup {Nothing},
               seen \subseteq seen', copies' = copies
        PROVE StillThere
    <2>1. \A q \in Paths : q # p => file'[q] = file[q]
      BY <1>2, <1>3
    <2> QED
      BY <1>3, <2>1 DEF StillThere
  <1>4. ASSUME NEW p \in Paths, PersonSaves(p) PROVE StillThere
    BY <1>3, <1>4 DEF PersonSaves, Looks
  <1>5. ASSUME NEW p \in Paths, PersonRemoves(p) PROVE StillThere
    BY <1>3, <1>5 DEF PersonRemoves, Looks
  <1>6. ASSUME NEW c \in copies, PersonTakesCopy(c) PROVE StillThere
    BY <1>3, <1>6 DEF PersonTakesCopy, Looks
  <1>7. ASSUME NEW c \in copies, PersonRemovesCopy(c) PROVE StillThere
    BY <1>2, <1>7 DEF PersonRemovesCopy, Looks, StillThere
  <1>8. StillThere
    BY <1>4, <1>5, <1>6, <1>7 DEF People
  <1> QED
    BY <1>1, <1>8, SeenIs, SameGoesOn, SameBirths, WorldSeen DEF HistOK

\* What other people do.
LEMMA OthersSeen ==
    ASSUME IInv, ~RetryReturnsAny, SeenInv, OthersAct, IdsApart, OtherKinds \cap {"move", "access"} = {}
    PROVE SeenInv'
  <1>1. OtherPeople /\ UNCHANGED <<file, copies, seen, op, rec, pending, agenda, listed, todo>>
    BY DEF OthersAct, diskVars, dbVars, loopVars, envVars
  <1>2. ModuleGoesOn /\ HistOK'
    BY <1>1, SeenIs, OthersGoOn, OtherPeopleOK DEF ModuleOK, HistOK
  <1>3. BornInPlace
    <2> SUFFICES ASSUME NEW d \in Docs, hist[d] = <<>>, hist'[d] # <<>>
                 PROVE \A q \in Paths : pending[q] # d
      BY DEF BornInPlace
    <2>1. doc[d].life = "unborn"
      BY SeenIs DEF HistFits
    <2>2. ASSUME NEW e \in Docs, NEW p \in Paths, OtherCreates(e, p) PROVE e = d
      BY <2>2, SeenIs DEF OtherCreates, HistOK
    <2>3. ASSUME NEW e \in Docs, OtherSaves(e) \/ OtherRestores(e) PROVE FALSE
      <3>1. e # d
        BY <2>1, <2>3 DEF OtherSaves, OtherRestores
      <3> QED
        BY <2>3, <3>1, SeenIs DEF OtherSaves, OtherRestores, HistOK
    <2>4. \E e \in Docs, p \in Paths : OtherCreates(e, p)
      <3>1. hist' # hist
        OBVIOUS
      <3> QED
        BY <1>1, <2>3, <3>1 DEF OtherPeople, OtherMoves, OtherDeletes, OtherChangesAccess, OtherLocks,
                                LockEnds, TrimFeed
    <2> QED
      BY <2>2, <2>4 DEF IdsApart
  <1> QED
    BY <1>1, <1>2, <1>3, SameFolder, WorldSeen

LEMMA StepSeen ==
    ASSUME IInv, AllPast, SeenInv, [Next]_vars, IdsApart \/ UNCHANGED vars, ~RetryReturnsAny,
           OtherKinds \cap {"move", "access"} = {}
    PROVE SeenInv'
  <1>1. CASE Engine
    BY <1>1, OpStepSeen, AgendaStepSeen, LoopStepSeen DEF Engine
  <1>2. CASE UNCHANGED vars
    <2>1. UNCHANGED <<doc, hist, file, copies, seen, op, rec, pending, agenda, listed, todo>>
      BY <1>2 DEF vars, moduleVars, diskVars, dbVars, loopVars, envVars
    <2> QED
      BY <2>1, SeenIs, SameGoesOn, SameBirths, SameFolder, WorldSeen DEF HistOK
  <1> QED
    BY <1>1, <1>2, MisfortuneSeen, PeopleSeen, OthersSeen DEF Next

\* At first there is nothing to lose.
LEMMA SeenInit == Init => SeenInv
  <1> SUFFICES ASSUME Init PROVE SeenInv
    OBVIOUS
  <1>1. /\ agenda = <<>> /\ op.k = "idle" /\ op.conf = None
        /\ \A p \in Paths : pending[p] = None
        /\ \A d \in Docs : /\ ~Known(d) /\ doc[d].readable /\ doc[d].path = Home[d]
                           /\ doc[d].life = "live" => d \in Initial
    BY IdleHas DEF Init, ModuleInit, Known
  <1>2. AllReadable /\ Apart
    BY <1>1, HomeAssumption DEF AllReadable, Apart
  <1>3. Sound /\ Reserved /\ ListedRight
    BY <1>1 DEF Sound, Rooted, Backed, Reserved, ListedRight
  <1>4. Working
    BY <1>1 DEF Working, InPlace, Replaceable, SentAsSeen, Filed, Fetched, Sent
  <1> QED
    BY <1>2, <1>3, <1>4 DEF SeenInv

\* A document's versions change when somebody else acts, or the module does what it
\* was asked.
LEMMA WhoWrites == ASSUME IInv, [Next]_vars, acts' = acts PROVE hist' = hist \/ Done
  <1>1. acts \in Nat
    BY IInvIs, ModuleOKIs DEF CountersOK
  <1>2. CASE OpStep
    <2>1. CASE Update \/ Create
      BY <2>1 DEF Update, Create, Done, moduleVars
    <2>2. CASE ~(Update \/ Create)
      BY <1>2, <2>2 DEF OpStep, Relist, MoveFile, MoveRecord, Get, Place, Write, Put, Remove, Forget,
                        ClearPending, Local, moduleVars
    <2> QED
      BY <2>1, <2>2
  <1>3. CASE AgendaStep
    BY <1>3, AgendaIs DEF AgendaStep, List, AllReconciled, AllMoved, StartScan, ScanDone, StampFull,
                ReadPage, ApplyChange, PageDone, ReconcileDoc, NotListed, ScanFile
  <1>4. CASE LoopStep
    BY <1>4 DEF LoopStep, StartSession, Online, HandleNote, Tick, Reconnected, FullCheck, HandleDue,
                Begin, moduleVars
  <1>5. CASE Misfortune
    BY <1>5 DEF Misfortune, Crash, Unreachable, ReplyLost, RequestFails, ListingFails, FailsAfterDoing,
                Refused, moduleVars
  <1>6. CASE People
    BY <1>6 DEF People, PersonSaves, PersonTakesCopy, PersonRemoves, PersonRemovesCopy, Person
  <1>7. CASE OthersAct
    <2>1. ~(acts' = acts + 1)
      BY <1>1
    <2> QED
      BY <1>7, <2>1 DEF OthersAct, OtherPeople, OtherCreates, OtherMoves, OtherSaves, OtherDeletes,
                        OtherRestores, OtherChangesAccess, OtherLocks, LockEnds, TrimFeed, Other
  <1>8. CASE UNCHANGED vars
    BY <1>8 DEF vars, moduleVars
  <1> QED
    BY <1>2, <1>3, <1>4, <1>5, <1>6, <1>7, <1>8 DEF Next, Engine

\* What it saved, it saved on a version that was seen.
LEMMA SavedOnSeen ==
    ASSUME IInv, ~RetryReturnsAny, SeenInv, Done, NEW d \in Docs, hist[d] # <<>>, hist'[d] # hist[d]
    PROVE Content(d) \in seen
  <1>1. CASE op.k = "create" /\ CreateReply(op.id, op.path, op.body) = "created"
             /\ ModuleCreates(op.id, op.path, op.body)
    <2>1. hist[op.id] = <<>>
      BY <1>1 DEF CreateReply
    <2>2. hist' = [hist EXCEPT ![op.id] = <<op.body>>]
      BY <1>1 DEF ModuleCreates
    <2> QED
      BY <2>1, <2>2, SeenIs DEF HistOK
  <1>2. CASE op.k = "update" /\ SaveReply(op.id, op.ver, op.body) = "saved"
             /\ ModuleSaves(op.id, op.body)
    <2>1. doc[op.id].life = "live" /\ op.ver = Current(op.id)
      BY <1>2 DEF SaveReply, Readable
    <2>2. hist' = [hist EXCEPT ![op.id] = Append(@, op.body)]
      BY <1>2 DEF ModuleSaves
    <2>3. d = op.id
      BY <2>2, SeenIs DEF HistOK
    <2>4. Stale(op.id, op.ver) \/ hist[op.id][op.ver] \in seen
      BY <1>2, SeenIs DEF SentAsSeen
    <2>5. Current(d) \in Nat
      BY SeenIs DEF HistOK, Current
    <2>6. ~Stale(op.id, op.ver)
      BY <2>1, <2>3, <2>5 DEF Stale
    <2> QED
      BY <2>1, <2>3, <2>4, <2>6 DEF Content
  <1> QED
    BY <1>1, <1>2 DEF Done

\* An edit is "uploaded on top of what they saw" (engine.go:962), whatever is lost,
\* crashes or conflicts, when ids do not collide: of documents that stay where they
\* are and stay readable, no upload replaces a version that the person neither wrote
\* nor had in front of them.
THEOREM EditsOnWhatWasSeen ==
    ~RetryReturnsAny /\ DeleteCarriesVersion /\ OtherKinds \cap {"move", "access"} = {}
    => (Spec /\ [][IdsApart]_vars => UploadsOnWhatWasSeen)
  <1> SUFFICES ASSUME ~RetryReturnsAny, DeleteCarriesVersion, OtherKinds \cap {"move", "access"} = {}
               PROVE Spec /\ [][IdsApart]_vars => UploadsOnWhatWasSeen
    OBVIOUS
  <1>1. Init => AllPast
    BY DEF Init, ModuleInit, AllPast, PastAll
  <1>2. IInv /\ AllPast /\ [Next]_vars => AllPast'
    BY StepPast
  <1>3. IInv /\ AllPast /\ SeenInv /\ [Next]_vars /\ [IdsApart]_vars => SeenInv'
    BY StepSeen
  <1>4. IInv /\ SeenInv /\ [Next]_vars
        => [acts' = acts => \A d \in Docs : hist[d] # <<>> /\ hist'[d] # hist[d]
                                            => Content(d) \in seen]_vars
    BY WhoWrites, SavedOnSeen
  <1> QED
    BY <1>1, <1>2, <1>3, <1>4, SeenInit, Invariant, PTL DEF Spec, UploadsOnWhatWasSeen
=============================================================================
