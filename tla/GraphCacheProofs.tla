-------------------------- MODULE GraphCacheProofs --------------------------
(***************************************************************************)
(* Proofs about GraphCache, for any number of files, contents, processes   *)
(* and scanners: while the user leaves clean files alone under a build and *)
(* does not refill a moved path before staging it, the cache never lies.   *)
(* Nor is it left alone or written anew at a loss: where nobody touches    *)
(* anything under a build it would write what it read, and where no other  *)
(* process runs what it writes has every entry that is still valid.        *)
(***************************************************************************)
EXTENDS GraphCache, TLAPS

-----------------------------------------------------------------------------
(* Type correctness *)

\* A build holds nothing between runs, knows its scanner in one, and has chosen no file to
\* scan before it reads the cache, and writes the cache after the last of them.
Started ==
  \A p \in Proc :
    /\ IF pc[p] = "idle" THEN job[p].files = {} ELSE job[p].id \in Scanner
    /\ ~ Scanning(p) => job[p].toScan = {}
    /\ pc[p] = "save" => job[p].todo = {}

TypeInv == TypeOK /\ Started

\* The scan of a content is a scan result, and never the missing one.
LEMMA ScanOfType ==
  ASSUME NEW b \in Blob, NEW s \in Scanner
  PROVE  ScanOf[<<b, s>>] \in ScanResult /\ ScanOf[<<b, s>>] # None
BY ScanOfIsTotal DEF ScanResult

LEMMA NoJobType == NoJob \in Job
BY DEF NoJob, Job, NoHead, Tree, Miss, OldCache, Entries, NoResults, Results

\* What readCache returns has the type of a cache in memory.
LEMMA ReadCacheFileType ==
  ASSUME TypeOK, NEW id
  PROVE  ReadCacheFile(id) \in OldCache
BY DEF TypeOK, ReadCacheFile, CacheFile, OldCache, Miss, NoHead, Tree, Entries

\* One scanned file: cached, missing or read.
LEMMA ScanCachedType ==
  ASSUME NEW j \in Job, NEW f \in File, j.id \in Scanner,
         NEW content \in Blob \cup {Absent}
  PROVE  ScanCached(j, f, content) \in ScanResult \cup {None}
<1>1. CASE Fresh(j, f)
  <2>1. j.old.entry[f] \in Entry
    BY <1>1 DEF Fresh, Job, OldCache, Entries
  <2>. QED  BY <1>1, <2>1 DEF ScanCached, Entry
<1>2. CASE ~ Fresh(j, f)
  BY <1>2, ScanOfType DEF ScanCached
<1>. QED  BY <1>1, <1>2

\* What writeCache writes is a cache file.
LEMMA NewCacheType ==
  ASSUME NEW j \in Job, j.id \in Scanner
  PROVE  NewCache(j) \in CacheFile
<1>1. ASSUME NEW f \in File
      PROVE  NewEntry(j, f) \in Entry \cup {None}
  <2>1. RecordedBlob(j, f) \in Blob \cup {Absent}
    BY DEF RecordedBlob, Job, Tree
  <2>2. j.result[f] \in ScanResult \cup {None}
    BY DEF Job, Results
  <2>3. Kept(j, f) => j.old.entry[f].scan \in ScanResult
    BY DEF Kept, Fresh, Job, OldCache, Entries, Entry
  <2>. QED  BY <2>1, <2>2, <2>3 DEF NewEntry, Entry
<1>2. j.head \in Tree
  BY DEF Job
<1>. QED  BY <1>1, <1>2 DEF NewCache, CacheFile, Entries

\* No step leaves the types or forgets a running build's scanner.
LEMMA NextTypeInv == TypeInv /\ [Next]_vars => TypeInv'
<1> SUFFICES ASSUME TypeInv, [Next]_vars PROVE TypeInv'
  OBVIOUS
<1> USE DEF TypeInv, user, Scanning
<1>1. CASE UNCHANGED vars
  BY <1>1 DEF vars, TypeOK, Started
<1>2. CASE UserStep
  <2>1. wt' \in Tree /\ head' \in Tree
    BY <1>2 DEF UserStep, InPlaceStep, Edit, Move, Commit, Checkout, Reset, Reconfigure,
                LoseCache, TypeOK, Tree
  <2>2. moved' \subseteq File /\ scanner' \in Scanner
    BY <1>2 DEF UserStep, InPlaceStep, Edit, Move, Commit, Checkout, Reset, Reconfigure,
                LoseCache, TypeOK
  <2>3. cache' \in CacheFile \cup {NoCache} /\ UNCHANGED <<pc, job>>
    BY <1>2 DEF UserStep, InPlaceStep, Edit, Move, Commit, Checkout, Reset, Reconfigure,
                LoseCache, TypeOK
  <2>. QED  BY <2>1, <2>2, <2>3 DEF TypeOK, Started
<1>3. ASSUME NEW p \in Proc, BuildStep(p) \/ Abort(p) PROVE TypeInv'
  <2>. job[p] \in Job /\ pc[p] \in Steps
    BY DEF TypeOK
  <2>1. CASE Start(p)
    BY <2>1 DEF Start, TypeOK, Started, Job, Steps
  <2>2. CASE ListFiles(p)
    BY <2>2 DEF ListFiles, TypeOK, Started, Job, Steps, Listed
  <2>3. CASE ReadHead(p)
    BY <2>3 DEF ReadHead, TypeOK, Started, Job, Steps
  <2>4. CASE ReadChanged(p)
    BY <2>4 DEF ReadChanged, TypeOK, Started, Job, Steps, ChangedSet
  <2>5. CASE ReadBlobs(p)
    BY <2>5 DEF ReadBlobs, TypeOK, Started, Job, Steps
  <2>6. ASSUME NEW vouched \in SUBSET Vouched, ReadCache(p, vouched)
        PROVE  TypeInv'
    BY <2>6, ReadCacheFileType DEF ReadCache, ToScan, TypeOK, Started, Job, Steps
  <2>7. ASSUME NEW f \in File, ScanFile(p, f) PROVE TypeInv'
    <3>1. ScanCached(job[p], f, wt[f]) \in ScanResult \cup {None}
      BY <2>7, ScanCachedType DEF ScanFile, TypeOK, Started, Tree
    <3>2. job'[p].result \in Results
      BY <2>7, <3>1 DEF ScanFile, TypeOK, Job, Results
    <3>. QED  BY <2>7, <3>2 DEF ScanFile, TypeOK, Started, Job
  <2>8. CASE Decide(p)
    BY <2>8 DEF Decide, TypeOK, Started, Steps
  <2>9. CASE Save(p)
    BY <2>9, NewCacheType DEF Save, TypeOK, Started, Steps
  <2>10. CASE Finish(p) \/ Abort(p)
    <3>1. NoJob.todo = {} /\ NoJob.toScan = {} /\ NoJob.files = {}
      BY DEF NoJob
    <3>. QED  BY <2>10, <3>1, NoJobType DEF Finish, Abort, TypeOK, Started, Steps
  <2>. QED  BY <1>3, <2>1, <2>2, <2>3, <2>4, <2>5, <2>6, <2>7, <2>8, <2>9,
               <2>10 DEF BuildStep
<1>. QED  BY <1>1, <1>2, <1>3 DEF Next

LEMMA InitTypeInv == Init => TypeInv
BY NoJobType DEF Init, TypeInv, Scanning, TypeOK, Started, Steps, NoJob

\* Every variable keeps its type: in particular a build only ever scans
\* files it listed, whatever graphify vouches for.
THEOREM TypeCorrect == Spec => []TypeOK
<1>1. TypeInv => TypeOK
  BY DEF TypeInv
<1>. QED  BY <1>1, InitTypeInv, NextTypeInv, PTL DEF Spec

-----------------------------------------------------------------------------
(* The cache never lies *)

\* The user's discipline: what git commands report about a clean file stays
\* true until the build that read it is over.
Disciplined == DuringBuild # "anything" /\ ~ RefillsMovedFiles

\* The path a `git mv` emptied stays empty, and HEAD still has a file there.
MovedAreGone == \A f \in moved : wt[f] = Absent /\ head[f] # Absent

\* An entry that names a blob holds that blob's scan under s.
Honest(entry, s) ==
  \A f \in File : entry[f] # None /\ entry[f].blob # Absent =>
    entry[f].scan = ScanOf[<<entry[f].blob, s>>]

\* A file build p listed and did not find changed.
Clean(p, f) == f \in job[p].files \ job[p].changed

\* What a running build has read is still so: its listed files are not moved
\* away, those it did not find changed are as HEAD has them, at the blob ids
\* it read.
StillClean ==
  \A p \in Proc :
    /\ pc[p] # "idle" => job[p].files \cap moved = {}
    /\ (pc[p] = "blobs" \/ pc[p] = "cache" \/ Scanning(p)) =>
         \A f \in File : Clean(p, f) => wt[f] = head[f]
    /\ (pc[p] = "cache" \/ Scanning(p)) =>
         \A f \in File : Clean(p, f) => job[p].blobs[f] = head[f]

\* What a build carries is honest: the cache it read, and each result it has
\* for a file it did not find changed.  Before the scan it carries nothing.
Truthful(j) ==
  /\ Honest(j.old.entry, j.id)
  /\ \A f \in File : j.result[f] # None =>
       /\ f \in j.toScan
       /\ f \notin j.changed =>
            /\ j.blobs[f] # Absent
            /\ j.result[f] = ScanOf[<<j.blobs[f], j.id>>]

CarriesTruth ==
  \A p \in Proc :
    /\ ~ Scanning(p) => job[p].old = Miss /\ job[p].result = NoResults
    /\ Truthful(job[p])

\* Whatever graphify vouches for, a changed file is in the files to scan.
ChangedToScan ==
  \A p \in Proc : Scanning(p) =>
    job[p].files \cap job[p].changed \subseteq job[p].toScan

IInv == MovedAreGone /\ CacheHonest /\ StillClean /\ CarriesTruth /\ ChangedToScan

\* A build that has read no cache and no file carries no lie.
LEMMA EmptyIsTruthful ==
  ASSUME NEW j, j.old = Miss, j.result = NoResults
  PROVE  Truthful(j)
BY DEF Truthful, Honest, Miss, NoResults

LEMMA InitIInv == Init => IInv
<1>. SUFFICES ASSUME Init PROVE IInv
  OBVIOUS
<1>1. MovedAreGone /\ CacheHonest
  BY DEF Init, MovedAreGone, CacheHonest
<1>2. StillClean /\ ChangedToScan
  BY DEF Init, StillClean, ChangedToScan, Scanning
<1>3. CarriesTruth
  BY EmptyIsTruthful DEF Init, CarriesTruth, NoJob
<1>. QED  BY <1>1, <1>2, <1>3 DEF IInv

\* The files a running build has settled on are out of a disciplined user's
\* reach.
LEMMA UserIInv ==
  ASSUME Disciplined, TypeInv, IInv, UserStep
  PROVE  IInv'
<1>. USE DEF Scanning, user
<1>0. UNCHANGED <<pc, job>>
  BY DEF UserStep, InPlaceStep, Edit, Move, Commit, Checkout, Reset, Reconfigure, LoseCache
<1>1. MovedAreGone'
  BY DEF Disciplined, IInv, MovedAreGone, TypeInv, TypeOK, UserStep, InPlaceStep, Tree,
         Edit, Move, Commit, Checkout, Reset, Reconfigure, LoseCache
<1>2. CacheHonest'
  BY DEF IInv, CacheHonest, UserStep, InPlaceStep,
         Edit, Move, Commit, Checkout, Reset, Reconfigure, LoseCache
<1>3. StillClean'
  <2>. SUFFICES ASSUME NEW p \in Proc, pc[p] # "idle"
       PROVE /\ job[p].files \cap moved' = {}
             /\ (pc[p] = "blobs" \/ pc[p] = "cache" \/ Scanning(p)) =>
                  \A f \in File : Clean(p, f) => wt'[f] = head'[f]
             /\ (pc[p] = "cache" \/ Scanning(p)) =>
                  \A f \in File : Clean(p, f) => job[p].blobs[f] = head'[f]
    BY <1>0 DEF StillClean, Clean
  <2>1. ~ Quiet /\ ~ Unwatched
    BY DEF Quiet, Unwatched, Disciplined
  <2>2. CASE \E f \in File, content \in Blob \cup {Absent} : Edit(f, content)
    BY <2>1, <2>2 DEF Edit, IInv, StillClean, Clean, TypeInv, TypeOK, Tree
  <2>3. CASE \E fs \in SUBSET File : Commit(fs)
    BY <2>3 DEF Commit, IInv, StillClean, Clean, TypeInv, TypeOK, Tree
  <2>4. CASE (\E s \in Scanner : Reconfigure(s)) \/ LoseCache
    BY <2>4 DEF Reconfigure, LoseCache, IInv, StillClean, Clean
  <2>. QED  BY <2>1, <2>2, <2>3, <2>4 DEF UserStep, InPlaceStep, Move, Checkout, Reset
<1>4. CarriesTruth' /\ ChangedToScan'
  BY <1>0 DEF IInv, CarriesTruth, ChangedToScan
<1>. QED  BY <1>1, <1>2, <1>3, <1>4 DEF IInv

\* readCache gives an honest cache: one of this scanner, or nothing.
LEMMA ReadCacheFileHonest ==
  ASSUME CacheHonest, NEW id
  PROVE  Honest(ReadCacheFile(id).entry, id)
BY DEF CacheHonest, ReadCacheFile, Honest, Miss

\* writeCache writes an honest cache: it names a blob only for a file that
\* was not changed, and there the result is the scan of that blob.
LEMMA NewCacheHonest ==
  ASSUME TypeInv, IInv, NEW p \in Proc
  PROVE  Honest(NewCache(job[p]).entry, job[p].id)
<1>. DEFINE j == job[p]
<1>. SUFFICES ASSUME NEW f \in File, NewEntry(j, f) # None,
                     NewEntry(j, f).blob # Absent
     PROVE  NewEntry(j, f).scan = ScanOf[<<NewEntry(j, f).blob, j.id>>]
  BY DEF Honest, NewCache
<1>1. CASE j.result[f] # None
  <2>1. /\ NewEntry(j, f).blob = RecordedBlob(j, f)
        /\ NewEntry(j, f).scan = j.result[f]
    BY <1>1 DEF NewEntry
  <2>2. f \notin j.changed /\ RecordedBlob(j, f) = j.blobs[f]
    BY <2>1 DEF RecordedBlob
  <2>. QED  BY <1>1, <2>1, <2>2 DEF IInv, CarriesTruth, Truthful
<1>2. CASE j.result[f] = None
  <2>1. /\ Fresh(j, f)
        /\ NewEntry(j, f).blob = RecordedBlob(j, f)
        /\ NewEntry(j, f).scan = j.old.entry[f].scan
    BY <1>2 DEF NewEntry, Kept
  <2>2. RecordedBlob(j, f) = j.old.entry[f].blob
    BY <2>1 DEF Fresh, RecordedBlob
  <2>. QED  BY <2>1, <2>2 DEF Fresh, IInv, CarriesTruth, Truthful, Honest
<1>. QED  BY <1>1, <1>2

\* One file scanned while the build's picture of it holds: the result of an
\* unchanged file is the scan of the blob HEAD has, wherever it came from.
LEMMA ScanCachedTruth ==
  ASSUME TypeInv, IInv, NEW p \in Proc, NEW f \in job[p].todo, pc[p] = "scan",
         f \notin job[p].changed,
         ScanCached(job[p], f, wt[f]) # None
  PROVE  /\ job[p].blobs[f] # Absent
         /\ ScanCached(job[p], f, wt[f]) = ScanOf[<<job[p].blobs[f], job[p].id>>]
<1>. DEFINE j == job[p]
<1>1. f \in File /\ Clean(p, f)
  BY DEF TypeInv, TypeOK, Clean, Job
<1>2. wt[f] = head[f] /\ j.blobs[f] = head[f]
  BY <1>1 DEF IInv, StillClean, Scanning
<1>3. CASE Fresh(j, f)
  BY <1>1, <1>3 DEF ScanCached, Fresh, IInv, CarriesTruth, Truthful, Honest
<1>4. CASE ~ Fresh(j, f)
  BY <1>2, <1>4 DEF ScanCached
<1>. QED  BY <1>3, <1>4

\* A step of process p concerns only what p carries.
LEMMA OnlyOneMoves ==
  ASSUME CarriesTruth, NEW p \in Proc,
         \A q \in Proc : q # p => job'[q] = job[q] /\ pc'[q] = pc[q],
         Truthful(job'[p]),
         Scanning(p)' \/ (job'[p].old = Miss /\ job'[p].result = NoResults)
  PROVE  CarriesTruth'
BY DEF CarriesTruth, Truthful, Honest, Scanning

\* No step of a build breaks the invariant.
LEMMA BuildIInv ==
  ASSUME TypeInv, IInv, NEW p \in Proc, BuildStep(p) \/ Abort(p)
  PROVE  IInv'
<1>. USE DEF Scanning, user
<1>. /\ job \in [Proc -> Job] /\ job[p] \in Job
     /\ pc \in [Proc -> Steps] /\ wt \in Tree /\ head \in Tree
     /\ \A q \in Proc : job[q].todo \subseteq job[q].toScan
     /\ \A q \in Proc : ~ Scanning(q) => job[q].toScan = {}
     /\ pc[p] = "idle" => job[p].files = {}
  BY DEF TypeInv, TypeOK, Started
<1>. MovedAreGone /\ CacheHonest /\ StillClean /\ CarriesTruth /\ ChangedToScan
  BY DEF IInv
<1>0. UNCHANGED user
  BY DEF BuildStep, Start, ListFiles, ReadHead, ReadChanged, ReadBlobs,
         ReadCache, ScanFile, Decide, Save, Finish, Abort
<1>a. \A q \in Proc : q # p => job'[q] = job[q] /\ pc'[q] = pc[q]
  BY DEF BuildStep, Start, ListFiles, ReadHead, ReadChanged, ReadBlobs,
         ReadCache, ScanFile, Decide, Save, Finish, Abort
<1>b. ~ Scanning(p) => job[p].old = Miss /\ job[p].result = NoResults
  BY DEF CarriesTruth
<1>c. Truthful(job[p])
  BY DEF CarriesTruth
<1>d. ASSUME job'[p].old = Miss, job'[p].result = NoResults PROVE CarriesTruth'
  BY <1>a, <1>d, EmptyIsTruthful, OnlyOneMoves
<1>1. CASE Start(p)
  <2>1. StillClean'
    BY <1>0, <1>1 DEF Start, StillClean, Clean
  <2>2. CarriesTruth'
    BY <1>1, <1>b, <1>d DEF Start
  <2>. QED
    BY <1>0, <1>1, <2>1, <2>2 DEF Start, IInv, MovedAreGone, CacheHonest, ChangedToScan
<1>2. CASE ListFiles(p)
  <2>1. StillClean'
    BY <1>0, <1>2, SentinelsAreFresh DEF ListFiles, StillClean, Clean, Listed,
       MovedAreGone, Job
  <2>2. CarriesTruth'
    BY <1>2, <1>b, <1>d DEF ListFiles
  <2>. QED
    BY <1>0, <1>2, <2>1, <2>2 DEF ListFiles, IInv, MovedAreGone, CacheHonest,
       ChangedToScan
<1>3. CASE ReadHead(p)
  <2>1. CarriesTruth'
    BY <1>3, <1>b, <1>d DEF ReadHead
  <2>. QED
    BY <1>0, <1>3, <2>1 DEF ReadHead, IInv, MovedAreGone, CacheHonest,
       StillClean, Clean, ChangedToScan
<1>4. CASE ReadChanged(p)
  <2>1. StillClean'
    BY <1>0, <1>4 DEF ReadChanged, StillClean, Clean, ChangedSet
  <2>2. CarriesTruth'
    BY <1>4, <1>b, <1>d DEF ReadChanged
  <2>. QED
    BY <1>0, <1>4, <2>1, <2>2 DEF ReadChanged, IInv, MovedAreGone, CacheHonest,
       ChangedToScan
<1>5. CASE ReadBlobs(p)
  <2>1. StillClean'
    BY <1>0, <1>5 DEF ReadBlobs, StillClean, Clean
  <2>2. CarriesTruth'
    BY <1>5, <1>b, <1>d DEF ReadBlobs
  <2>. QED
    BY <1>0, <1>5, <2>1, <2>2 DEF ReadBlobs, IInv, MovedAreGone, CacheHonest,
       ChangedToScan
<1>6. ASSUME NEW vouched \in SUBSET Vouched, ReadCache(p, vouched)
      PROVE  IInv'
  <2>1. Honest(job'[p].old.entry, job'[p].id)
    BY <1>6, ReadCacheFileHonest DEF ReadCache
  <2>2. CarriesTruth'
    <3>1. job'[p].result = NoResults /\ Scanning(p)'
      BY <1>6, <1>b DEF ReadCache
    <3>2. Truthful(job'[p])
      BY <2>1, <3>1 DEF Truthful, NoResults
    <3>. QED  BY <1>a, <3>1, <3>2, OnlyOneMoves
  <2>3. StillClean' /\ ChangedToScan'
    BY <1>0, <1>6 DEF ReadCache, ToScan, StillClean, Clean, ChangedToScan
  <2>. QED
    BY <1>0, <1>6, <2>2, <2>3 DEF ReadCache, IInv, MovedAreGone, CacheHonest
<1>7. ASSUME NEW f \in File, ScanFile(p, f) PROVE IInv'
  <2>1. CarriesTruth'
    <3>1. \A g \in File : job'[p].result[g] =
            IF g = f THEN ScanCached(job[p], f, wt[f]) ELSE job[p].result[g]
      BY <1>7 DEF ScanFile, Job, Results
    <3>2. ASSUME NEW g \in File, job'[p].result[g] # None
          PROVE  /\ g \in job'[p].toScan
                 /\ g \notin job'[p].changed =>
                      /\ job'[p].blobs[g] # Absent
                      /\ job'[p].result[g] =
                           ScanOf[<<job'[p].blobs[g], job'[p].id>>]
      <4>1. CASE g = f
        BY <1>7, <3>1, <3>2, <4>1, ScanCachedTruth DEF ScanFile
      <4>2. CASE g # f
        BY <1>7, <1>c, <3>1, <3>2, <4>2 DEF ScanFile, Truthful
      <4>. QED  BY <4>1, <4>2
    <3>3. Honest(job'[p].old.entry, job'[p].id)
      BY <1>7, <1>c DEF ScanFile, Truthful
    <3>4. Truthful(job'[p]) /\ Scanning(p)'
      BY <1>7, <3>2, <3>3 DEF Truthful, ScanFile
    <3>. QED  BY <1>a, <3>4, OnlyOneMoves
  <2>. QED
    BY <1>0, <1>7, <2>1 DEF ScanFile, IInv, MovedAreGone, CacheHonest, StillClean,
       Clean, ChangedToScan
<1>8. CASE Decide(p)
  BY <1>0, <1>8 DEF Decide, IInv, MovedAreGone, CacheHonest, StillClean, Clean,
     CarriesTruth, ChangedToScan
<1>9. CASE Save(p)
  <2>1. CacheHonest'
    BY <1>9, NewCacheHonest DEF Save, CacheHonest, Honest, NewCache
  <2>. QED
    BY <1>0, <1>9, <2>1 DEF Save, IInv, MovedAreGone, StillClean, Clean,
       CarriesTruth, ChangedToScan
<1>10. CASE Finish(p) \/ Abort(p)
  <2>1. CarriesTruth'
    BY <1>10, EmptyIsTruthful DEF Finish, Abort, CarriesTruth, NoJob
  <2>. QED
    BY <1>0, <1>10, <2>1 DEF Finish, Abort, IInv, MovedAreGone, CacheHonest,
       StillClean, Clean, ChangedToScan
<1>. QED  BY <1>1, <1>2, <1>3, <1>4, <1>5, <1>6, <1>7, <1>8, <1>9, <1>10
          DEF BuildStep

LEMMA NextIInv ==
  ASSUME Disciplined
  PROVE  TypeInv /\ IInv /\ [Next]_vars => IInv'
<1>. SUFFICES ASSUME TypeInv, IInv, [Next]_vars PROVE IInv'
  OBVIOUS
<1>1. CASE UNCHANGED vars
  BY <1>1 DEF vars, user, IInv, MovedAreGone, CacheHonest, StillClean, Clean,
     CarriesTruth, ChangedToScan, Scanning
<1>. QED  BY <1>1, UserIInv, BuildIInv DEF Next

\* While the user is disciplined, every entry of the cache that names a blob
\* holds the scan of that blob, whichever builds ran at once, died or were
\* overtaken by a commit.
THEOREM CacheIsHonest ==
  ASSUME Disciplined PROVE Spec => []CacheHonest
<1>1. IInv => CacheHonest
  BY DEF IInv
<1>2. Init => TypeInv /\ IInv
  BY InitTypeInv, InitIInv
<1>3. TypeInv /\ IInv /\ [Next]_vars => (TypeInv /\ IInv)'
  BY NextTypeInv, NextIInv
<1>. QED  BY <1>1, <1>2, <1>3, PTL DEF Spec

\* While the user is disciplined, no finished build answered for a file that
\* differs from HEAD with anything but a scan of it.
THEOREM ChangesAreScanned ==
  ASSUME Disciplined PROVE Spec => []EveryChangeScanned
<1>1. TypeInv /\ IInv => EveryChangeScanned
  BY DEF TypeInv, TypeOK, IInv, EveryChangeScanned, StillClean, Clean,
     ChangedToScan, Scanning, Reread, Fresh, Job
<1>2. Init => TypeInv /\ IInv
  BY InitTypeInv, InitIInv
<1>3. TypeInv /\ IInv /\ [Next]_vars => (TypeInv /\ IInv)'
  BY NextTypeInv, NextIInv
<1>. QED  BY <1>1, <1>2, <1>3, PTL DEF Spec

-----------------------------------------------------------------------------
(* The cache changes no answer *)

\* What the scan of one file gives is what reading the file would give.
LEMMA CachedOrReadAlike ==
  ASSUME TypeInv, IInv, NEW p \in Proc, NEW f \in job[p].todo, pc[p] = "scan"
  PROVE  ScanCached(job[p], f, wt[f]) = Uncached!Scanned(wt[f], job[p].id)
<1>. DEFINE j == job[p]
<1>1. f \in File /\ f \in j.files
  BY DEF TypeInv, TypeOK, Job
<1>2. CASE Fresh(j, f)
  <2>1. wt[f] = j.blobs[f] /\ j.blobs[f] # Absent
    BY <1>1, <1>2 DEF Fresh, IInv, StillClean, Clean, Scanning
  <2>2. j.old.entry[f].scan = ScanOf[<<j.blobs[f], j.id>>]
    BY <1>1, <1>2 DEF Fresh, IInv, CarriesTruth, Truthful, Honest
  <2>. QED  BY <1>2, <2>1, <2>2 DEF ScanCached, Uncached!Scanned
<1>3. CASE ~ Fresh(j, f)
  BY <1>3 DEF ScanCached, Uncached!Scanned
<1>. QED  BY <1>2, <1>3

LEMMA UncachedInit == Init => Uncached!Init
BY DEF Init, Uncached!Init, Scanning, NoJob, NoResults, Tree

\* Every step is a step of a build without a cache, or none of its business.
LEMMA UncachedStep ==
  ASSUME TypeInv, IInv, [Next]_vars, TypeInv'
  PROVE  [Uncached!Next]_Uncached!vars
<1>. USE DEF Scanning, user
<1>. job \in [Proc -> Job] /\ pc \in [Proc -> Steps] /\ wt' \in Tree
  BY DEF TypeInv, TypeOK
<1>1. CASE UNCHANGED vars
  BY <1>1 DEF vars, Uncached!vars
<1>2. CASE UserStep
  <2>1. UNCHANGED <<pc, job>>
    BY <1>2 DEF UserStep, InPlaceStep, Edit, Move, Commit, Checkout, Reset, Reconfigure,
                LoseCache
  <2>. QED
    BY <2>1 DEF Uncached!Next, Uncached!UserWrites, Uncached!vars, Tree
<1>3. ASSUME NEW p \in Proc, BuildStep(p) \/ Abort(p)
      PROVE  [Uncached!Next]_Uncached!vars
  <2>0. \A q \in Proc : q # p => job'[q] = job[q] /\ pc'[q] = pc[q]
    BY <1>3 DEF BuildStep, Start, ListFiles, ReadHead, ReadChanged, ReadBlobs,
         ReadCache, ScanFile, Decide, Save, Finish, Abort
  <2>1. CASE \/ Start(p) \/ ListFiles(p) \/ ReadHead(p) \/ ReadChanged(p)
             \/ ReadBlobs(p)
    <3>1. ~ Scanning(p) /\ ~ Scanning(p)' /\ UNCHANGED user
      BY <2>1 DEF Start, ListFiles, ReadHead, ReadChanged, ReadBlobs
    <3>2. job'[p].todo = job[p].todo /\ job'[p].result = job[p].result
      BY <2>1 DEF Start, ListFiles, ReadHead, ReadChanged, ReadBlobs, Job
    <3>. QED  BY <2>0, <3>1, <3>2 DEF Uncached!vars
  <2>2. ASSUME NEW vouched \in SUBSET Vouched, ReadCache(p, vouched)
        PROVE  Uncached!Open(p)
    <3>1. /\ ~ Scanning(p) /\ pc'[p] = "scan" /\ UNCHANGED user
          /\ job'[p].id = job[p].id /\ job[p].id \in Scanner
          /\ job'[p].todo \in SUBSET File /\ job'[p].result = job[p].result
      BY <2>2 DEF ReadCache, ToScan, TypeInv, TypeOK, Started, Job
    <3>. QED  BY <2>0, <3>1 DEF Uncached!Open
  <2>3. ASSUME NEW f \in File, ScanFile(p, f)
        PROVE  Uncached!Read(p, f)
    <3>1. /\ pc[p] = "scan" /\ pc' = pc /\ UNCHANGED user
          /\ f \in job[p].todo /\ job'[p].id = job[p].id
          /\ job'[p].todo = job[p].todo \ {f}
          /\ job'[p].result = [job[p].result EXCEPT
                                 ![f] = ScanCached(job[p], f, wt[f])]
      BY <2>3 DEF ScanFile, Job
    <3>2. ScanCached(job[p], f, wt[f]) = Uncached!Scanned(wt[f], job[p].id)
      BY <3>1, CachedOrReadAlike
    <3>. QED  BY <2>0, <3>1, <3>2 DEF Uncached!Read
  <2>4. CASE Decide(p) \/ Save(p)
    <3>1. /\ UNCHANGED user /\ UNCHANGED job /\ job[p].todo = {}
          /\ pc[p] \in {"scan", "save"}
          /\ pc'[p] \in {"done", "save"}
      BY <2>4 DEF Decide, Save, TypeInv, Started
    <3>2. CASE pc'[p] = "done"
      <4>. Uncached!Answer(p)
        BY <2>0, <3>1, <3>2 DEF Uncached!Answer
      <4>. QED  BY DEF Uncached!Next
    <3>3. CASE pc'[p] = "save"
      BY <2>0, <3>1, <3>3 DEF Uncached!vars
    <3>. QED  BY <3>1, <3>2, <3>3
  <2>5. CASE Finish(p) \/ Abort(p)
    <3>1. /\ UNCHANGED user /\ ~ Scanning(p)'
          /\ job'[p].todo = {} /\ job'[p].result = NoResults
      BY <2>5 DEF Finish, Abort, NoJob
    <3>2. Uncached!Close(p)
      BY <2>0, <3>1 DEF Uncached!Close, NoResults
    <3>. QED  BY <3>2 DEF Uncached!Next
  <2>. QED  BY <1>3, <2>1, <2>2, <2>3, <2>4, <2>5 DEF BuildStep, Uncached!Next
<1>. QED  BY <1>1, <1>2, <1>3 DEF Next

\* While the user is disciplined, rtdd with its cache, its races and its
\* crashes implements a build that reads every file afresh.
THEOREM CacheChangesNoAnswer ==
  ASSUME Disciplined PROVE Spec => ImplementsUncached
<1>1. Init => TypeInv /\ IInv
  BY InitTypeInv, InitIInv
<1>2. TypeInv /\ IInv /\ [Next]_vars => (TypeInv /\ IInv)'
  BY NextTypeInv, NextIInv
<1>3. Init => Uncached!Init
  BY UncachedInit
<1>4. TypeInv /\ IInv /\ TypeInv' /\ [Next]_vars => [Uncached!Next]_Uncached!vars
  BY UncachedStep
<1>. QED
  BY <1>1, <1>2, <1>3, <1>4, PTL DEF Spec, ImplementsUncached, Uncached!Spec

-----------------------------------------------------------------------------
(* The cache is left alone only when it says all, and rewritten at no loss *)

\* What a build has for a file it is done with is what its cache had, where
\* that was fresh, and it has nothing for any other file.
Answers(j) ==
  \A f \in File :
    IF f \in j.toScan \ j.todo THEN Fresh(j, f) => j.result[f] = j.old.entry[f].scan
    ELSE j.result[f] = None

Answered == \A p \in Proc : Answers(job[p])

LEMMA AnsweredAtFirst == Init => Answered
BY DEF Init, Answered, Answers, NoJob, NoResults

LEMMA AnsweredKept == TypeInv /\ Answered /\ [Next]_vars => Answered'
<1>. SUFFICES ASSUME TypeInv, Answered, [Next]_vars PROVE Answered'
  OBVIOUS
<1>. /\ job \in [Proc -> Job] /\ pc \in [Proc -> Steps]
     /\ \A q \in Proc : job[q].todo \subseteq job[q].toScan
     /\ \A q \in Proc : ~ Scanning(q) => job[q].toScan = {}
  BY DEF TypeInv, TypeOK, Started
<1>1. CASE UNCHANGED job
  BY <1>1 DEF Answered, Answers, Fresh
<1>2. CASE UserStep
  BY <1>1, <1>2 DEF UserStep, InPlaceStep, Edit, Move, Commit, Checkout, Reset,
     Reconfigure, LoseCache
<1>3. ASSUME NEW p \in Proc, BuildStep(p) \/ Abort(p) PROVE Answered'
  <2>. DEFINE j == job[p]
              k == job'[p]
  <2>1. \A q \in Proc : q # p => job'[q] = job[q]
    BY <1>3 DEF BuildStep, Start, ListFiles, ReadHead, ReadChanged, ReadBlobs,
       ReadCache, ScanFile, Decide, Save, Finish, Abort
  <2>2. SUFFICES Answers(k)
    BY <2>1 DEF Answered, Answers, Fresh
  <2>3. j \in Job /\ Answers(j)
    BY DEF Answered
  <2>4. ASSUME j.toScan = {}, k.toScan = {}, k.result = j.result PROVE Answers(k)
    BY <2>3, <2>4 DEF Answers
  <2>5. CASE Start(p) \/ ListFiles(p) \/ ReadHead(p) \/ ReadChanged(p) \/ ReadBlobs(p)
    <3>1. j.toScan = {} /\ k.toScan = j.toScan /\ k.result = j.result
      BY <2>3, <2>5 DEF Start, ListFiles, ReadHead, ReadChanged, ReadBlobs, Scanning, Job
    <3>. QED  BY <2>4, <3>1
  <2>6. ASSUME NEW vouched \in SUBSET Vouched, ReadCache(p, vouched) PROVE Answers(k)
    <3>1. j.toScan = {} /\ k.toScan = k.todo /\ k.result = j.result
      BY <2>6 DEF ReadCache, Scanning
    <3>. QED  BY <2>3, <3>1 DEF Answers
  <2>7. ASSUME NEW f \in File, ScanFile(p, f) PROVE Answers(k)
    <3>1. /\ k.todo = j.todo \ {f} /\ k.toScan = j.toScan
          /\ k.old = j.old /\ k.changed = j.changed /\ k.blobs = j.blobs
          /\ f \in j.toScan
      BY <2>7 DEF ScanFile
    <3>2. \A g \in File : k.result[g] =
            IF g = f THEN ScanCached(j, f, wt[f]) ELSE j.result[g]
      BY <2>7 DEF ScanFile, Job, Results
    <3>3. \A g \in File : Fresh(k, g) <=> Fresh(j, g)
      BY <3>1 DEF Fresh
    <3>4. Fresh(j, f) => ScanCached(j, f, wt[f]) = j.old.entry[f].scan
      BY DEF ScanCached
    <3>. QED  BY <2>3, <3>1, <3>2, <3>3, <3>4 DEF Answers
  <2>8. CASE Decide(p) \/ Save(p)
    BY <1>1, <2>8 DEF Decide, Save, Answered
  <2>9. CASE Finish(p) \/ Abort(p)
    BY <2>9 DEF Finish, Abort, Answers, NoJob, NoResults
  <2>. QED  BY <1>3, <2>5, <2>6, <2>7, <2>8, <2>9 DEF BuildStep
<1>. QED  BY <1>1, <1>2, <1>3 DEF Next, vars

\* While the user waits for builds to end, the files a build listed are there
\* and give a result.
Present ==
  \A p \in Proc :
    /\ \A f \in job[p].files : wt[f] \in Blob
    /\ \A f \in job[p].toScan \ job[p].todo : job[p].result[f] # None

LEMMA PresentAtFirst == Init => Present
BY DEF Init, Present, NoJob

LEMMA PresentKept ==
  ASSUME DuringBuild = "nothing"
  PROVE  TypeInv /\ Present /\ [Next]_vars => Present'
<1>. SUFFICES ASSUME TypeInv, Present, [Next]_vars PROVE Present'
  OBVIOUS
<1>. /\ job \in [Proc -> Job] /\ pc \in [Proc -> Steps] /\ wt \in Tree
     /\ \A q \in Proc : job[q].todo \subseteq job[q].toScan
     /\ \A q \in Proc : job[q].toScan \subseteq job[q].files
     /\ \A q \in Proc : ~ Scanning(q) => job[q].toScan = {}
     /\ \A q \in Proc : pc[q] = "idle" => job[q].files = {}
  BY DEF TypeInv, TypeOK, Started
<1>1. CASE UNCHANGED <<wt, job>>
  BY <1>1 DEF Present
<1>2. CASE UserStep
  <2>1. UNCHANGED job
    BY <1>2 DEF UserStep, InPlaceStep, Edit, Move, Commit, Checkout, Reset,
       Reconfigure, LoseCache
  <2>2. Quiet \/ UNCHANGED wt
    BY <1>2 DEF UserStep, InPlaceStep, Edit, Move, Commit, Checkout, Reset,
       Reconfigure, LoseCache, Unwatched, Harmless
  <2>3. Quiet => \A q \in Proc : job[q].files = {} /\ job[q].toScan = {}
    BY DEF Quiet
  <2>. QED  BY <1>1, <2>1, <2>2, <2>3 DEF Present
<1>3. ASSUME NEW p \in Proc, BuildStep(p) \/ Abort(p) PROVE Present'
  <2>. DEFINE j == job[p]
              k == job'[p]
  <2>1. \A q \in Proc : q # p => job'[q] = job[q]
    BY <1>3 DEF BuildStep, Start, ListFiles, ReadHead, ReadChanged, ReadBlobs,
       ReadCache, ScanFile, Decide, Save, Finish, Abort
  <2>2. wt' = wt
    BY <1>3 DEF BuildStep, Start, ListFiles, ReadHead, ReadChanged, ReadBlobs,
       ReadCache, ScanFile, Decide, Save, Finish, Abort, user
  <2>3. SUFFICES /\ \A f \in k.files : wt[f] \in Blob
                 /\ \A f \in k.toScan \ k.todo : k.result[f] # None
    BY <2>1, <2>2 DEF Present
  <2>4. /\ j \in Job
        /\ \A f \in j.files : wt[f] \in Blob
        /\ \A f \in j.toScan \ j.todo : j.result[f] # None
    BY DEF Present
  <2>5. CASE Start(p) \/ ReadHead(p) \/ ReadChanged(p) \/ ReadBlobs(p)
    <3>1. /\ k.files = j.files /\ k.toScan = j.toScan /\ k.todo = j.todo
          /\ k.result = j.result
      BY <2>4, <2>5 DEF Start, ReadHead, ReadChanged, ReadBlobs, Job
    <3>. QED  BY <2>4, <3>1
  <2>6. CASE ListFiles(p)
    BY <2>4, <2>6 DEF ListFiles, Listed
  <2>7. ASSUME NEW vouched \in SUBSET Vouched, ReadCache(p, vouched) PROVE <2>3!1
    <3>1. k.toScan = k.todo /\ k.files = j.files
      BY <2>7 DEF ReadCache
    <3>. QED  BY <2>4, <3>1
  <2>8. ASSUME NEW f \in File, ScanFile(p, f) PROVE <2>3!1
    <3>1. /\ k.todo = j.todo \ {f} /\ k.toScan = j.toScan /\ k.files = j.files
          /\ f \in j.files /\ j.id \in Scanner
      BY <2>8 DEF ScanFile, TypeInv, Started
    <3>2. \A g \in File : k.result[g] =
            IF g = f THEN ScanCached(j, f, wt[f]) ELSE j.result[g]
      BY <2>8 DEF ScanFile, Job, Results
    <3>3. wt[f] \in Blob /\ wt[f] # Absent
      BY <2>4, <3>1, SentinelsAreFresh
    <3>4. ScanCached(j, f, wt[f]) # None
      <4>1. CASE Fresh(j, f)
        <5>1. j.old.entry[f] \in Entry
          BY <2>4, <4>1 DEF Fresh, Job, OldCache, Entries
        <5>2. j.old.entry[f].scan # None
          BY <5>1, ScanOfType DEF Entry, ScanResult
        <5>. QED  BY <4>1, <5>2 DEF ScanCached
      <4>2. CASE ~ Fresh(j, f)
        BY <3>1, <3>3, <4>2, ScanOfType DEF ScanCached
      <4>. QED  BY <4>1, <4>2
    <3>5. j.toScan \subseteq File
      BY <2>4 DEF Job
    <3>. QED  BY <2>4, <3>1, <3>2, <3>4, <3>5
  <2>9. CASE Decide(p) \/ Save(p)
    BY <2>4, <2>9 DEF Decide, Save
  <2>10. CASE Finish(p) \/ Abort(p)
    BY <2>10 DEF Finish, Abort, NoJob
  <2>. QED  BY <1>3, <2>5, <2>6, <2>7, <2>8, <2>9, <2>10 DEF BuildStep
<1>. QED  BY <1>1, <1>2, <1>3 DEF Next, vars, user

\* A record of an entry is its two fields.
LEMMA EntryIs ==
  ASSUME NEW e \in Entry PROVE e = [blob |-> e.blob, scan |-> e.scan]
BY DEF Entry

\* A file whose cached scan is fresh is written back as it was.
LEMMA FreshIsRewritten ==
  ASSUME TypeInv, Answered, NEW p \in Proc, job[p].todo = {}, NEW f \in job[p].files,
         Fresh(job[p], f)
  PROVE  NewEntry(job[p], f) = job[p].old.entry[f]
<1>. DEFINE j == job[p]
<1>1. j \in Job /\ f \in File /\ Answers(j)
  BY DEF TypeInv, TypeOK, Answered, Job
<1>2. j.old.entry[f] \in Entry
  BY <1>1 DEF Fresh, Job, OldCache, Entries
<1>3. j.result[f] # None => j.result[f] = j.old.entry[f].scan
  BY <1>1 DEF Answers
<1>4. RecordedBlob(j, f) = j.old.entry[f].blob
  BY DEF Fresh, RecordedBlob
<1>5. NewEntry(j, f) = [blob |-> j.old.entry[f].blob, scan |-> j.old.entry[f].scan]
  BY <1>3, <1>4 DEF NewEntry, Kept
<1>. QED  BY <1>2, <1>5, EntryIs

\* While the user waits for it, a build that leaves the cache alone would have
\* written what it read, for what it scanned and what is gone (cache.current,
\* Cached.Save).
THEOREM SkipReproducesAlways ==
  ASSUME DuringBuild = "nothing"
  PROVE  Spec => []SkipReproduces
<1>. DEFINE Inv == TypeInv /\ Answered /\ Present
<1>1. ASSUME Inv PROVE SkipReproduces
  <2>. SUFFICES ASSUME NEW p \in Proc, job[p].todo = {}, Current(job[p]),
                       NEW f \in job[p].toScan \cup (File \ job[p].files)
       PROVE  NewCache(job[p]).entry[f] = job[p].old.entry[f]
    BY DEF SkipReproduces
  <2>. DEFINE j == job[p]
  <2>1. j \in Job /\ j.toScan \subseteq j.files /\ f \in File /\ Answers(j)
    BY <1>1 DEF TypeInv, TypeOK, Answered, Job
  <2>2. SUFFICES NewEntry(j, f) = j.old.entry[f]
    BY <2>1 DEF NewCache
  <2>3. CASE f \notin j.files
    <3>1. j.old.entry[f] = None
      BY <2>1, <2>3 DEF Current, Covers
    <3>2. j.result[f] = None /\ ~ Kept(j, f)
      BY <2>1, <2>3 DEF Answers, Kept
    <3>. QED  BY <3>1, <3>2 DEF NewEntry
  <2>4. CASE f \in j.toScan /\ Fresh(j, f)
    BY <1>1, <2>1, <2>4, FreshIsRewritten
  <2>5. CASE f \in j.toScan /\ ~ Fresh(j, f)
    <3>1. j.result[f] # None
      BY <1>1, <2>5 DEF Present
    <3>2. f \in Reread(j)
      BY <2>5, <2>1 DEF Reread
    <3>3. j.old.entry[f] = [blob |-> Absent, scan |-> j.result[f]] /\ f \in j.changed
      BY <3>1, <3>2 DEF Current
    <3>. QED  BY <3>1, <3>3 DEF NewEntry, RecordedBlob
  <2>. QED  BY <2>3, <2>4, <2>5
<1>2. Init => Inv
  BY InitTypeInv, AnsweredAtFirst, PresentAtFirst
<1>3. Inv /\ [Next]_vars => Inv'
  BY NextTypeInv, AnsweredKept, PresentKept
<1>. QED  BY <1>1, <1>2, <1>3, PTL DEF Spec

\* With one process at a time, the cache a build read stands until it writes.
CacheStands ==
  \A p \in Proc : pc[p] \in {"scan", "save"} =>
    cache = NoCache \/ job[p].old = ReadCacheFile(job[p].id)

LEMMA CacheStandsKept ==
  ASSUME \A p, q \in Proc : p = q, Disciplined
  PROVE  TypeInv /\ CacheStands /\ [Next]_vars => CacheStands'
<1>. SUFFICES ASSUME TypeInv, CacheStands, [Next]_vars, NEW p \in Proc,
                     pc'[p] \in {"scan", "save"}
     PROVE  cache' = NoCache \/ job'[p].old = ReadCacheFile(job[p].id)'
  BY DEF CacheStands
<1>. job \in [Proc -> Job] /\ job[p] \in Job /\ pc \in [Proc -> Steps]
  BY DEF TypeInv, TypeOK
<1>0. pc[p] \in {"scan", "save"} => cache = NoCache \/ job[p].old = ReadCacheFile(job[p].id)
  BY DEF CacheStands
<1>1. CASE UNCHANGED <<cache, job, pc>>
  BY <1>0, <1>1 DEF ReadCacheFile
<1>2. CASE UserStep
  <2>1. UNCHANGED <<cache, job, pc>> \/ cache' = NoCache
    BY <1>2 DEF UserStep, InPlaceStep, Edit, Move, Commit, Checkout, Reset,
       Reconfigure, LoseCache
  <2>. QED  BY <1>1, <2>1
<1>3. ASSUME NEW q \in Proc, BuildStep(q) \/ Abort(q) PROVE cache' = NoCache \/ job'[p].old = ReadCacheFile(job[p].id)'
  <2>1. q = p
    OBVIOUS
  <2>2. CASE \E vouched \in SUBSET Vouched : ReadCache(p, vouched)
    BY <2>2 DEF ReadCache, ReadCacheFile
  <2>3. CASE \E f \in File : ScanFile(p, f)
    <3>1. /\ pc[p] = "scan" /\ cache' = cache
          /\ job'[p].old = job[p].old /\ job'[p].id = job[p].id
      BY <2>3 DEF ScanFile
    <3>. QED  BY <1>0, <3>1 DEF ReadCacheFile
  <2>4. CASE Decide(p)
    BY <1>0, <2>4 DEF Decide, ReadCacheFile, user
  <2>5. CASE \/ Start(p) \/ ListFiles(p) \/ ReadHead(p) \/ ReadChanged(p)
             \/ ReadBlobs(p) \/ Save(p) \/ Finish(p) \/ Abort(p)
    BY <2>5 DEF Start, ListFiles, ReadHead, ReadChanged, ReadBlobs, Save, Finish, Abort
  <2>. QED  BY <1>3, <2>1, <2>2, <2>3, <2>4, <2>5 DEF BuildStep
<1>. QED  BY <1>1, <1>2, <1>3 DEF Next, vars

\* One process at a time, and a disciplined user: rewriting the cache loses no
\* scan that could still be used, of files graphify answers for as well
\* (writeCache's second loop).
THEOREM NothingForgottenAlways ==
  ASSUME \A p, q \in Proc : p = q, Disciplined
  PROVE  Spec => NothingForgotten
<1>. DEFINE Inv == TypeInv /\ IInv /\ Answered /\ CacheStands
            Loses(p, f) ==
              /\ pc[p] = "save" /\ pc'[p] = "done"
              /\ cache # NoCache /\ cache'.scanner = cache.scanner
              /\ f \in job[p].files \ job[p].changed
              /\ cache.entry[f] # None
              /\ head[f] # Absent /\ cache.entry[f].blob = head[f]
              /\ cache'.entry[f] # cache.entry[f]
<1>1. ASSUME Inv, [Next]_vars, NEW p \in Proc, NEW f \in File, Loses(p, f) PROVE FALSE
  <2>. DEFINE j == job[p]
  <2>1. Save(p)
    <3>1. ~ UserStep /\ ~ UNCHANGED vars
      BY <1>1 DEF UserStep, InPlaceStep, Edit, Move, Commit, Checkout, Reset,
         Reconfigure, LoseCache, vars
    <3>2. PICK q \in Proc : BuildStep(q) \/ Abort(q)
      BY <1>1, <3>1 DEF Next
    <3>3. q = p /\ pc \in [Proc -> Steps]
      BY <1>1 DEF TypeInv, TypeOK
    <3>. QED
      BY <1>1, <3>2, <3>3 DEF BuildStep, Start, ListFiles, ReadHead, ReadChanged,
         ReadBlobs, ReadCache, ScanFile, Decide, Finish, Abort
  <2>2. cache' = NewCache(j) /\ cache'.scanner = j.id
    BY <2>1 DEF Save, NewCache
  <2>3. j.old.entry = cache.entry
    BY <1>1, <2>2 DEF CacheStands, ReadCacheFile
  <2>4. j.blobs[f] = head[f]
    BY <1>1 DEF IInv, StillClean, Clean, Scanning
  <2>5. Fresh(j, f)
    BY <1>1, <2>3, <2>4 DEF Fresh
  <2>6. NewEntry(j, f) = j.old.entry[f]
    BY <1>1, <2>5, FreshIsRewritten DEF TypeInv, Started
  <2>. QED  BY <1>1, <2>2, <2>3, <2>6 DEF NewCache
<1>2. Init => Inv
  BY InitTypeInv, InitIInv, AnsweredAtFirst DEF Init, CacheStands
<1>3. Inv /\ [Next]_vars => Inv'
  BY NextTypeInv, NextIInv, AnsweredKept, CacheStandsKept
<1>. HIDE DEF Inv
<1>4. Inv /\ [Next]_vars => NothingForgotten!1
  BY <1>1 DEF vars
<1>. QED  BY <1>2, <1>3, <1>4, PTL DEF Spec, NothingForgotten
=============================================================================
