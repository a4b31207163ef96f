----------------------------- MODULE GraphCache -----------------------------
(***************************************************************************)
(* rtdd's graph build and its cache, .rtdd/graph.json                      *)
(* (internal/graphbuild/build.go, cache.go).                               *)
(*                                                                         *)
(* Any number of rtdd processes build at once in one repository, with no   *)
(* lock between them and none against the user.  A build asks git four     *)
(* separate questions (which files, which HEAD, what differs from it, its  *)
(* blob ids), reads the cache, then reads every file the cache cannot      *)
(* stand in for, and renames a new cache over the old one.  The user edits,*)
(* commits and checks out between any two of those steps.                  *)
(*                                                                         *)
(* A blob id is modelled by the content it identifies and a commit by its  *)
(* tree: two commits of one tree are one, and the empty tree is the unborn *)
(* HEAD.                                                                   *)
(***************************************************************************)
EXTENDS Sentinels

CONSTANTS
  File,              \* repository-relative paths
  Blob,              \* file contents, and so blob ids
  Opaque,            \* the contents scan.Filter drops: binary or oversized
  Proc,              \* rtdd processes
  Scanner,           \* scannerID: the fingerprint and the prose globs
  ScanOf,            \* [Blob \X Scanner -> scan result], ScanFile's output
  Vouched,           \* files a graphify graph may answer for
  Absent,            \* "" as a blob id, and the content of a missing file
  NoCache,           \* no usable .rtdd/graph.json
  DuringBuild,       \* what the user does while a build runs: "nothing",
                     \* "dirty" (commits, and changes to files that already
                     \* differ from HEAD) or "anything"
  RefillsMovedFiles  \* TRUE: the user also writes a new file where a
                     \* `git mv` took the old one from, before `git add`

ASSUME SentinelsAreFresh ==
  /\ Absent \notin Blob
  /\ None \notin Scanner
  /\ Opaque \subseteq Blob
  /\ Vouched \subseteq File

ASSUME ScanOfIsTotal ==
  /\ ScanOf = [x \in Blob \X Scanner |-> ScanOf[x]]
  /\ \A x \in Blob \X Scanner : ScanOf[x] # None

ASSUME DisciplineIsKnown ==
  /\ DuringBuild \in {"nothing", "dirty", "anything"}
  /\ RefillsMovedFiles \in BOOLEAN

VARIABLES
  wt,       \* the working tree: path -> content or Absent
  head,     \* HEAD's tree: path -> blob id or Absent
  moved,    \* paths the index records as the source of a rename
  scanner,  \* the scannerID of the binary and the config as they stand
  cache,    \* .rtdd/graph.json
  pc,       \* where each process is in Build
  job       \* Build's local variables, one record per process

user == <<wt, head, moved, scanner>>
vars == <<user, cache, pc, job>>

-----------------------------------------------------------------------------
(* Values *)

Tree == [File -> Blob \cup {Absent}]
NoHead == [f \in File |-> Absent]

ScanResult == {ScanOf[x] : x \in Blob \X Scanner}
Results == [File -> ScanResult \cup {None}]
NoResults == [f \in File |-> None]

\* One file of the cache: rtdd_files' blob id ("" is Absent) and its scan.
Entry == [blob : Blob \cup {Absent}, scan : ScanResult]
Entries == [File -> Entry \cup {None}]

CacheFile == [scanner : Scanner, builtAt : Tree, entry : Entries]

\* What readCache returns: a miss is the empty cache, with "" as its commit.
OldCache == [builtAt : Tree, entry : Entries]
Miss == [builtAt |-> NoHead, entry |-> [f \in File |-> None]]

Job == [id : Scanner \cup {None}, files : SUBSET File, head : Tree,
        changed : SUBSET File, blobs : Tree, old : OldCache,
        toScan : SUBSET File, todo : SUBSET File, result : Results]
NoJob == [id |-> None, files |-> {}, head |-> NoHead,
          changed |-> {}, blobs |-> NoHead, old |-> Miss,
          toScan |-> {}, todo |-> {}, result |-> NoResults]

Steps == {"idle", "list", "head", "changed", "blobs", "cache", "scan",
          "save", "done"}

-----------------------------------------------------------------------------
(* Pure parts of Build, on one process's locals j *)

\* gitctx.ListFiles then scan.Filter: what is on disk and the scanner reads.
Listed == {f \in File : wt[f] \in Blob \ Opaque}

\* gitctx.ChangedSet against HEAD.  A path `git diff -M` names as the source
\* of a rename is skipped, whatever is at it now.
ChangedSetTracked == {f \in File : wt[f] # head[f] /\ head[f] # Absent} \ moved
ChangedSet == {f \in File : wt[f] # head[f]} \ moved

\* cache.fresh: the cached scan of f can stand.  (Here and below, a definition
\* whose name ends in the fault it has is a mutant: no specification uses it,
\* the runs check that the properties would notice it.)
FreshThoughChanged(j, f) ==
  /\ j.blobs[f] # Absent
  /\ j.old.entry[f] # None
  /\ j.old.entry[f].blob = j.blobs[f]

Fresh(j, f) ==
  /\ f \notin j.changed
  /\ j.blobs[f] # Absent
  /\ j.old.entry[f] # None
  /\ j.old.entry[f].blob = j.blobs[f]

\* The files to scan: those listed, but for what graphify answers for.
ToScanUnlisted(j, vouched) == File \ vouched
ToScan(j, vouched) == j.files \ vouched

\* The files scanCached read from disk.
Reread(j) == {f \in j.toScan : ~ Fresh(j, f)}

\* One file of scanCached's answer, given the file's content now.
ScanCached(j, f, content) ==
  IF Fresh(j, f) THEN j.old.entry[f].scan
  ELSE IF content = Absent THEN None
  ELSE ScanOf[<<content, j.id>>]

\* The blob id writeCache stores for f: "" marks working-tree content.
RecordedBlobAlways(j, f) == j.blobs[f]
RecordedBlob(j, f) == IF f \in j.changed THEN Absent ELSE j.blobs[f]

\* writeCache keeps an older entry that is still valid for a listed file.
KeptNever(j, f) == FALSE
Kept(j, f) == f \in j.files /\ Fresh(j, f)

NewEntry(j, f) ==
  IF j.result[f] # None
    THEN [blob |-> RecordedBlob(j, f), scan |-> j.result[f]]
  ELSE IF Kept(j, f)
    THEN [blob |-> RecordedBlob(j, f), scan |-> j.old.entry[f].scan]
  ELSE None

NewCache(j) ==
  [scanner |-> j.id, builtAt |-> j.head,
   entry |-> [f \in File |-> NewEntry(j, f)]]

\* cache.covers: written at this HEAD, and listing no file that is gone.

Covers(j) ==
  /\ j.old.builtAt = j.head
  /\ \A f \in File : j.old.entry[f] # None => f \in j.files

\* cache.current: every file re-read is an edited one the cache already
\* holds, as working-tree content, with the same scan.
CurrentIfNothingRead(j) == Covers(j) /\ Reread(j) = {}

Current(j) ==
  /\ Covers(j)
  /\ \A f \in Reread(j) :
       j.result[f] # None =>
         /\ j.old.entry[f] = [blob |-> Absent, scan |-> j.result[f]]
         /\ f \in j.changed

\* readCache: any cache of another scanner is a miss.
ReadCacheFileAnyScanner(id) ==
  IF cache = NoCache THEN Miss
  ELSE [builtAt |-> cache.builtAt, entry |-> cache.entry]

ReadCacheFile(id) ==
  IF cache = NoCache THEN Miss
  ELSE IF cache.scanner # id THEN Miss
  ELSE [builtAt |-> cache.builtAt, entry |-> cache.entry]

-----------------------------------------------------------------------------
(* The user *)

Quiet == \A p \in Proc : pc[p] = "idle"
Unwatched == Quiet \/ DuringBuild = "anything"
Harmless == Unwatched \/ DuringBuild = "dirty"

\* Write, create or delete a file.
Edit(f, content) ==
  /\ Unwatched \/ (Harmless /\ wt[f] # head[f])
  /\ RefillsMovedFiles \/ f \notin moved
  /\ wt' = [wt EXCEPT ![f] = content]
  /\ UNCHANGED <<head, moved, scanner, cache, pc, job>>

\* `git mv f g` and its effect on `git diff -M HEAD`.
Move(f, g) ==
  /\ Unwatched
  /\ wt[f] = head[f] /\ wt[f] # Absent
  /\ wt[g] = Absent /\ head[g] = Absent
  /\ wt' = [wt EXCEPT ![f] = Absent, ![g] = wt[f]]
  /\ moved' = moved \cup {f}
  /\ UNCHANGED <<head, scanner, cache, pc, job>>

\* `git add -A` the files in fs and commit them.
Commit(fs) ==
  /\ Harmless
  /\ head' = [f \in File |-> IF f \in fs THEN wt[f] ELSE head[f]]
  /\ moved' = moved \ fs
  /\ UNCHANGED <<wt, scanner, cache, pc, job>>

\* `git checkout`: git carries local changes over and refuses to overwrite
\* them.
Checkout(tree) ==
  /\ Unwatched
  /\ moved = {}
  /\ \A f \in File : wt[f] = head[f] \/ head[f] = tree[f]
  /\ head' = tree
  /\ wt' = [f \in File |-> IF wt[f] = head[f] THEN tree[f] ELSE wt[f]]
  /\ UNCHANGED <<moved, scanner, cache, pc, job>>

\* `git reset`: HEAD moves and the working tree stays.
Reset(tree) ==
  /\ Unwatched
  /\ moved = {}
  /\ head' = tree
  /\ UNCHANGED <<wt, moved, scanner, cache, pc, job>>

\* definition_exclude is edited, or the binary replaced.
Reconfigure(s) ==
  /\ Harmless
  /\ scanner' = s
  /\ UNCHANGED <<wt, head, moved, cache, pc, job>>

\* The cache is deleted, or a power cut leaves it truncated: both read as a
\* miss.
LoseCache ==
  /\ Harmless
  /\ cache' = NoCache
  /\ UNCHANGED <<user, pc, job>>

-----------------------------------------------------------------------------
(* One process: Build, one action per question it asks *)

Start(p) ==
  /\ pc[p] = "idle"
  /\ job' = [job EXCEPT ![p].id = scanner]
  /\ pc' = [pc EXCEPT ![p] = "list"]
  /\ UNCHANGED <<user, cache>>

ListFiles(p) ==
  /\ pc[p] = "list"
  /\ job' = [job EXCEPT ![p].files = Listed]
  /\ pc' = [pc EXCEPT ![p] = "head"]
  /\ UNCHANGED <<user, cache>>

ReadHead(p) ==
  /\ pc[p] = "head"
  /\ job' = [job EXCEPT ![p].head = head]
  /\ pc' = [pc EXCEPT ![p] = "changed"]
  /\ UNCHANGED <<user, cache>>

ReadChanged(p) ==
  /\ pc[p] = "changed"
  /\ job' = [job EXCEPT ![p].changed = ChangedSet]
  /\ pc' = [pc EXCEPT ![p] = "blobs"]
  /\ UNCHANGED <<user, cache>>

ReadBlobs(p) ==
  /\ pc[p] = "blobs"
  /\ job' = [job EXCEPT ![p].blobs = head]
  /\ pc' = [pc EXCEPT ![p] = "cache"]
  /\ UNCHANGED <<user, cache>>

\* useGraphify then readCache.  graphify may vouch for any of its files but
\* the changed ones, and a vouched file is not scanned.
ReadCache(p, vouched) ==
  /\ pc[p] = "cache"
  /\ vouched \subseteq Vouched \ job[p].changed
  /\ job' = [job EXCEPT ![p].old = ReadCacheFile(job[p].id),
                        ![p].toScan = ToScan(job[p], vouched),
                        ![p].todo = ToScan(job[p], vouched)]
  /\ pc' = [pc EXCEPT ![p] = "scan"]
  /\ UNCHANGED <<user, cache>>

\* scanCached, one file at a time, in the order the worker pool takes them.
ScanFile(p, f) ==
  /\ pc[p] = "scan"
  /\ f \in job[p].todo
  /\ job' = [job EXCEPT ![p].todo = @ \ {f},
                        ![p].result[f] = ScanCached(job[p], f, wt[f])]
  /\ UNCHANGED <<user, cache, pc>>

\* Every file is in: the cache is rewritten unless it is current.
Decide(p) ==
  /\ pc[p] = "scan"
  /\ job[p].todo = {}
  /\ pc' = [pc EXCEPT ![p] = IF Current(job[p]) THEN "done" ELSE "save"]
  /\ UNCHANGED <<user, cache, job>>

\* writeCache: a temporary file, then one rename over the cache.
Save(p) ==
  /\ pc[p] = "save"
  /\ cache' = NewCache(job[p])
  /\ pc' = [pc EXCEPT ![p] = "done"]
  /\ UNCHANGED <<user, job>>

\* The answer is out and the process exits.
Finish(p) ==
  /\ pc[p] = "done"
  /\ pc' = [pc EXCEPT ![p] = "idle"]
  /\ job' = [job EXCEPT ![p] = NoJob]
  /\ UNCHANGED <<user, cache>>

\* A git command or the write fails, or the process is killed: Build returns
\* an error and the cache is as it was.
Abort(p) ==
  /\ pc[p] # "idle"
  /\ pc' = [pc EXCEPT ![p] = "idle"]
  /\ job' = [job EXCEPT ![p] = NoJob]
  /\ UNCHANGED <<user, cache>>

-----------------------------------------------------------------------------
(* The specification *)

Init ==
  /\ wt \in Tree
  /\ head = wt
  /\ moved = {}
  /\ scanner \in Scanner
  /\ cache = NoCache
  /\ pc = [p \in Proc |-> "idle"]
  /\ job = [p \in Proc |-> NoJob]

\* What the user does that moves no file to another path, and all he does.
InPlaceStep ==
  \/ \E f \in File, content \in Blob \cup {Absent} : Edit(f, content)
  \/ \E fs \in SUBSET File : Commit(fs)
  \/ \E tree \in Tree : Checkout(tree) \/ Reset(tree)
  \/ \E s \in Scanner : Reconfigure(s)
  \/ LoseCache

UserStep == InPlaceStep \/ \E f, g \in File : Move(f, g)

BuildStep(p) ==
  \/ Start(p) \/ ListFiles(p) \/ ReadHead(p) \/ ReadChanged(p)
  \/ ReadBlobs(p)
  \/ \E vouched \in SUBSET Vouched : ReadCache(p, vouched)
  \/ \E f \in File : ScanFile(p, f)
  \/ Decide(p) \/ Save(p) \/ Finish(p)

Next ==
  \/ UserStep
  \/ \E p \in Proc : BuildStep(p) \/ Abort(p)

Spec == Init /\ [][Next]_vars

-----------------------------------------------------------------------------
(* Properties *)

TypeOK ==
  /\ wt \in Tree /\ head \in Tree
  /\ moved \subseteq File
  /\ scanner \in Scanner
  /\ cache \in CacheFile \cup {NoCache}
  /\ pc \in [Proc -> Steps]
  /\ job \in [Proc -> Job]
  /\ \A p \in Proc :
       /\ job[p].todo \subseteq job[p].toScan
       /\ job[p].toScan \subseteq job[p].files

\* An entry that names a blob holds the scan of that blob under the scanner
\* the cache names, so a later build may use it whenever HEAD has that blob
\* again ("path -> blob id it was scanned from", cache.go:38).
CacheHonest ==
  cache # NoCache =>
    \A f \in File :
      (cache.entry[f] # None /\ cache.entry[f].blob # Absent) =>
        cache.entry[f].scan = ScanOf[<<cache.entry[f].blob, cache.scanner>>]

\* A finished build read from disk every file it lists that differs from
\* HEAD: neither the cache nor graphify ever answers for a changed file
\* ("Every changed file is therefore always scanned", node-graph.md:214).
EveryChangeScanned ==
  \A p \in Proc : pc[p] = "done" =>
    \A f \in job[p].files : wt[f] # head[f] => f \in Reread(job[p])

\* A build that leaves the cache alone would have written what it read
\* (current's comment, cache.go:385), as far as the files it scanned and those
\* that are gone: current looks at no other, so an edited entry of a file that
\* is restored and that graphify now answers for stays until the next write.
SkipReproduces ==
  \A p \in Proc : pc[p] = "scan" /\ job[p].todo = {} /\ Current(job[p]) =>
    \A f \in job[p].toScan \cup (File \ job[p].files) :
      NewCache(job[p]).entry[f] = job[p].old.entry[f]

\* Rewriting the cache loses nothing the same scanner could still use: an
\* entry for the blob HEAD has, of a file the build listed and found no
\* difference in, is in the new cache as it was, although graphify may vouch
\* for the file and this build never scan it.  (One process: two that build
\* at once overwrite each other, and lose only time.)
NothingForgotten ==
  [][ \A p \in Proc, f \in File :
        (/\ pc[p] = "save" /\ pc'[p] = "done"
         /\ cache # NoCache /\ cache'.scanner = cache.scanner
         /\ f \in job[p].files \ job[p].changed
         /\ cache.entry[f] # None
         /\ head[f] # Absent /\ cache.entry[f].blob = head[f])
        => cache'.entry[f] = cache.entry[f] ]_cache

\* The cache is rewritten for ever only if the user acts for ever: builds
\* alone settle on a cache and stop writing it, they do not fight over it
\* ("rewriting the whole cache each time ... is most of a warm build",
\* cache.go:388).
WritesSettle ==
  []<><<\E p \in Proc : Save(p)>>_vars => []<><<UserStep>>_vars

-----------------------------------------------------------------------------
(* The cache saves reads and changes no answer *)

Scanning(p) == pc[p] \in {"scan", "save", "done"}

Uncached == INSTANCE UncachedBuild WITH
  phase <- [p \in Proc |-> IF pc[p] = "done" THEN "answered"
                           ELSE IF Scanning(p) THEN "open" ELSE "closed"],
  using <- [p \in Proc |-> IF Scanning(p) THEN job[p].id ELSE None],
  todo <- [p \in Proc |-> job[p].todo],
  result <- [p \in Proc |-> job[p].result]

\* Every build's answer is one a build without a cache could give: each
\* file's result is the scan of what was on disk at a moment of the build.
ImplementsUncached == Uncached!Spec
=============================================================================
