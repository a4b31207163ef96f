------------------------------- MODULE Overlay -------------------------------
(***************************************************************************)
(* How far a graph of graphify's is believed, and what a build makes of it *)
(* (internal/graphbuild/stale.go, overlay.go and build.go's useGraphify).  *)
(*                                                                         *)
(* graphify indexes the disk at some moment and records HEAD; the user     *)
(* writes, deletes, commits, checks out and loses commits; builds answer.  *)
(* A file's content is what it defines and what names it calls.  graphify  *)
(* knows a definition by its name, the scanner by its scope as well.       *)
(***************************************************************************)
EXTENDS Naturals, FiniteSets, Sentinels

CONSTANTS
  Path, Ext,          \* files and their extensions
  Content,            \* path -> what it may hold
  Defines, Calls,     \* content -> set of <<scope, name>>, and of names
  MaxStale,           \* max_stale_ratio, in percent
  MaxSteps,
  Gone, Flat

ASSUME OverlayParameters ==
  /\ IsFiniteSet(Path) /\ MaxStale \in Nat /\ MaxSteps \in Nat
  /\ Defines[Gone] = {}
  /\ \A p \in Path : \A c \in Content[p] : \A d \in Defines[c] : d[1] # Flat

VARIABLES
  disk, commit,  \* path -> content, Gone where there is none
  commits,     \* trees that are in the repository
  gf,          \* None or [built: tree or None, read: the disk it indexed, manifest: None or paths]
  steps,       \* of the user and graphify
  answer       \* what a build just said, None otherwise

overlayVars == <<disk, commit, commits, gf, steps, answer>>

Trees == {t \in [Path -> (UNION {Content[p] : p \in Path}) \cup {Gone}] :
           \A p \in Path : t[p] \in Content[p] \cup {Gone}}
Changed(t) == {p \in Path : disk[p] # t[p]}
OnDisk == {p \in Path : disk[p] # Gone}
Node(f, scope, name) == [file |-> f, scope |-> scope, name |-> name]

(* graphify's graph: the names of each file, and every call it could see.  *)
GfNodes == UNION {{Node(f, Flat, d[2]) : d \in Defines[gf.read[f]]} : f \in Path}
GfEdges == {e \in GfNodes \X GfNodes : e[1] # e[2] /\ e[2].name \in Calls[gf.read[e[1].file]]}
CodeFiles == {n.file : n \in GfNodes}
IsCode(f) == f \in CodeFiles \/ Ext[f] \in {Ext[c] : c \in CodeFiles} \ {""}

StaleSetByGit(current) == (Changed(gf.built) \cup current) \cap (OnDisk \cup CodeFiles)
StaleSet(current) ==
  (Changed(gf.built) \cup current
     \cup (IF gf.manifest = None THEN {} ELSE {f \in OnDisk \ gf.manifest : IsCode(f)}))
  \cap (OnDisk \cup CodeFiles)
TooStale(stale) ==
  CodeFiles = {} \/ 100 * Cardinality({f \in stale : IsCode(f)}) > MaxStale * Cardinality(CodeFiles)
Ignored(current) ==
  IF gf.built = None THEN "no commit"
  ELSE IF gf.built \notin commits THEN "unknown commit"
  ELSE IF TooStale(StaleSet(current)) THEN "too stale" ELSE "used"

(* The scanner's answer for a file, and its link over a whole graph: every *)
(* node a name may mean.  (scan.Link narrows these; that is left out.)     *)
ScanNodes(files) == UNION {{Node(f, d[1], d[2]) : d \in Defines[disk[f]]} : f \in files}
Link(nodes, files) ==
  {e \in {n \in nodes : n.file \in files} \X nodes :
     e[1] # e[2] /\ e[2].name \in Calls[disk[e[1].file]]}

\* An edge of graphify's between two believed files stays; one into a stale
\* file goes to the scanned nodes of that name, if there are any.
Repointed(e, stale, scanned) ==
  IF e[1].file \in stale THEN {}
  ELSE IF e[2].file \notin stale THEN {e}
  ELSE {<<e[1], n>> : n \in {m \in scanned : m.file = e[2].file /\ m.name = e[2].name}}
OverlaidNodes(stale, files) == {n \in GfNodes : n.file \notin stale} \cup ScanNodes(files)
KeptEdges(stale, files) == UNION {Repointed(e, stale, ScanNodes(files)) : e \in GfEdges}
Overlaid(stale, files) ==
  [nodes |-> OverlaidNodes(stale, files),
   edges |-> KeptEdges(stale, files) \cup Link(OverlaidNodes(stale, files), files)]
Assembled(files) == [nodes |-> ScanNodes(files), edges |-> Link(ScanNodes(files), files)]

OverlayInit ==
  /\ disk \in Trees /\ commit = disk /\ commits = {commit}
  /\ gf = None /\ steps = 0 /\ answer = None

\* rescan is what an earlier base and the caller add to the changed set.
Answer(rescan) ==
  LET current == Changed(commit) \cup rescan
      verdict == IF gf = None THEN "absent" ELSE Ignored(current)
      stale == IF verdict = "used" THEN StaleSet(current) ELSE {}
      toScan == IF verdict = "used" THEN OnDisk \cap stale ELSE OnDisk
  IN  /\ answer = None
      /\ answer' = [verdict |-> verdict, scanned |-> toScan, rescan |-> rescan,
                    graph |-> IF verdict = "used" THEN Overlaid(stale, toScan) ELSE Assembled(toScan)]
      /\ UNCHANGED <<disk, commit, commits, gf, steps>>

OneStep == steps < MaxSteps /\ steps' = steps + 1 /\ answer' = None
EditFile(p, c) == OneStep /\ c # disk[p] /\ disk' = [disk EXCEPT ![p] = c] /\ UNCHANGED <<commit, commits, gf>>
CommitFiles(files) ==
  /\ OneStep /\ Changed(commit) \cap files # {}
  /\ commit' = [p \in Path |-> IF p \in files THEN disk[p] ELSE commit[p]]
  /\ commits' = commits \cup {commit'} /\ UNCHANGED <<disk, gf>>
\* Changed files are carried over if the commits agree on them.
CheckoutTree(t) ==
  /\ OneStep /\ t \in commits \ {commit} /\ \A p \in Changed(commit) : t[p] = commit[p]
  /\ commit' = t /\ disk' = [p \in Path |-> IF p \in Changed(commit) THEN disk[p] ELSE t[p]]
  /\ UNCHANGED <<commits, gf>>
\* A commit no branch has any more is pruned, or a clone never had it.
Prune(t) == OneStep /\ t \in commits \ {commit} /\ commits' = commits \ {t} /\ UNCHANGED <<disk, commit, gf>>
\* graphify runs; the commit and the manifest may be missing.
Index(built, manifest) ==
  /\ OneStep /\ gf' = [built |-> built, read |-> disk, manifest |-> manifest]
  /\ UNCHANGED <<disk, commit, commits>>

OverlayNext ==
  \/ \E rescan \in SUBSET Path : Answer(rescan)
  \/ \E p \in Path : \E c \in Content[p] \cup {Gone} : EditFile(p, c)
  \/ \E files \in SUBSET Path : CommitFiles(files)
  \/ \E t \in commits : CheckoutTree(t) \/ Prune(t)
  \/ \E built \in {None, commit}, manifest \in {None, OnDisk} : Index(built, manifest)
OverlaySpec == OverlayInit /\ [][OverlayNext]_overlayVars
-----------------------------------------------------------------------------
OverlayTypeOK ==
  /\ {disk, commit} \cup commits \subseteq Trees /\ commit \in commits /\ steps \in 0..MaxSteps
  /\ gf # None => gf.built \in Trees \cup {None} /\ gf.read \in Trees
  /\ answer # None =>
       /\ answer.scanned \subseteq OnDisk
       /\ answer.graph.edges \subseteq answer.graph.nodes \X answer.graph.nodes

\* Of these graphify's graph can be relied on: it read them as its commit has
\* them, or its manifest says it did not read them though they are code.
Reliable == IF gf = None \/ gf.built = None \/ gf.manifest = None THEN {}
            ELSE {f \in Path : gf.read[f] = gf.built[f] \/ (f \notin gf.manifest /\ IsCode(f))}
NamesIn(nodes, f) == {n.name : n \in {m \in nodes : m.file = f}}

(* A build's graph has the names a scan of the disk would find, in every   *)
(* file it had to scan and in every one graphify can be relied on for, and *)
(* from one source only: no name of a file that is gone, none of a content *)
(* that changed.  (stale.go:66-101, overlay.go:26-41)                      *)
NamesAreTheDisks ==
  answer # None => \A f \in Reliable \cup answer.scanned :
    /\ NamesIn(answer.graph.nodes, f) = {d[2] : d \in Defines[disk[f]]}
    /\ f \in answer.scanned => {n \in answer.graph.nodes : n.file = f} = ScanNodes({f})

(* A call graphify saw from a file nobody touched to a file that changed   *)
(* is kept as long as the name is still there.  (overlay.go:42-51)         *)
CallsSurvive ==
  answer # None /\ answer.verdict = "used" =>
    \A e \in GfEdges :
      e[1] \in answer.graph.nodes /\ e[2].name \in NamesIn(answer.graph.nodes, e[2].file) =>
        \E n \in answer.graph.nodes :
          n.file = e[2].file /\ n.name = e[2].name /\ <<e[1], n>> \in answer.graph.edges

(* Whatever a build may have been asked for or the tree it stands in, what *)
(* changed since HEAD, since graphify's commit or since the caller's base  *)
(* is scanned and never taken from graphify.  (build.go:188-205)           *)
ChangesAreScanned ==
  answer # None =>
    OnDisk \cap (Changed(commit) \cup answer.rescan
                   \cup (IF answer.verdict = "used" THEN Changed(gf.built) ELSE {}))
      \subseteq answer.scanned

(* A graph that is used vouches for the share of its own files the config  *)
(* asks for, files graphify never saw notwithstanding.  (stale.go:30-40)   *)
EnoughIsVouched ==
  answer # None /\ answer.verdict = "used" =>
    /\ CodeFiles # {}
    /\ 100 * Cardinality({n.file : n \in answer.graph.nodes \cap GfNodes})
         >= (100 - MaxStale) * Cardinality(CodeFiles)

(* What a build answers with is the disk's where it was read, graphify's   *)
(* where that can be relied on, and nothing that is neither.               *)
(* (build.go:65-203, stale.go:16-101, overlay.go:14-55)                    *)
AnswerIsTheDisks == NamesAreTheDisks /\ CallsSurvive /\ ChangesAreScanned /\ EnoughIsVouched
=============================================================================
