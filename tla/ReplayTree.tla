----------------------------- MODULE ReplayTree -----------------------------
(***************************************************************************)
(* The commits the replay benchmark walks and what it writes into a        *)
(* worktree for each (bench/replay/gitwork.py), with the drift session     *)
(* that piles commits up in one worktree (bench/replay/session.py).        *)
(*                                                                         *)
(* A history grows commit by commit; the newest commit is the corpus pin.  *)
(* A path is never a directory another path is in.                         *)
(***************************************************************************)
EXTENDS Integers, Sequences, FiniteSets, Sentinels

CONSTANTS
  Path, Content,
  TestPath,     \* the paths test_globs match
  MaxHistory,   \* how many commits there may be
  MaxPoints     \* how many are asked for

ASSUME TreeParameters ==
  MaxHistory \in Nat /\ MaxPoints \in Nat /\ TestPath \subseteq Path /\ None \notin Content

VARIABLES
  hist,    \* the commits: their trees, first parents (0: none), whether a merge
  work,    \* the worktree: [at |-> its HEAD, tree |-> path -> content], at 0: none
  shown,   \* the changed set taken in it
  shape,   \* how it came about: "natural", "probe" or "drift"
  target,  \* the point it was made for
  drift    \* the points a drift session has applied

treeVars == <<hist, work, shown, shape, target, drift>>
-----------------------------------------------------------------------------
Trees == [Path -> Content \cup {None}]
NoFiles == [p \in Path |-> None]
NoWork == [at |-> 0, tree |-> NoFiles]

\* is_test_path, by globs that are the corpus entry's.
IsTestPath(p) == p \in TestPath

\* `git diff --no-renames`: a rename is a deletion and an addition, and any
\* other change of a path a modification.
DiffChanges(a, b) ==
  {[path |-> p, status |-> IF a[p] = None THEN "A" ELSE IF b[p] = None THEN "D" ELSE "M"] :
     p \in {q \in Path : a[q] # b[q]}}
Parent(i) == hist[i].parent
TreeOf(i) == hist[i].tree
ChangesOf(i) == DiffChanges(TreeOf(Parent(i)), TreeOf(i))

\* The last so many of a sequence.
Last(s, k) == SubSeq(s, IF Len(s) > k THEN Len(s) - k + 1 ELSE 1, Len(s))
Numbers(s) == {s[k] : k \in DOMAIN s}
\* `git log --reverse` of some commits.
OldestFirst(some) ==
  LET upTo[i \in 0..MaxHistory] ==
        IF i = 0 THEN <<>> ELSE IF i \in some THEN Append(upTo[i - 1], i) ELSE upTo[i - 1]
  IN  upTo[MaxHistory]

(* replay_points: the newest commits that are no merges, oldest first; the *)
(* root is dropped after they are counted.                                 *)
Newest == Last(OldestFirst({i \in DOMAIN hist : ~hist[i].merge}), MaxPoints)
ReplayPoints == OldestFirst({i \in Numbers(Newest) : Parent(i) # 0})

(* paired_points: those that touch a test and another path, as `git log    *)
(* --name-only` names them (a merge names none, and a rename its new path).*)
Named(i) == {ch.path : ch \in ChangesOf(i)}
Renamed(i) == {ch.path : ch \in {d \in ChangesOf(i) : /\ d.status = "D"
                 /\ \E a \in ChangesOf(i) : /\ a.status = "A"
                                            /\ TreeOf(i)[a.path] = TreeOf(Parent(i))[d.path]}}
TouchesBoth(i) == {IsTestPath(p) : p \in Named(i) \ Renamed(i)} = {TRUE, FALSE}
PairedPoints ==
  Last(OldestFirst({i \in DOMAIN hist : ~hist[i].merge /\ Parent(i) # 0 /\ TouchesBoth(i)}), MaxPoints)

\* probe_candidates
ProbeCandidate(i) == {IsTestPath(ch.path) : ch \in ChangesOf(i)} = {TRUE, FALSE}

\* Each changed path is written, or removed; the others are left alone.
WrittenIfThere(tree, changes, from) ==
  [p \in Path |-> IF from[p] # None /\ \E ch \in changes : ch.path = p THEN from[p] ELSE tree[p]]
Written(tree, changes, from) ==
  [p \in Path |-> IF \E ch \in changes : ch.path = p THEN from[p] ELSE tree[p]]

Natural(tree, i) == Written(tree, ChangesOf(i), TreeOf(i))
Probe(tree, i) ==
  Written(tree, {ch \in ChangesOf(i) : ~IsTestPath(ch.path)}, TreeOf(Parent(i)))

\* working_changed_paths: `git status` against a HEAD that did not move.
ChangedSinceHead(w) == DiffChanges(TreeOf(w.at), w.tree)
-----------------------------------------------------------------------------
TreeInit ==
  /\ hist = <<>> /\ work = NoWork /\ shown = {} /\ shape = "none" /\ target = 0
  /\ drift = <<>>

CommitOn(parent, tree) ==
  /\ Len(hist) < MaxHistory /\ work = NoWork
  /\ hist = <<>> <=> parent = 0
  /\ parent # 0 => tree # TreeOf(parent)
  /\ hist' = Append(hist, [parent |-> parent, tree |-> tree, merge |-> FALSE])
  /\ UNCHANGED <<work, shown, shape, target, drift>>

\* A merge of a side branch: a tree that its first parent need not explain.
Merge(tree) ==
  /\ Len(hist) \in 2..(MaxHistory - 1) /\ work = NoWork
  /\ hist' = Append(hist, [parent |-> Len(hist), tree |-> tree, merge |-> TRUE])
  /\ UNCHANGED <<work, shown, shape, target, drift>>

\* replay_repo's two variants of a point.
CheckOutNatural(i) ==
  /\ work = NoWork
  /\ LET w == [at |-> Parent(i), tree |-> Natural(TreeOf(Parent(i)), i)]
     IN  work' = w /\ shown' = ChangedSinceHead(w)
  /\ shape' = "natural" /\ target' = i
  /\ UNCHANGED <<hist, drift>>

CheckOutProbe(i) ==
  /\ work = NoWork
  /\ LET w == [at |-> i, tree |-> Probe(TreeOf(i), i)]
     IN  work' = w /\ shown' = ChangedSinceHead(w)
  /\ shape' = "probe" /\ target' = i
  /\ UNCHANGED <<hist, drift>>

(* run_drift: one worktree at the first point's parent, every point        *)
(* written over the ones before, nothing committed.                        *)
StartDrift ==
  /\ work = NoWork /\ ReplayPoints # <<>>
  /\ work' = [at |-> Parent(ReplayPoints[1]), tree |-> TreeOf(Parent(ReplayPoints[1]))]
  /\ shape' = "drift"
  /\ UNCHANGED <<hist, shown, target, drift>>

DriftCycle ==
  /\ shape = "drift" /\ Len(drift) < Len(ReplayPoints)
  /\ LET i == ReplayPoints[Len(drift) + 1]
         w == [work EXCEPT !.tree = Natural(@, i)]
     IN  work' = w /\ shown' = ChangedSinceHead(w) /\ target' = i /\ drift' = Append(drift, i)
  /\ UNCHANGED <<hist, shape>>

TreeNext ==
  \/ \E parent \in 0..Len(hist), tree \in Trees : CommitOn(parent, tree)
  \/ \E tree \in Trees : Merge(tree)
  \/ \E k \in DOMAIN ReplayPoints : CheckOutNatural(ReplayPoints[k]) \/ CheckOutProbe(ReplayPoints[k])
  \/ \E k \in DOMAIN PairedPoints : CheckOutNatural(PairedPoints[k]) \/ CheckOutProbe(PairedPoints[k])
  \/ StartDrift \/ DriftCycle

TreeSpec == TreeInit /\ [][TreeNext]_treeVars
-----------------------------------------------------------------------------
TreeTypeOK ==
  /\ \A i \in DOMAIN hist : hist[i].tree \in Trees /\ hist[i].parent \in 0..(i - 1)
  /\ work.at \in 0..Len(hist) /\ work.tree \in Trees
  /\ \A ch \in shown : ch.path \in Path /\ ch.status \in {"A", "M", "D"}

(* A natural worktree is the commit's tree over its parent's HEAD, and a   *)
(* probe its tests over its parent's source; either way what `git status`  *)
(* says is what the materialisation did.  (gitwork.py:7-19)                *)
WorktreeIsTheVariant ==
  /\ shape = "natural" => work.tree = TreeOf(target) /\ shown = ChangesOf(target)
  /\ shape = "probe" =>
       /\ \A p \in Path : work.tree[p] = TreeOf(IF IsTestPath(p) THEN target ELSE Parent(target))[p]
       /\ {ch.path : ch \in shown} = {ch.path : ch \in ChangesOf(target)} \ TestPath

(* Of the points a paired run replays each can fail a test: it changes a   *)
(* test and something else.  (gitwork.py:121-139)                          *)
PairedCanDetect == \A k \in DOMAIN PairedPoints : ProbeCandidate(PairedPoints[k])

(* Both selections are the newest that qualify, each once, oldest first,   *)
(* and each has a parent to stand on.  (gitwork.py:101-119, 155-171)       *)
PointsAreNewest ==
  \A s \in {ReplayPoints, PairedPoints} :
    /\ Len(s) <= MaxPoints
    /\ \A k \in 1..(Len(s) - 1) : s[k] < s[k + 1]
    /\ \A k \in DOMAIN s : Parent(s[k]) # 0 /\ ~hist[s[k]].merge
    /\ s # <<>> => \A i \in (s[1] + 1)..Len(hist) :
         \/ \E k \in DOMAIN s : s[k] = i
         \/ hist[i].merge
         \/ s = PairedPoints /\ ~TouchesBoth(i)

(* In a history without branches a session's worktree is, after each of    *)
(* its commits, that commit, and its changed set is that commit's distance *)
(* from where the session started: it shrinks when a change is taken back. *)
(* (session.py:10-23)                                                      *)
Linear == \A i \in DOMAIN hist : hist[i].parent = i - 1 /\ ~hist[i].merge
DriftIsMeasured ==
  shape = "drift" /\ drift # <<>> /\ Linear =>
    /\ work.tree = TreeOf(target)
    /\ shown = DiffChanges(TreeOf(work.at), TreeOf(target))

(* What is replayed is the history: the points that qualify, each in its   *)
(* own variant of the tree.                                                *)
TreeIsTheVariant == WorktreeIsTheVariant /\ PairedCanDetect /\ PointsAreNewest /\ DriftIsMeasured
=============================================================================
