----------------------------- MODULE GitChanges -----------------------------
(***************************************************************************)
(* The changed set: what gitctx.ChangedSet makes of three git commands'    *)
(* answers, in a repository in any state the user's git commands lead to.  *)
(*                                                                         *)
(* git is external.  A repository is four trees: the base, HEAD's, the     *)
(* index and the files on disk.  `git diff <base>` compares the base with  *)
(* the files the index knows, `git status` HEAD with the index, the index  *)
(* with the disk, and lists the files the index does not know.  Contents   *)
(* are alike when -M would pair a deleted path with an added one as a      *)
(* rename.  Merge conflicts, ignored files and type changes are left out.  *)
(***************************************************************************)
EXTENDS Integers, FiniteSets, Functions, Sentinels

CONSTANTS
  RepoPath,  \* paths in the repository
  Content,   \* what a file may hold, if anything
  Alike,     \* the pairs of contents -M pairs, <<x, x>> for every content x
  Empty,     \* the file of no bytes, not one of Content
  Unborn     \* the tree of HEAD before the first commit

ASSUME PathsAreNames == None \notin RepoPath

Files == Content \cup {Empty}
RepoTree == [RepoPath -> Files \cup {None}]
NoFiles == [p \in RepoPath |-> None]

VARIABLES
  base,    \* the first commit, that --base may name: a tree, Unborn before it
  head,    \* HEAD's
  index,
  disk

gitVars == <<base, head, index, disk>>

-----------------------------------------------------------------------------
(* The user's git *)

GitInit ==
  /\ base = Unborn /\ head = Unborn
  /\ index = NoFiles /\ disk = NoFiles

WriteFile(p, content) ==
  disk' = [disk EXCEPT ![p] = content] /\ UNCHANGED <<base, head, index>>

DeleteFile(p) == disk' = [disk EXCEPT ![p] = None] /\ UNCHANGED <<base, head, index>>

\* git add, git rm --cached, git mv, git commit.
Add(p) == index' = [index EXCEPT ![p] = disk[p]] /\ UNCHANGED <<base, head, disk>>

Forget(p) == index' = [index EXCEPT ![p] = None] /\ UNCHANGED <<base, head, disk>>

Move(p, q) ==
  /\ index[p] # None /\ disk[p] # None
  /\ index[q] = None /\ disk[q] = None
  /\ index' = [index EXCEPT ![p] = None, ![q] = index[p]]
  /\ disk' = [disk EXCEPT ![p] = None, ![q] = disk[p]]
  /\ UNCHANGED <<base, head>>

Commit ==
  /\ head' = index
  /\ base' = IF base = Unborn THEN index ELSE base
  /\ UNCHANGED <<index, disk>>

GitNext ==
  \/ \E p \in RepoPath : \/ \E content \in Files : WriteFile(p, content)
                     \/ DeleteFile(p) \/ Add(p) \/ Forget(p)
                     \/ \E q \in RepoPath : Move(p, q)
  \/ Commit

GitSpec == GitInit /\ [][GitNext]_gitVars

-----------------------------------------------------------------------------
(* git's answers *)

Committed(tree) == IF tree = Unborn THEN NoFiles ELSE tree

\* The side of `git diff <base>` that is not the base: the disk, as far as the
\* index knows it.
Tracked == [p \in RepoPath |-> IF index[p] = None THEN None ELSE disk[p]]

Deleted(from, to) == {p \in RepoPath : from[p] # None /\ to[p] = None}
Added(from, to) == {p \in RepoPath : from[p] = None /\ to[p] # None}
Modified(from, to) ==
  {p \in RepoPath : from[p] # None /\ to[p] # None /\ from[p] # to[p]}

\* The renames -M may find: [new path -> old path], no pair left over.
Pairable(from, to) ==
  {pair \in Added(from, to) \X Deleted(from, to) : <<from[pair[2]], to[pair[1]]>> \in Alike}

Renames(from, to) ==
  {r \in UNION {[S -> Deleted(from, to)] : S \in SUBSET Added(from, to)} :
     /\ IsInjective(r)
     /\ \A new \in DOMAIN r : <<new, r[new]>> \in Pairable(from, to)
     /\ \A pair \in Pairable(from, to) :
          pair[1] \in DOMAIN r \/ pair[2] \in Range(r)}

\* `git status`: the two letters of a path, "?" for an untracked file's both.
\* staged is the renames it found between HEAD and the index.  A path that left the
\* index and is still on disk has two records; the one of the two letters is
\* first.
Letter(from, to, p, renamed) ==
  CASE p \in DOMAIN renamed -> "R"
    [] p \in Added(from, to) \ DOMAIN renamed -> "A"
    [] p \in Deleted(from, to) \ Range(renamed) -> "D"
    [] p \in Modified(from, to) -> "M"
    [] OTHER -> " "

Untracked == {p \in RepoPath : index[p] = None /\ disk[p] # None}

Letters(p, staged) ==
  <<Letter(Committed(head), index, p, staged),
    IF index[p] = None THEN " " ELSE Letter(index, disk, p, <<>>)>>

\* git ls-files --cached --others, without what is not on disk.
ListFiles == {p \in RepoPath : disk[p] # None}

-----------------------------------------------------------------------------
(* gitctx *)

Change(status, old, lines) == [status |-> status, old |-> old, lines |-> lines]

\* `git diff` has a hunk where the contents differ; a missing file is an empty
\* one.
Hunks(before, after) ==
  IF before = after \/ {before, after} \subseteq {None, Empty}
    THEN "none" ELSE "hunks"

\* wholeFile.
WholeFile(p) == IF disk[p] = Empty THEN "none" ELSE "whole"

\* The diff half, [path -> Change].
Diff(from, renamed) ==
  [p \in (Added(from, Tracked) \cup Modified(from, Tracked)
            \cup Deleted(from, Tracked)) \ Range(renamed) |->
     CASE p \in DOMAIN renamed ->
            Change("renamed", renamed[p], Hunks(from[renamed[p]], Tracked[p]))
       [] p \in Added(from, Tracked) \ DOMAIN renamed ->
            Change("added", None, Hunks(None, Tracked[p]))
       [] p \in Modified(from, Tracked) ->
            Change("modified", None, Hunks(from[p], Tracked[p]))
       [] OTHER -> Change("deleted", None, "none")]

\* statusFromPorcelain: the first letter that says something.
StatusOf(letters) ==
  LET first == IF letters[1] # " " THEN letters[1] ELSE letters[2]
  IN CASE first = "A" -> "added" [] first = "D" -> "deleted"
       [] first = "R" -> "renamed" [] OTHER -> "modified"

\* The status half, without what the diff half has: the paths it lists and the
\* sources of its renames.
Listed(p, staged) == Letters(p, staged) # <<" ", " ">> \/ p \in Untracked

Status(diff, staged) ==
  [p \in {q \in RepoPath : Listed(q, staged)}
           \ (DOMAIN diff \cup {diff[d].old : d \in DOMAIN diff}) |->
     IF Letters(p, staged) # <<" ", " ">>
       THEN Change(StatusOf(Letters(p, staged)), None, "none")
       ELSE Change("added", None, WholeFile(p))]

\* ChangedSet against a tree, for the renames the two commands found.
ChangedSetOf(from, renamed, staged) ==
  LET diff == IF from = Unborn THEN <<>> ELSE Diff(from, renamed)
      status == Status(diff, staged)
  IN [p \in DOMAIN diff \cup DOMAIN status |->
        IF p \in DOMAIN diff THEN diff[p] ELSE status[p]]

ChangedSet(from) ==
  {ChangedSetOf(from, renamed, staged) :
     renamed \in Renames(Committed(from), Tracked),
     staged \in Renames(Committed(head), index)}

\* currentChangedSet of build.go: the set against HEAD with the one against the
\* base --base names.
CurrentAgainstHead(againstHead, againstBase) == DOMAIN againstHead
Current(againstHead, againstBase) == DOMAIN againstHead \cup DOMAIN againstBase

-----------------------------------------------------------------------------
(* Properties *)

Sources(changes) == {changes[p].old : p \in DOMAIN changes}

\* A file git tracks and whose content is not the base's is reported with the
\* lines that differ, whatever was staged, committed or renamed; one gone from
\* disk is reported as deleted or as the source of a rename
\* ("Deletions are retained", changedset.go:21).
TrackedChangesHaveLines ==
  \A from \in {base, head} \ {Unborn} : \A changes \in ChangedSet(from) :
    \A p \in RepoPath :
      /\ index[p] # None /\ disk[p] \notin {from[p], None, Empty} =>
           /\ p \in DOMAIN changes
           /\ \/ changes[p].lines # "none"
              \/ changes[p].old # None /\ from[changes[p].old] = disk[p]
      /\ from[p] # None /\ disk[p] = None =>
           \/ p \in Sources(changes)
           \/ p \in DOMAIN changes /\ changes[p].status = "deleted"

\* A file just written and never added is reported whole, where neither the
\* base nor HEAD has one of its name ("the most common input in a TDD cycle",
\* changedset.go:24).
NewFilesAreAdded ==
  \A from \in {base, head} : \A changes \in ChangedSet(from) :
    \A p \in Untracked :
      Committed(from)[p] = None /\ Committed(head)[p] = None =>
        p \in DOMAIN changes /\ changes[p] = Change("added", None, WholeFile(p))

\* What the set leaves out is as HEAD and the base have it, so that a build may
\* take HEAD's blob id for its content and graphify's word for the file
\* (build.go:174): all but a file put where a rename took another from.
UnchangedIsCommitted ==
  \A againstHead \in ChangedSet(head), againstBase \in ChangedSet(base) :
    \A p \in ListFiles \ Current(againstHead, againstBase) :
      \/ disk[p] = Committed(head)[p] /\ disk[p] = Committed(base)[p]
      \/ p \in Untracked /\ p \in Sources(againstHead) \cup Sources(againstBase)

\* "Untracked files are included (Status=Added with the whole file as one
\* LineRange)" (changedset.go:19).
UntrackedIsAdded ==
  \A from \in {base, head} : \A changes \in ChangedSet(from) :
    \A p \in Untracked :
      p \in DOMAIN changes /\ changes[p] = Change("added", None, WholeFile(p))

\* The change set is the difference: nothing that differs is left out of it,
\* and it says of what it has how it differs (changedset.go:27-153).
ChangesAreExact == TrackedChangesHaveLines /\ NewFilesAreAdded /\ UnchangedIsCommitted
=============================================================================
