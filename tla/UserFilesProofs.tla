-------------------------- MODULE UserFilesProofs --------------------------
(***************************************************************************)
(* GitChanges: whatever the user's git commands make of a repository and   *)
(* however git pairs its renames, the changed set is the difference.       *)
(* Nothing of it is remembered, so the invariant is little more than the   *)
(* types; the work is in the three answers git gives and where they meet.  *)
(*                                                                         *)
(* ChangedLines: git matches the lines it keeps in order, and nothing more *)
(* is needed of the file.  What is changed is then what lies between two   *)
(* neighbours among the matched.  gitctx merges its ranges and rounds      *)
(* paints its nodes one by one, the first of those left each time, and     *)
(* both are followed turn by turn: what is covered so far is what was      *)
(* taken so far, and a line is owned by the last to be painted over it.    *)
(***************************************************************************)
EXTENDS GitChanges, ChangedLines, DocumentProofs

GitInv ==
  /\ {index, disk} \subseteq RepoTree /\ {base, head} \subseteq RepoTree \cup {Unborn}
  /\ base = Unborn => head = Unborn

LEMMA GitStarts == ASSUME GitInit PROVE GitInv
BY DEF GitInit, GitInv, RepoTree, NoFiles

LEMMA GitStays == ASSUME GitInv, [GitNext]_gitVars PROVE GitInv'
<1> USE DEF GitInv, RepoTree
<1>1. ASSUME NEW p \in RepoPath, NEW content \in Files, WriteFile(p, content) PROVE GitInv'
  BY <1>1 DEF WriteFile
<1>2. ASSUME NEW p \in RepoPath, DeleteFile(p) \/ Add(p) \/ Forget(p) PROVE GitInv'
  BY <1>2 DEF DeleteFile, Add, Forget
<1>3. ASSUME NEW p \in RepoPath, NEW q \in RepoPath, Move(p, q) PROVE GitInv'
  BY <1>3 DEF Move
<1>4. CASE Commit BY <1>4 DEF Commit
<1>5. CASE UNCHANGED gitVars BY <1>5 DEF gitVars
<1> QED BY <1>1, <1>2, <1>3, <1>4, <1>5 DEF GitNext

\* A rename goes from a deleted path to an added one.
LEMMA RenamesGoFromDeleted ==
  ASSUME NEW from, NEW to, NEW r \in Renames(from, to)
  PROVE  /\ \A new \in DOMAIN r : new \in Added(from, to) /\ r[new] \in Deleted(from, to)
         /\ \A old \in Range(r) : old \in Deleted(from, to) /\ \E new \in DOMAIN r : r[new] = old
<1>1. PICK S \in SUBSET Added(from, to) : r \in [S -> Deleted(from, to)] BY DEF Renames
<1> QED BY <1>1 DEF Range

LEMMA ChangeHas ==
  ASSUME NEW status, NEW old, NEW lines
  PROVE  /\ Change(status, old, lines).status = status
         /\ Change(status, old, lines).old = old /\ Change(status, old, lines).lines = lines
BY DEF Change

DiffPaths(from, renamed) ==
  (Added(from, Tracked) \cup Modified(from, Tracked) \cup Deleted(from, Tracked)) \ Range(renamed)

LEMMA DiffSays ==
  ASSUME NEW from, NEW renamed \in Renames(from, Tracked), NEW p \in DiffPaths(from, renamed)
  PROVE  /\ p \in DOMAIN Diff(from, renamed)
         /\ p \in DOMAIN renamed =>
              Diff(from, renamed)[p] = Change("renamed", renamed[p], Hunks(from[renamed[p]], Tracked[p]))
         /\ p \in Added(from, Tracked) \ DOMAIN renamed =>
              Diff(from, renamed)[p] = Change("added", None, Hunks(None, Tracked[p]))
         /\ p \in Modified(from, Tracked) \ DOMAIN renamed =>
              Diff(from, renamed)[p] = Change("modified", None, Hunks(from[p], Tracked[p]))
         /\ p \in Deleted(from, Tracked) \ DOMAIN renamed =>
              Diff(from, renamed)[p] = Change("deleted", None, "none")
<1>1. p \in DOMAIN Diff(from, renamed) BY DEF Diff, DiffPaths
<1>2. Diff(from, renamed)[p] =
        CASE p \in DOMAIN renamed -> Change("renamed", renamed[p], Hunks(from[renamed[p]], Tracked[p]))
          [] p \in Added(from, Tracked) \ DOMAIN renamed -> Change("added", None, Hunks(None, Tracked[p]))
          [] p \in Modified(from, Tracked) -> Change("modified", None, Hunks(from[p], Tracked[p]))
          [] OTHER -> Change("deleted", None, "none")
  BY DEF Diff, DiffPaths
<1>3. p \in Modified(from, Tracked) => p \notin Added(from, Tracked) BY DEF Modified, Added
<1>4. p \in Deleted(from, Tracked) => p \notin Added(from, Tracked) \cup Modified(from, Tracked)
  BY DEF Deleted, Modified, Added
<1>5. CASE p \in DOMAIN renamed BY <1>1, <1>2, <1>3, <1>5, RenamesGoFromDeleted
<1>6. CASE p \in Added(from, Tracked) \ DOMAIN renamed BY <1>1, <1>2, <1>3, <1>4, <1>6
<1>7. CASE p \in Modified(from, Tracked) \ DOMAIN renamed BY <1>1, <1>2, <1>3, <1>4, <1>7
<1>8. CASE p \in Deleted(from, Tracked) \ DOMAIN renamed BY <1>1, <1>2, <1>3, <1>4, <1>8
<1> QED BY <1>1, <1>5, <1>6, <1>7, <1>8

LEMMA DiffIsOf == ASSUME NEW from, NEW renamed PROVE DOMAIN Diff(from, renamed) = DiffPaths(from, renamed)
BY DEF Diff, DiffPaths

DiffOf(from, renamed) == IF from = Unborn THEN <<>> ELSE Diff(from, renamed)

\* The set is the diff's changes, and of the paths it does not name the status'.
Joins(changes, diff, status) ==
  /\ DOMAIN changes = DOMAIN diff \cup DOMAIN status
  /\ \A p \in DOMAIN diff : changes[p] = diff[p]
  /\ \A p \in DOMAIN status \ DOMAIN diff : changes[p] = status[p]

LEMMA SetIsBoth ==
  ASSUME NEW from, NEW changes \in ChangedSet(from)
  PROVE  \E renamed \in Renames(Committed(from), Tracked), staged \in Renames(Committed(head), index) :
           Joins(changes, DiffOf(from, renamed), Status(DiffOf(from, renamed), staged))
<1>1. PICK renamed \in Renames(Committed(from), Tracked), staged \in Renames(Committed(head), index) :
        changes = ChangedSetOf(from, renamed, staged)
  BY DEF ChangedSet
<1> DEFINE diff == DiffOf(from, renamed)
           status == Status(diff, staged)
<1>2. changes = [p \in DOMAIN diff \cup DOMAIN status |-> IF p \in DOMAIN diff THEN diff[p] ELSE status[p]]
  BY <1>1 DEF ChangedSetOf, DiffOf
<1> HIDE DEF diff, status
<1>3. Joins(changes, diff, status) BY <1>2 DEF Joins
<1> QED BY <1>3 DEF diff, status

LEMMA StatusSays ==
  ASSUME NEW diff, NEW staged, NEW p \in RepoPath, Listed(p, staged),
         p \notin DOMAIN diff, \A d \in DOMAIN diff : diff[d].old # p
  PROVE  /\ p \in DOMAIN Status(diff, staged)
         /\ Letters(p, staged) = <<" ", " ">> => Status(diff, staged)[p] = Change("added", None, WholeFile(p))
BY DEF Status

\* What a diff names as a source was there before and is not any more.
LEMMA SourcesAreDeleted ==
  ASSUME NEW from, NEW renamed \in Renames(from, Tracked), NEW d \in DOMAIN Diff(from, renamed)
  PROVE  Diff(from, renamed)[d].old = None \/ Diff(from, renamed)[d].old \in Deleted(from, Tracked)
<1>1. d \in DiffPaths(from, renamed) BY DiffIsOf
<1>2. \/ d \in DOMAIN renamed
      \/ d \in Added(from, Tracked) \ DOMAIN renamed
      \/ d \in Modified(from, Tracked) \ DOMAIN renamed
      \/ d \in Deleted(from, Tracked) \ DOMAIN renamed
  BY <1>1 DEF DiffPaths
<1>3. CASE d \in DOMAIN renamed
  <2>1. Diff(from, renamed)[d].old = renamed[d] BY <1>1, <1>3, DiffSays, ChangeHas
  <2> QED BY <1>3, <2>1, RenamesGoFromDeleted
<1>4. CASE d \notin DOMAIN renamed
  <2>1. Diff(from, renamed)[d].old = None BY <1>1, <1>2, <1>4, DiffSays, ChangeHas
  <2> QED BY <2>1
<1> QED BY <1>3, <1>4

LEMMA TrackedIsSeen ==
  ASSUME GitInv, NEW from \in {base, head} \ {Unborn}, NEW changes \in ChangedSet(from), NEW p \in RepoPath
  PROVE  /\ index[p] # None /\ disk[p] \notin {from[p], None, Empty} =>
              /\ p \in DOMAIN changes
              /\ \/ changes[p].lines # "none"
                 \/ changes[p].old # None /\ from[changes[p].old] = disk[p]
         /\ from[p] # None /\ disk[p] = None =>
              \/ p \in Sources(changes)
              \/ p \in DOMAIN changes /\ changes[p].status = "deleted"
<1>1. Committed(from) = from BY DEF Committed
<1>2. PICK renamed \in Renames(from, Tracked) :
        \A q \in DOMAIN Diff(from, renamed) : q \in DOMAIN changes /\ changes[q] = Diff(from, renamed)[q]
  <2>1. PICK renamed \in Renames(from, Tracked), staged \in Renames(Committed(head), index) :
          Joins(changes, DiffOf(from, renamed), Status(DiffOf(from, renamed), staged))
    BY <1>1, SetIsBoth
  <2>2. DiffOf(from, renamed) = Diff(from, renamed) BY DEF DiffOf
  <2> QED BY <2>1, <2>2 DEF Joins
<1> DEFINE diff == Diff(from, renamed)
<1>3. \A old \in Range(renamed) : Tracked[old] = None /\ \E new \in DOMAIN renamed : renamed[new] = old
  BY RenamesGoFromDeleted DEF Deleted
<1>4. ASSUME index[p] # None, disk[p] \notin {from[p], None, Empty}
      PROVE /\ p \in DOMAIN changes
            /\ \/ changes[p].lines # "none"
               \/ changes[p].old # None /\ from[changes[p].old] = disk[p]
  <2>1. Tracked[p] = disk[p] /\ disk[p] # None /\ disk[p] # from[p] /\ disk[p] # Empty BY <1>4 DEF Tracked
  <2>2. p \in Added(from, Tracked) \cup Modified(from, Tracked) BY <2>1 DEF Added, Modified
  <2>3. p \in DiffPaths(from, renamed) BY <1>3, <2>1, <2>2 DEF DiffPaths
  <2>4. p \in DOMAIN changes /\ changes[p] = diff[p] BY <1>2, <2>3, DiffIsOf
  <2>5. \A before : before # disk[p] => Hunks(before, Tracked[p]) = "hunks" BY <2>1 DEF Hunks
  <2>6. CASE p \in DOMAIN renamed
    <3>1. diff[p].old = renamed[p] /\ diff[p].lines = Hunks(from[renamed[p]], Tracked[p])
      BY <2>3, <2>6, DiffSays, ChangeHas
    <3>2. renamed[p] \in RepoPath BY <2>6, RenamesGoFromDeleted DEF Deleted
    <3> QED BY <2>4, <2>5, <3>1, <3>2, PathsAreNames
  <2>7. CASE p \notin DOMAIN renamed
    <3>1. diff[p].lines = Hunks(None, Tracked[p]) \/ diff[p].lines = Hunks(from[p], Tracked[p])
      BY <2>2, <2>3, <2>7, DiffSays, ChangeHas
    <3> QED BY <2>1, <2>4, <2>5, <3>1
  <2> QED BY <2>6, <2>7
<1>5. ASSUME from[p] # None, disk[p] = None
      PROVE p \in Sources(changes) \/ (p \in DOMAIN changes /\ changes[p].status = "deleted")
  <2>1. p \in Deleted(from, Tracked) BY <1>5 DEF Deleted, Tracked
  <2>2. p \notin DOMAIN renamed BY <2>1, RenamesGoFromDeleted DEF Added, Deleted
  <2>3. CASE p \in Range(renamed)
    <3>1. PICK new \in DOMAIN renamed : renamed[new] = p BY <1>3, <2>3
    <3>2. new \in Added(from, Tracked) BY RenamesGoFromDeleted
    <3>3. new \in DiffPaths(from, renamed) BY <1>3, <3>2 DEF DiffPaths, Added
    <3>4. diff[new].old = p BY <3>1, <3>3, DiffSays, ChangeHas
    <3>5. new \in DOMAIN changes /\ changes[new].old = p BY <1>2, <3>3, <3>4, DiffIsOf
    <3> QED BY <3>5 DEF Sources
  <2>4. CASE p \notin Range(renamed)
    <3>1. p \in DiffPaths(from, renamed) BY <2>1, <2>4 DEF DiffPaths
    <3>2. diff[p].status = "deleted" BY <2>1, <2>2, <3>1, DiffSays, ChangeHas
    <3> QED BY <1>2, <3>1, <3>2, DiffIsOf
  <2> QED BY <2>3, <2>4
<1> QED BY <1>4, <1>5

\* The status letters of a path staged renames have nothing to do with.
LEMMA StagedIsElsewhere ==
  ASSUME NEW staged \in Renames(Committed(head), index), NEW p \in RepoPath, index[p] = None, Committed(head)[p] = None
  PROVE  Letters(p, staged) = <<" ", " ">>
<1>1. p \notin DOMAIN staged /\ p \notin Added(Committed(head), index)
      /\ p \notin Deleted(Committed(head), index) /\ p \notin Modified(Committed(head), index)
  BY RenamesGoFromDeleted DEF Added, Deleted, Modified
<1>2. Letter(Committed(head), index, p, staged) = " " BY <1>1 DEF Letter
<1> QED BY <1>2 DEF Letters

LEMMA NewIsAdded ==
  ASSUME GitInv, NEW from \in {base, head}, NEW changes \in ChangedSet(from), NEW p \in Untracked,
         Committed(from)[p] = None, Committed(head)[p] = None
  PROVE  p \in DOMAIN changes /\ changes[p] = Change("added", None, WholeFile(p))
<1>1. PICK renamed \in Renames(Committed(from), Tracked), staged \in Renames(Committed(head), index) :
        Joins(changes, DiffOf(from, renamed), Status(DiffOf(from, renamed), staged))
  BY SetIsBoth
<1> DEFINE diff == DiffOf(from, renamed)
<1>2. p \in RepoPath /\ index[p] = None /\ Tracked[p] = None BY DEF Untracked, Tracked
<1>3. p \notin DOMAIN diff /\ \A d \in DOMAIN diff : diff[d].old # p
  <2>1. CASE from = Unborn
    <3>1. DOMAIN diff = {} BY <2>1 DEF DiffOf
    <3> HIDE DEF diff
    <3> QED BY <3>1
  <2>2. CASE from # Unborn
    <3>1. Committed(from) = from /\ diff = Diff(from, renamed) BY <2>2 DEF Committed, DiffOf
    <3>2. p \notin DiffPaths(from, renamed) BY <1>2, <3>1 DEF DiffPaths, Added, Modified, Deleted
    <3>3. p \notin Deleted(from, Tracked) /\ p # None BY <1>2, <3>1, PathsAreNames DEF Deleted
    <3> QED BY <3>1, <3>2, <3>3, DiffIsOf, SourcesAreDeleted
  <2> QED BY <2>1, <2>2
<1> HIDE DEF diff
<1>4. Letters(p, staged) = <<" ", " ">> BY <1>2, StagedIsElsewhere
<1>5. Listed(p, staged) BY DEF Listed
<1>6. p \in DOMAIN Status(diff, staged) /\ Status(diff, staged)[p] = Change("added", None, WholeFile(p))
  BY <1>2, <1>3, <1>4, <1>5, StatusSays
<1> QED BY <1>1, <1>3, <1>6 DEF diff, Joins

\* What a set leaves out is as its base has it, unless a rename took the path.
LEMMA LeftOutIsTheBases ==
  ASSUME GitInv, NEW from \in {base, head}, NEW changes \in ChangedSet(from), NEW p \in ListFiles \ DOMAIN changes
  PROVE  /\ p \in Untracked => p \in Sources(changes)
         /\ p \notin Untracked /\ from # Unborn => disk[p] = from[p]
         /\ p \notin Untracked => head # Unborn \/ from # Unborn
<1>1. PICK renamed \in Renames(Committed(from), Tracked), staged \in Renames(Committed(head), index) :
        Joins(changes, DiffOf(from, renamed), Status(DiffOf(from, renamed), staged))
  BY SetIsBoth
<1> DEFINE diff == DiffOf(from, renamed)
<1>2. p \in RepoPath /\ disk[p] # None BY DEF ListFiles
<1>3. p \notin DOMAIN diff /\ p \notin DOMAIN Status(diff, staged) BY <1>1 DEF Joins
<1>4. \A d \in DOMAIN diff : d \in DOMAIN changes /\ changes[d].old = diff[d].old BY <1>1 DEF Joins
<1>5. ASSUME p \in Untracked PROVE p \in Sources(changes)
  <2>1. Listed(p, staged) BY <1>5 DEF Listed
  <2> HIDE DEF diff
  <2>2. PICK d \in DOMAIN diff : diff[d].old = p BY <1>2, <1>3, <2>1, StatusSays
  <2> QED BY <1>4, <2>2 DEF Sources
<1>6. ASSUME p \notin Untracked, from # Unborn PROVE disk[p] = from[p]
  <2>1. Tracked[p] = disk[p] BY <1>2, <1>6 DEF Untracked, Tracked
  <2>2. p \notin Range(renamed) BY <1>2, <1>6, <2>1, RenamesGoFromDeleted DEF Deleted, Committed
  <2>3. p \notin DiffPaths(from, renamed) BY <1>3, <1>6, DiffIsOf DEF DiffOf
  <2> QED BY <1>2, <2>1, <2>2, <2>3 DEF DiffPaths, Added, Modified
<1>7. ASSUME p \notin Untracked, head = Unborn, from = Unborn PROVE FALSE
  <2>1. Committed(head)[p] = None /\ index[p] # None BY <1>2, <1>7 DEF Committed, NoFiles, Untracked
  <2>2. p \in Added(Committed(head), index) BY <1>2, <2>1 DEF Added
  <2>3. Letter(Committed(head), index, p, staged) # " "
    <3>1. CASE p \in DOMAIN staged BY <3>1 DEF Letter
    <3>2. CASE p \notin DOMAIN staged BY <2>2, <3>2 DEF Letter
    <3> QED BY <3>1, <3>2
  <2>4. Letters(p, staged) # <<" ", " ">> BY <2>3 DEF Letters
  <2>5. Listed(p, staged) BY <2>4 DEF Listed
  <2>6. DOMAIN diff = {} BY <1>7 DEF DiffOf
  <2> HIDE DEF diff
  <2> QED BY <1>2, <1>3, <2>5, <2>6, StatusSays
<1> QED BY <1>5, <1>6, <1>7

(* Nothing that differs is left out of a changed set, and it says of what  *)
(* it has how it differs: for any paths, contents and renames, after any   *)
(* of the user's git commands.                                             *)
THEOREM ChangesAreExactAlways == GitSpec => []ChangesAreExact
<1>1. GitInit => GitInv BY GitStarts
<1>2. GitInv /\ [GitNext]_gitVars => GitInv' BY GitStays
<1>3. GitInv => ChangesAreExact
  <2> SUFFICES ASSUME GitInv PROVE ChangesAreExact OBVIOUS
  <2>1. TrackedChangesHaveLines BY TrackedIsSeen DEF TrackedChangesHaveLines
  <2>2. NewFilesAreAdded BY NewIsAdded DEF NewFilesAreAdded
  <2>3. UnchangedIsCommitted
    <3> SUFFICES ASSUME NEW againstHead \in ChangedSet(head), NEW againstBase \in ChangedSet(base),
                        NEW p \in ListFiles \ Current(againstHead, againstBase)
                 PROVE \/ disk[p] = Committed(head)[p] /\ disk[p] = Committed(base)[p]
                       \/ p \in Untracked /\ p \in Sources(againstHead) \cup Sources(againstBase)
      BY DEF UnchangedIsCommitted
    <3>1. p \in ListFiles \ DOMAIN againstHead /\ p \in ListFiles \ DOMAIN againstBase BY DEF Current
    <3>2. CASE p \in Untracked BY <3>1, <3>2, LeftOutIsTheBases
    <3>3. CASE p \notin Untracked
      <4>1. head # Unborn BY <3>1, <3>3, LeftOutIsTheBases
      <4>2. base # Unborn BY <4>1 DEF GitInv
      <4> QED BY <3>1, <3>3, <4>1, <4>2, LeftOutIsTheBases DEF Committed
    <3> QED BY <3>2, <3>3
  <2> QED BY <2>1, <2>2, <2>3 DEF ChangesAreExact
<1> QED BY <1>1, <1>2, <1>3, PTL DEF GitSpec

-----------------------------------------------------------------------------
(* What every plan, and what is left of one, consists of *)

Step ==
  [path : Path \cup {"../outside", ".rtdd/"},
   do : {"write", "delete", "delete directory", "conflict"}, doc : Doc \cup {None}]

\* A step changes what it may: marks stay where they belong, a user-level
\* install is no target, and the ignore line is only added.
Lawful(s) ==
  /\ s.do = "write" =>
       /\ s.path \in Path /\ s.doc \in Doc /\ MarksBelong(s.path, s.doc)
       /\ s.path \in FrontEnd => s.doc = FrontEndNow
       /\ s.path = Ignore => Has(s.doc, GraphLine)
  /\ s.do = "delete" => s.path \in Path /\ s.path # Ignore
  /\ s.do = "delete directory" => s.path \in OwnDir \cup {".rtdd/"}
  /\ s.path \in FrontEnd /\ s.do # "conflict" => ~ Kept(s.path)

\* It writes as many words of the user's as there are, and takes none.
KeepsWords(s) ==
  /\ s.do = "write" /\ s.path \notin RtddDir => Count(s.doc, Prose) = prose[s.path]
  /\ s.do = "delete" /\ s.path \notin RtddDir => prose[s.path] = 0
  /\ s.do = "delete directory" /\ s.path \in OwnDir =>
       prose[s.path] = 0 /\ prose[Beside[s.path]] = 0

\* What --legacy-files changes nobody opted into, nor is it so afterwards; and
\* it leaves .rtdd/.
NotOptedInto(s) ==
  s.do # "conflict" =>
    /\ s.path # ".rtdd/"
    /\ \A p \in Target(s) : ~ Holds(p, OptIn)
    /\ s.do = "write" => ~ Has(s.doc, OptIn)

\* .rtdd/.gitignore is written once, if it lacks the line, and before the line
\* of the root's is taken.
WritesIgnore(s) == s.do = "write" /\ s.path = Ignore
TakesRoot(s) == s.do \in {"write", "delete"} /\ s.path = RootIgnore

IgnoredFirst(steps) ==
  \A i \in DOMAIN steps :
    /\ WritesIgnore(steps[i]) =>
         /\ ~ Holds(Ignore, GraphLine)
         /\ \A j \in DOMAIN steps : WritesIgnore(steps[j]) => j = i
    /\ TakesRoot(steps[i]) =>
         Holds(Ignore, GraphLine) \/ \E j \in DOMAIN steps : j < i /\ WritesIgnore(steps[j])

TreeHolds ==
  /\ atHome \in BOOLEAN /\ files \in [Path -> Doc \cup {None}]
  /\ \A p \in Path : files[p] # None => MarksBelong(p, files[p])
  /\ prose \in [Path -> Nat] /\ edits \in 0..MaxEdits
  /\ \A p \in Path \ RtddDir : Words(p) = prose[p]

RunHolds ==
  /\ run = [cmd |-> run.cmd, options |-> run.options, steps |-> run.steps,
            before |-> run.before, exit |-> run.exit]
  /\ run.exit \in {"none", "running", "ok", "conflict", "failed"}
  /\ run.steps \in Seq(Step) /\ \A s \in Elements(run.steps) : Lawful(s)
  /\ Running =>
       /\ \A s \in Elements(run.steps) :
            KeepsWords(s) /\ IF run.cmd = "legacy" THEN NotOptedInto(s) ELSE ~ TakesRoot(s)
       /\ IgnoredFirst(run.steps)

InstallInv == TreeHolds /\ RunHolds

LEMMA Apart ==
  /\ \A f \in FrontEnd : f \notin RtddDir /\ f \notin {Attributes, RootIgnore} /\ f \notin Shared
                         /\ f \notin {"../outside", ".rtdd/"}
  /\ \A p \in Shared : p \notin RtddDir /\ p \notin {Attributes, RootIgnore} /\ p \notin {"../outside", ".rtdd/"}
  /\ \A f \in OwnDir : /\ f \in FrontEnd /\ Beside[f] \in Path /\ Beside[f] \notin RtddDir
                       /\ Beside[f] \notin {Attributes, RootIgnore}
                       /\ Beside[f] \notin FrontEnd /\ Beside[f] \notin Shared
  /\ FrontEnds \in Seq(FrontEnd) /\ AgentFiles \in Seq(Shared) /\ Torn \subseteq RtddDir \cup FrontEnd
  /\ MaxEdits \in Nat
<1>. DEFINE kinds == <<RtddDir, {Attributes, RootIgnore}, FrontEnd, Shared,
                       {Beside[f] : f \in OwnDir}, {"../outside", ".rtdd/"}>>
<1>1. \A i, j \in DOMAIN kinds : i # j => kinds[i] \cap kinds[j] = {}
  BY PathsAreApart
<1>2. DOMAIN kinds = 1..6
  OBVIOUS
<1>3. \A i, j \in 1..6 : i # j => kinds[i] \cap kinds[j] = {}
  <2>. HIDE DEF kinds
  <2>. QED  BY <1>1, <1>2
<1>4. /\ kinds[1] = RtddDir /\ kinds[2] = {Attributes, RootIgnore} /\ kinds[3] = FrontEnd /\ kinds[4] = Shared
      /\ kinds[5] = {Beside[f] : f \in OwnDir} /\ kinds[6] = {"../outside", ".rtdd/"}
  OBVIOUS
<1>. HIDE DEF kinds
<1>5. /\ FrontEnd \cap RtddDir = {} /\ FrontEnd \cap {Attributes, RootIgnore} = {} /\ FrontEnd \cap Shared = {}
      /\ FrontEnd \cap {"../outside", ".rtdd/"} = {}
  <2>1. kinds[3] \cap kinds[1] = {} /\ kinds[3] \cap kinds[2] = {} /\ kinds[3] \cap kinds[4] = {} /\ kinds[3] \cap kinds[6] = {}
    BY <1>3
  <2>. QED  BY <1>4, <2>1
<1>6. /\ Shared \cap RtddDir = {} /\ Shared \cap {Attributes, RootIgnore} = {} /\ Shared \cap {"../outside", ".rtdd/"} = {}
  <2>1. kinds[4] \cap kinds[1] = {} /\ kinds[4] \cap kinds[2] = {} /\ kinds[4] \cap kinds[6] = {}
    BY <1>3
  <2>. QED  BY <1>4, <2>1
<1>7. /\ {Beside[f] : f \in OwnDir} \cap RtddDir = {} /\ {Beside[f] : f \in OwnDir} \cap {Attributes, RootIgnore} = {}
      /\ {Beside[f] : f \in OwnDir} \cap FrontEnd = {} /\ {Beside[f] : f \in OwnDir} \cap Shared = {}
  <2>1. kinds[5] \cap kinds[1] = {} /\ kinds[5] \cap kinds[2] = {} /\ kinds[5] \cap kinds[3] = {} /\ kinds[5] \cap kinds[4] = {}
    BY <1>3
  <2>. QED  BY <1>4, <2>1
<1>8. OwnDir \subseteq FrontEnd /\ FrontEnds \in Seq(FrontEnd) /\ AgentFiles \in Seq(Shared)
      /\ Torn \subseteq RtddDir \cup FrontEnd /\ MaxEdits \in Nat
  BY PathsAreApart
<1>9. \A f \in OwnDir : Beside[f] \in Path
  BY DEF Path
<1>10. \A f \in FrontEnd : /\ f \notin RtddDir /\ f \notin {Attributes, RootIgnore} /\ f \notin Shared
                           /\ f \notin {"../outside", ".rtdd/"}
  BY <1>5
<1>11. \A p \in Shared : p \notin RtddDir /\ p \notin {Attributes, RootIgnore} /\ p \notin {"../outside", ".rtdd/"}
  BY <1>6
<1>12. \A f \in OwnDir : /\ f \in FrontEnd /\ Beside[f] \in Path /\ Beside[f] \notin RtddDir
                         /\ Beside[f] \notin {Attributes, RootIgnore}
                         /\ Beside[f] \notin FrontEnd /\ Beside[f] \notin Shared
  BY <1>7, <1>8, <1>9
<1>. QED  BY <1>8, <1>10, <1>11, <1>12

-----------------------------------------------------------------------------
(* The plans *)

LEMMA MarksDiffer ==
  /\ Prose # Newline /\ Prose # GraphLine /\ Prose # MapLine /\ Prose # Generated /\ Prose # OptIn
  /\ Prose \notin BlockTokens /\ Generated \notin BlockTokens /\ MapLine \notin BlockTokens
  /\ Generated # GraphLine /\ Generated # MapLine /\ OptIn # GraphLine /\ OptIn # MapLine /\ MapLine # GraphLine
  /\ Generated # Newline /\ OptIn # Newline /\ MapLine # Newline
  /\ BeginMarker # GraphLine /\ EndMarker # GraphLine /\ BeginMarker # MapLine /\ EndMarker # MapLine
  /\ BeginMarker # Prose /\ EndMarker # Prose /\ OptIn # Generated
BY DEF Prose, Newline, GraphLine, MapLine, Generated, OptIn, BlockTokens, BeginMarker, EndMarker

LEMMA NoneIsNoDoc == None \notin Doc
BY NoneIsNoFile DEF Doc

\* A file as the invariant has it.
LEMMA FileIs ==
  ASSUME TreeHolds, NEW p \in Path
  PROVE  /\ files[p] \in Doc \cup {None}
         /\ files[p] # None =>
              /\ files[p] \in Doc /\ MarksBelong(p, files[p]) /\ Count(files[p], Prose) = Words(p)
              /\ ~ Has(files[p], Prose) => Words(p) = 0
         /\ files[p] = None => Words(p) = 0
         /\ p \notin RtddDir => Words(p) = prose[p]
<1>1. files[p] \in Doc \cup {None} /\ (files[p] # None => MarksBelong(p, files[p]))
  BY DEF TreeHolds
<1>2. files[p] # None => Count(files[p], Prose) = Words(p)
  BY DEF Count, Words
<1>3. files[p] = None => Words(p) = 0
  BY DEF Words
<1>4. files[p] # None /\ ~ Has(files[p], Prose) => Words(p) = 0
  BY <1>1, <1>2, NoneCounts
<1>5. p \notin RtddDir => Words(p) = prose[p]
  BY DEF TreeHolds
<1>. QED  BY <1>1, <1>2, <1>3, <1>4, <1>5

Good(plan) == plan \in Seq(Step) /\ \A s \in Elements(plan) : Lawful(s) /\ KeepsWords(s)

LEMMA NothingIsGood == Good(<<>>) /\ Elements(<<>>) = {}
BY DEF Good, Elements

LEMMA OnlyStep == ASSUME NEW s PROVE Elements(<<s>>) = {s}
BY DEF Elements

LEMMA OneIsGood ==
  ASSUME NEW s \in Step, Lawful(s), KeepsWords(s) PROVE Good(<<s>>)
<1>. HIDE DEF Step
<1>. QED  BY OnlyStep DEF Good

LEMMA JoinIsGood ==
  ASSUME NEW a, NEW b, Good(a), Good(b)
  PROVE  Good(a \o b) /\ Elements(a \o b) = Elements(a) \cup Elements(b)
<1>. HIDE DEF Step
<1>. QED  BY JoinElements DEF Good

LEMMA JoinedIsGood ==
  ASSUME NEW n \in Nat, NEW parts, parts = [i \in 1..n |-> parts[i]], \A i \in 1..n : Good(parts[i])
  PROVE  /\ Good(Joined(parts))
         /\ Elements(Joined(parts)) = UNION {Elements(parts[i]) : i \in 1..n}
<1>. HIDE DEF Step
<1>1. \A i \in 1..n : parts[i] \in Seq(Step)
  BY DEF Good
<1>2. parts \in Seq(Seq(Step)) /\ DOMAIN parts = 1..n
  BY <1>1
<1>3. /\ Joined(parts) \in Seq(Step)
      /\ Elements(Joined(parts)) = UNION {Elements(parts[i]) : i \in 1..n}
  BY <1>2, JoinedElements
<1>. QED  BY <1>3 DEF Good

\* It leaves both ignore files alone.
Quiet(plan) == \A s \in Elements(plan) : ~ WritesIgnore(s) /\ ~ TakesRoot(s)

LEMMA NothingIsQuiet == Quiet(<<>>)
BY NothingIsGood DEF Quiet

LEMMA JoinIsQuiet ==
  ASSUME NEW a, NEW b, Good(a), Good(b), Quiet(a), Quiet(b)
  PROVE  Quiet(a \o b)
BY JoinIsGood DEF Quiet

LEMMA JoinedIsQuiet ==
  ASSUME NEW n \in Nat, NEW parts, parts = [i \in 1..n |-> parts[i]],
         \A i \in 1..n : Good(parts[i]) /\ Quiet(parts[i])
  PROVE  Good(Joined(parts)) /\ Quiet(Joined(parts))
<1>1. /\ Good(Joined(parts))
      /\ Elements(Joined(parts)) = UNION {Elements(parts[i]) : i \in 1..n}
  BY JoinedIsGood
<1>. QED  BY <1>1 DEF Quiet

\* The four kinds of steps.
LEMMA WriteIs ==
  ASSUME NEW p \in Path, NEW d \in Doc, MarksBelong(p, d),
         p \in FrontEnd => d = FrontEndNow /\ ~ Kept(p),
         p = Ignore => Has(d, GraphLine),
         p \notin RtddDir => Count(d, Prose) = prose[p]
  PROVE  /\ Good(Write(p, d)) /\ Elements(Write(p, d)) = {[path |-> p, do |-> "write", doc |-> d]}
         /\ p \notin {Ignore, RootIgnore} => Quiet(Write(p, d))
<1>. DEFINE s == [path |-> p, do |-> "write", doc |-> d]
<1>1. s.path = p /\ s.do = "write" /\ s.doc = d
  OBVIOUS
<1>2. s \in Step
  BY DEF Step
<1>3. Write(p, d) = <<s>>
  BY DEF Write
<1>. HIDE DEF s
<1>4. Lawful(s) /\ KeepsWords(s)
  BY <1>1 DEF Lawful, KeepsWords
<1>5. p \notin {Ignore, RootIgnore} => ~ WritesIgnore(s) /\ ~ TakesRoot(s)
  BY <1>1 DEF WritesIgnore, TakesRoot
<1>6. Good(Write(p, d)) /\ Elements(Write(p, d)) = {s}
  BY <1>2, <1>3, <1>4, OneIsGood, OnlyStep
<1>. QED  BY <1>5, <1>6 DEF s, Quiet

LEMMA DeleteIs ==
  ASSUME NEW p \in Path, p # Ignore, p \in FrontEnd => ~ Kept(p),
         p \notin RtddDir => prose[p] = 0
  PROVE  /\ Good(Delete(p)) /\ Elements(Delete(p)) = {[path |-> p, do |-> "delete", doc |-> None]}
         /\ p # RootIgnore => Quiet(Delete(p))
<1>. DEFINE s == [path |-> p, do |-> "delete", doc |-> None]
<1>1. s.path = p /\ s.do = "delete" /\ s.doc = None
  OBVIOUS
<1>2. s \in Step
  BY DEF Step
<1>3. Delete(p) = <<s>>
  BY DEF Delete
<1>. HIDE DEF s
<1>4. Lawful(s) /\ KeepsWords(s)
  BY <1>1 DEF Lawful, KeepsWords
<1>5. p # RootIgnore => ~ WritesIgnore(s) /\ ~ TakesRoot(s)
  BY <1>1 DEF WritesIgnore, TakesRoot
<1>6. Good(Delete(p)) /\ Elements(Delete(p)) = {s}
  BY <1>2, <1>3, <1>4, OneIsGood, OnlyStep
<1>. QED  BY <1>5, <1>6 DEF s, Quiet

LEMMA DeleteDirIs ==
  ASSUME NEW d \in OwnDir \cup {".rtdd/"},
         d \in OwnDir => ~ Kept(d) /\ prose[d] = 0 /\ prose[Beside[d]] = 0
  PROVE  /\ Good(<<[path |-> d, do |-> "delete directory", doc |-> None]>>)
         /\ Quiet(<<[path |-> d, do |-> "delete directory", doc |-> None]>>)
         /\ Elements(<<[path |-> d, do |-> "delete directory", doc |-> None]>>) =
              {[path |-> d, do |-> "delete directory", doc |-> None]}
<1>. DEFINE s == [path |-> d, do |-> "delete directory", doc |-> None]
<1>1. s.path = d /\ s.do = "delete directory" /\ s.doc = None
  OBVIOUS
<1>2. s \in Step
  BY Apart DEF Step, Path
<1>. HIDE DEF s
<1>3. d \in FrontEnd => d \in OwnDir
  BY Apart
<1>4. Lawful(s) /\ KeepsWords(s)
  BY <1>1, <1>3 DEF Lawful, KeepsWords
<1>5. ~ WritesIgnore(s) /\ ~ TakesRoot(s)
  BY <1>1 DEF WritesIgnore, TakesRoot
<1>6. Good(<<s>>) /\ Elements(<<s>>) = {s}
  BY <1>2, <1>4, OneIsGood, OnlyStep
<1>. QED  BY <1>5, <1>6 DEF s, Quiet

LEMMA ConflictIs ==
  ASSUME NEW p \in Path \cup {"../outside"}
  PROVE  /\ Good(Conflict(p)) /\ Elements(Conflict(p)) = {[path |-> p, do |-> "conflict", doc |-> None]}
         /\ Quiet(Conflict(p))
<1>. DEFINE s == [path |-> p, do |-> "conflict", doc |-> None]
<1>1. s.path = p /\ s.do = "conflict" /\ s.doc = None
  OBVIOUS
<1>2. s \in Step
  BY DEF Step
<1>3. Conflict(p) = <<s>>
  BY DEF Conflict
<1>. HIDE DEF s
<1>4. Lawful(s) /\ KeepsWords(s)
  BY <1>1 DEF Lawful, KeepsWords
<1>5. ~ WritesIgnore(s) /\ ~ TakesRoot(s)
  BY <1>1 DEF WritesIgnore, TakesRoot
<1>6. Good(Conflict(p)) /\ Elements(Conflict(p)) = {s}
  BY <1>2, <1>3, <1>4, OneIsGood, OnlyStep
<1>. QED  BY <1>5, <1>6 DEF s, Quiet

\* What has fewer marks than what belongs, belongs.
LEMMA FewerMarksBelong ==
  ASSUME NEW p, NEW d, NEW w, MarksBelong(p, d), Unmarked(w) \/ (p \in Shared /\ (Marked(w) => ~ Has(BlockOf(w), Prose))),
         \A t \in {Generated, Prose, OptIn, MapLine} : Has(w, t) => Has(d, t)
  PROVE  MarksBelong(p, w)
<1>1. Unmarked(w) => ~ Marked(w)
  BY DEF Unmarked, Marked, Has
<1>. QED  BY <1>1 DEF MarksBelong

LEMMA WithoutLineIs ==
  ASSUME TreeHolds, NEW p \in {Attributes, RootIgnore}, NEW line \in {MapLine, GraphLine}
  PROVE  /\ Good(WithoutLine(p, line))
         /\ p = Attributes => Quiet(WithoutLine(p, line))
         /\ Elements(WithoutLine(p, line)) \subseteq
              {[path |-> p, do |-> "write", doc |-> RemoveLine(files[p], line)],
               [path |-> p, do |-> "delete", doc |-> None]}
         /\ ~ Holds(p, line) <=> WithoutLine(p, line) = <<>>
         /\ Holds(p, line) => \E s \in Step : WithoutLine(p, line) = <<s>>
<1>1. p \in Path /\ p \notin RtddDir /\ p \notin FrontEnd /\ p \notin Shared /\ p # Ignore
  BY Apart DEF Path, RtddDir, Config, Ignore, State, Attributes, RootIgnore
<1>2. CASE ~ Holds(p, line)
  <2>1. WithoutLine(p, line) = <<>>
    BY <1>2 DEF WithoutLine
  <2>. QED  BY <1>2, <2>1, NothingIsGood, NothingIsQuiet
<1>3. CASE Holds(p, line)
  <2>. DEFINE d == files[p]
              w == RemoveLine(d, line)
  <2>1. d \in Doc /\ MarksBelong(p, d) /\ Count(d, Prose) = prose[p] /\ d # None
    BY <1>1, <1>3, FileIs DEF Holds
  <2>. HIDE DEF d
  <2>2. \A t : t # line => w \in Doc /\ ~ Has(w, line) /\ Count(w, t) = Count(d, t)
    BY <2>1, RemoveLineIs
  <2>3. Prose # line /\ BeginMarker # line /\ EndMarker # line
    BY MarksDiffer
  <2>4. w \in Doc /\ Count(w, Prose) = prose[p]
    BY <2>1, <2>2, <2>3
  <2>. HIDE DEF w
  <2>5. \A t : Has(w, t) => Has(d, t)
    BY <2>1, <2>2, <2>4, NoneCounts
  <2>6. Unmarked(w)
    BY <1>1, <2>1, <2>5 DEF MarksBelong, Unmarked
  <2>7. MarksBelong(p, w)
    BY <2>1, <2>5, <2>6, FewerMarksBelong
  <2>8. CASE Blank(w)
    <3>1. WithoutLine(p, line) = Delete(p)
      BY <1>3, <2>8 DEF WithoutLine, w, d
    <3>2. prose[p] = 0
      BY <2>4, <2>8, BlankCounts, MarksDiffer
    <3>3. /\ Good(Delete(p)) /\ Elements(Delete(p)) = {[path |-> p, do |-> "delete", doc |-> None]}
          /\ p # RootIgnore => Quiet(Delete(p))
      BY <1>1, <3>2, DeleteIs
    <3>4. Delete(p) # <<>> /\ \E s \in Step : Delete(p) = <<s>>
      <4>1. [path |-> p, do |-> "delete", doc |-> None] \in Step
        BY <1>1 DEF Step
      <4>. QED  BY <4>1 DEF Delete
    <3>5. p = Attributes => p # RootIgnore
      BY DEF Attributes, RootIgnore
    <3>. QED  BY <1>3, <3>1, <3>3, <3>4, <3>5
  <2>9. CASE ~ Blank(w)
    <3>1. WithoutLine(p, line) = Write(p, w)
      BY <1>3, <2>9 DEF WithoutLine, w, d
    <3>2. /\ Good(Write(p, w)) /\ Elements(Write(p, w)) = {[path |-> p, do |-> "write", doc |-> w]}
          /\ p \notin {Ignore, RootIgnore} => Quiet(Write(p, w))
      BY <1>1, <2>4, <2>7, WriteIs
    <3>3. Write(p, w) # <<>> /\ \E s \in Step : Write(p, w) = <<s>>
      <4>1. [path |-> p, do |-> "write", doc |-> w] \in Step
        BY <1>1, <2>4 DEF Step
      <4>. QED  BY <4>1 DEF Write
    <3>4. p = Attributes => p # RootIgnore
      BY DEF Attributes, RootIgnore
    <3>. QED  BY <1>1, <1>3, <3>1, <3>2, <3>3, <3>4 DEF w, d
  <2>. QED  BY <2>8, <2>9
<1>. QED  BY <1>2, <1>3

Sound(plan) == Good(plan) /\ Quiet(plan)

LEMMA NothingIsSound == Sound(<<>>)
BY NothingIsGood, NothingIsQuiet DEF Sound

LEMMA JoinIsSound ==
  ASSUME NEW a, NEW b, Sound(a), Sound(b) PROVE Sound(a \o b)
BY JoinIsGood, JoinIsQuiet DEF Sound

LEMMA PlainDocs ==
  /\ <<Key>> \in Doc /\ <<GraphLine>> \in Doc /\ FrontEndNow \in Doc
  /\ Has(<<GraphLine>>, GraphLine) /\ ~ Has(FrontEndNow, Prose)
  /\ \A p : MarksBelong(p, <<Key>>) /\ MarksBelong(p, <<GraphLine>>) /\ MarksBelong(p, <<>>)
  /\ \A f \in FrontEnd : MarksBelong(f, FrontEndNow)
<1>1. Key \in Token /\ GraphLine \in Token /\ Generated \in Token /\ OptIn \in Token /\ "new render" \in Token
  BY ToldAreTokens DEF Told, Body
<1>2. <<Key>> \in Doc /\ <<GraphLine>> \in Doc /\ FrontEndNow \in Doc
  <2>. HIDE DEF Key, GraphLine, Generated, OptIn
  <2>1. <<Key>> \in Seq(Token) /\ <<GraphLine>> \in Seq(Token)
    BY <1>1, OneIs
  <2>2. <<Generated, OptIn, "new render">> \in Seq(Token)
    BY <1>1, ThreeAre
  <2>. QED  BY <2>1, <2>2 DEF Doc, FrontEndNow
<1>3. \A t : /\ Has(<<Key>>, t) <=> Key = t
             /\ Has(<<GraphLine>>, t) <=> GraphLine = t
             /\ ~ Has(<<>>, t)
  BY <1>1, OneCounts, EmptyCounts
<1>4. \A t : Has(FrontEndNow, t) => t \in {Generated, OptIn, "new render"}
  <2>1. DOMAIN FrontEndNow = {1, 2, 3}
    BY DEF FrontEndNow
  <2>2. FrontEndNow[1] = Generated /\ FrontEndNow[2] = OptIn /\ FrontEndNow[3] = "new render"
    BY DEF FrontEndNow
  <2>. QED  BY <2>1, <2>2 DEF Has, Places
<1>5. \A d : Unmarked(d) => ~ Marked(d)
  BY DEF Unmarked, Marked, Has
<1>6. /\ Key # Generated /\ Key # OptIn /\ Key # MapLine /\ Key # BeginMarker /\ Key # EndMarker
      /\ GraphLine # Generated /\ GraphLine # OptIn /\ GraphLine # MapLine /\ GraphLine # BeginMarker /\ GraphLine # EndMarker
  BY DEF Key, GraphLine, Generated, OptIn, MapLine, BeginMarker, EndMarker
<1>7. \A p : MarksBelong(p, <<Key>>) /\ MarksBelong(p, <<GraphLine>>) /\ MarksBelong(p, <<>>)
  BY <1>3, <1>5, <1>6 DEF MarksBelong, Unmarked
<1>8. /\ BeginMarker \notin {Generated, OptIn, "new render"} /\ EndMarker \notin {Generated, OptIn, "new render"}
      /\ MapLine \notin {Generated, OptIn, "new render"} /\ Prose \notin {Generated, OptIn, "new render"}
  BY DEF Generated, OptIn, MapLine, BeginMarker, EndMarker, Prose
<1>9. \A f \in FrontEnd : MarksBelong(f, FrontEndNow)
  BY <1>4, <1>5, <1>8 DEF MarksBelong, Unmarked
<1>. QED  BY <1>2, <1>3, <1>4, <1>7, <1>8, <1>9

LEMMA RtddPaths ==
  /\ \A p \in RtddDir : p \in Path /\ p \notin FrontEnd /\ p \notin Shared /\ p \notin {Attributes, RootIgnore}
  /\ Config \in RtddDir /\ Ignore \in RtddDir /\ State \in RtddDir
  /\ Config # Ignore /\ State # Ignore /\ Attributes # RootIgnore
  /\ Attributes \in Path \ RtddDir /\ RootIgnore \in Path \ RtddDir
  /\ \A f \in FrontEnd : f \in Path \ RtddDir
  /\ \A p \in Shared : p \in Path \ RtddDir
BY Apart DEF Path, RtddDir, Config, Ignore, State, Attributes, RootIgnore

LEMMA MigrationIsSound == ASSUME TreeHolds PROVE Sound(PlanMigration)
<1>1. Sound(IF files[State] # None THEN Delete(State) ELSE <<>>)
  <2>1. Sound(Delete(State))
    BY RtddPaths, DeleteIs DEF Sound
  <2>. QED  BY <2>1, NothingIsSound
<1>2. Sound(WithoutLine(Attributes, MapLine))
  BY WithoutLineIs DEF Sound
<1>. QED  BY <1>1, <1>2, JoinIsSound DEF PlanMigration

LEMMA ConfigIsSound == ASSUME TreeHolds PROVE Sound(PlanConfig)
<1>1. Sound(Write(Config, <<Key>>))
  BY RtddPaths, WriteIs, PlainDocs DEF Sound
<1>. QED  BY <1>1, NothingIsSound DEF PlanConfig

\* The ignore line is added if it is not there.
LEMMA IgnoreIs ==
  ASSUME TreeHolds
  PROVE  /\ Good(PlanIgnore)
         /\ Holds(Ignore, GraphLine) <=> PlanIgnore = <<>>
         /\ ~ Holds(Ignore, GraphLine) =>
              \E s \in Step : WritesIgnore(s) /\ PlanIgnore = <<s>> /\ ~ Has(s.doc, OptIn)
<1>. DEFINE d == files[Ignore]
            g == <<GraphLine>>
<1>1. Ignore \in Path /\ Ignore \in RtddDir /\ Ignore \notin FrontEnd /\ Ignore \notin Shared /\ Ignore # Attributes
  BY RtddPaths
<1>2. g \in Doc /\ Has(g, GraphLine) /\ MarksBelong(Ignore, g)
  BY PlainDocs
<1>3. d # None => d \in Doc /\ MarksBelong(Ignore, d)
  BY <1>1, FileIs
<1>4. ASSUME NEW w \in Doc, MarksBelong(Ignore, w), Has(w, GraphLine)
      PROVE  Good(Write(Ignore, w)) /\ \E s \in Step : WritesIgnore(s) /\ Write(Ignore, w) = <<s>> /\ ~ Has(s.doc, OptIn)
  <2>1. Good(Write(Ignore, w))
    BY <1>1, <1>4, WriteIs
  <2>. DEFINE s == [path |-> Ignore, do |-> "write", doc |-> w]
  <2>2. s \in Step /\ s.doc = w /\ s.do = "write" /\ s.path = Ignore
    BY <1>1 DEF Step
  <2>3. Write(Ignore, w) = <<s>>
    BY DEF Write
  <2>4. ~ Has(w, OptIn)
    BY <1>1, <1>4 DEF MarksBelong
  <2>. HIDE DEF s
  <2>. QED  BY <2>1, <2>2, <2>3, <2>4 DEF WritesIgnore
<1>5. CASE d = None
  <2>1. PlanIgnore = Write(Ignore, g) /\ ~ Holds(Ignore, GraphLine)
    BY <1>5 DEF PlanIgnore, Holds
  <2>2. Good(Write(Ignore, g)) /\ \E s \in Step : WritesIgnore(s) /\ Write(Ignore, g) = <<s>> /\ ~ Has(s.doc, OptIn)
    BY <1>2, <1>4
  <2>3. \A s : <<s>> # <<>>
    OBVIOUS
  <2>. QED  BY <2>1, <2>2, <2>3
<1>6. CASE d # None /\ Has(d, GraphLine)
  <2>1. PlanIgnore = <<>> /\ Holds(Ignore, GraphLine)
    BY <1>6 DEF PlanIgnore, Holds
  <2>. QED  BY <2>1, NothingIsGood
<1>7. CASE d # None /\ ~ Has(d, GraphLine)
  <2>. DEFINE w == Append(d, GraphLine)
  <2>1. PlanIgnore = Write(Ignore, w) /\ ~ Holds(Ignore, GraphLine)
    BY <1>7 DEF PlanIgnore, Holds
  <2>2. w = d \o g
    <3>. QED  BY <1>3, <1>7 DEF Doc
  <2>3. d \in Doc /\ MarksBelong(Ignore, d)
    BY <1>3, <1>7
  <2>4. \A t : Has(g, t) <=> GraphLine = t
    <3>1. GraphLine \in Token
      BY ToldAreTokens DEF Told
    <3>. QED  BY <3>1, OneCounts
  <2>. HIDE DEF w, d, g
  <2>5. w \in Doc /\ \A t : Has(w, t) <=> Has(d, t) \/ GraphLine = t
    BY <1>2, <2>2, <2>3, <2>4, JoinCounts, JoinIs
  <2>6. Unmarked(w) /\ Has(w, GraphLine)
    <3>1. Unmarked(d)
      BY <1>1, <2>3 DEF MarksBelong
    <3>. QED  BY <2>5, <3>1, MarksDiffer DEF Unmarked
  <2>7. MarksBelong(Ignore, w)
    <3>1. \A t \in {Generated, Prose, OptIn, MapLine} : Has(w, t) => Has(d, t)
      BY <2>5, MarksDiffer
    <3>. QED  BY <2>3, <2>6, <3>1, FewerMarksBelong
  <2>8. Good(Write(Ignore, w)) /\ \E s \in Step : WritesIgnore(s) /\ Write(Ignore, w) = <<s>> /\ ~ Has(s.doc, OptIn)
    BY <1>4, <2>5, <2>6, <2>7
  <2>9. \A s : <<s>> # <<>>
    OBVIOUS
  <2>. QED  BY <2>1, <2>8, <2>9
<1>. QED  BY <1>5, <1>6, <1>7

LEMMA FrontEndIsSound ==
  ASSUME TreeHolds, NEW f \in FrontEnd PROVE Sound(PlanFrontEnd(f))
<1>1. f \in Path /\ f \notin RtddDir /\ f # Ignore /\ f # RootIgnore
  BY Apart, RtddPaths
<1>2. CASE Kept(f) \/ files[f] = FrontEndNow
  BY <1>2, NothingIsSound DEF PlanFrontEnd
<1>3. CASE ~ Kept(f) /\ files[f] # FrontEndNow /\ (files[f] = None \/ Holds(f, Generated))
  <2>1. PlanFrontEnd(f) = Write(f, FrontEndNow)
    BY <1>3 DEF PlanFrontEnd
  <2>2. prose[f] = 0
    BY <1>1, <1>3, FileIs DEF Holds, MarksBelong
  <2>3. FrontEndNow \in Doc /\ MarksBelong(f, FrontEndNow) /\ Count(FrontEndNow, Prose) = 0
    BY PlainDocs, NoneCounts
  <2>. HIDE DEF FrontEndNow
  <2>4. Sound(Write(f, FrontEndNow))
    BY <1>1, <1>3, <2>2, <2>3, WriteIs DEF Sound
  <2>. QED  BY <2>1, <2>4
<1>4. CASE ~ Kept(f) /\ files[f] # FrontEndNow /\ ~ (files[f] = None \/ Holds(f, Generated))
  <2>1. PlanFrontEnd(f) = Conflict(f)
    BY <1>4 DEF PlanFrontEnd
  <2>. QED  BY <1>1, <2>1, ConflictIs DEF Sound
<1>. QED  BY <1>2, <1>3, <1>4

LEMMA AppendIsSound ==
  ASSUME TreeHolds, NEW p \in Shared \cup {"../outside"} PROVE Sound(PlanAppend(p))
<1>. DEFINE d == IF files[p] = None THEN <<>> ELSE files[p]
            w == MergeBlock(d, Block)
<1>1. PlanAppend(p) = IF p \notin Shared \/ Conflicted(d) THEN Conflict(p)
                      ELSE IF w = d THEN <<>> ELSE Write(p, w)
  BY DEF PlanAppend
<1>2. CASE p \notin Shared \/ Conflicted(d)
  BY <1>1, <1>2, ConflictIs, RtddPaths DEF Sound
<1>3. CASE ~ (p \notin Shared \/ Conflicted(d)) /\ w = d
  <2>. HIDE DEF w, d
  <2>. QED  BY <1>1, <1>3, NothingIsSound
<1>4. CASE ~ (p \notin Shared \/ Conflicted(d)) /\ w # d
  <2>1. p \in Path /\ p \notin RtddDir /\ p \in Shared /\ p # Ignore /\ p # RootIgnore /\ p \notin FrontEnd
    BY <1>4, Apart, RtddPaths
  <2>2. d \in Doc /\ MarksBelong(p, d) /\ Count(d, Prose) = prose[p]
    BY <2>1, FileIs, EmptyCounts, PlainDocs
  <2>. HIDE DEF d
  <2>3. /\ w \in Doc /\ Marked(w) /\ BlockOf(w) = Block
        /\ \A t : t \notin BlockTokens =>
              /\ Has(w, t) => Has(d, t)
              /\ (Marked(d) => ~ Has(BlockOf(d), t)) => Count(w, t) = Count(d, t)
    BY <1>4, <2>2, MergeBlockIs
  <2>. HIDE DEF w
  <2>4. Count(w, Prose) = prose[p]
    BY <2>2, <2>3, MarksDiffer DEF MarksBelong
  <2>5. MarksBelong(p, w)
    <3>1. ~ Has(Block, Prose)
      BY BlockHas, MarksDiffer DEF BlockTokens
    <3>2. ~ Has(w, Generated) /\ ~ Has(w, MapLine)
      <4>1. ~ Has(d, Generated) /\ ~ Has(d, MapLine)
        BY <2>1, <2>2, RtddPaths, Apart DEF MarksBelong
      <4>. QED  BY <2>3, <4>1, MarksDiffer
    <3>. QED  BY <2>1, <2>3, <3>1, <3>2 DEF MarksBelong
  <2>6. Sound(Write(p, w))
    BY <2>1, <2>3, <2>4, <2>5, WriteIs DEF Sound
  <2>. QED  BY <1>1, <1>4, <2>6
<1>. QED  BY <1>2, <1>3, <1>4

\* What uninstall and --legacy-files do to a front-end and to a block.
Legal(plan) == \A s \in Elements(plan) : NotOptedInto(s)

LEMMA NothingIsLegal == Legal(<<>>)
BY NothingIsGood DEF Legal

LEMMA TargetsAre ==
  ASSUME NEW p, NEW d
  PROVE  /\ Target([path |-> p, do |-> "write", doc |-> d]) = {p}
         /\ Target([path |-> p, do |-> "delete", doc |-> d]) = {p}
         /\ Target([path |-> p, do |-> "delete directory", doc |-> d]) = InDir(p)
BY DEF Target

LEMMA RenderedIs ==
  ASSUME TreeHolds, NEW f \in FrontEnd, Holds(f, Generated)
  PROVE  /\ f \in Path /\ f # Ignore /\ f # RootIgnore /\ prose[f] = 0
         /\ Alone(f) => /\ f \in OwnDir /\ prose[Beside[f]] = 0 /\ InDir(f) = {f, Beside[f]}
                        /\ ~ Holds(Beside[f], OptIn)
<1>1. f \in Path /\ f \notin RtddDir /\ f # Ignore /\ f # RootIgnore
  BY Apart, RtddPaths
<1>2. prose[f] = 0
  BY <1>1, FileIs DEF Holds, MarksBelong
<1>3. ASSUME Alone(f)
      PROVE  /\ f \in OwnDir /\ prose[Beside[f]] = 0 /\ InDir(f) = {f, Beside[f]}
             /\ ~ Holds(Beside[f], OptIn)
  <2>1. f \in OwnDir /\ files[Beside[f]] = None /\ Beside[f] \in Path /\ Beside[f] \notin RtddDir
    BY <1>3, Apart DEF Alone
  <2>2. prose[Beside[f]] = 0
    BY <2>1, FileIs
  <2>3. f # ".rtdd/"
    BY Apart
  <2>. QED  BY <2>1, <2>2, <2>3 DEF InDir, Holds
<1>. QED  BY <1>1, <1>2, <1>3

LEMMA RemoveFrontEndIsSound ==
  ASSUME TreeHolds, NEW f \in FrontEnd PROVE Sound(RemoveFrontEnd(f))
<1>1. CASE Kept(f) \/ ~ Holds(f, Generated)
  BY <1>1, NothingIsSound DEF RemoveFrontEnd
<1>2. CASE ~ (Kept(f) \/ ~ Holds(f, Generated))
  <2>. DEFINE dir == IF Alone(f) THEN DeleteDir(f) ELSE <<>>
  <2>1. RemoveFrontEnd(f) = Delete(f) \o dir
    BY <1>2 DEF RemoveFrontEnd
  <2>2. Sound(Delete(f))
    BY <1>2, RenderedIs, DeleteIs DEF Sound
  <2>3. Sound(dir)
    <3>1. CASE Alone(f)
      <4>1. f \in OwnDir \cup {".rtdd/"} /\ ~ Kept(f) /\ prose[f] = 0 /\ prose[Beside[f]] = 0
        BY <1>2, <3>1, RenderedIs
      <4>2. DeleteDir(f) = <<[path |-> f, do |-> "delete directory", doc |-> None]>>
        BY DEF DeleteDir
      <4>. QED  BY <3>1, <4>1, <4>2, DeleteDirIs DEF Sound
    <3>2. CASE ~ Alone(f)
      BY <3>2, NothingIsSound
    <3>. QED  BY <3>1, <3>2
  <2>. HIDE DEF dir
  <2>. QED  BY <2>1, <2>2, <2>3, JoinIsSound
<1>. QED  BY <1>1, <1>2

LEMMA LegacyFrontEndIsSound ==
  ASSUME TreeHolds, NEW f \in FrontEnd
  PROVE  Sound(LegacyFrontEnd(f)) /\ Legal(LegacyFrontEnd(f))
<1>1. CASE Kept(f) \/ ~ Holds(f, Generated) \/ Holds(f, OptIn)
  BY <1>1, NothingIsSound, NothingIsLegal DEF LegacyFrontEnd
<1>2. CASE ~ (Kept(f) \/ ~ Holds(f, Generated) \/ Holds(f, OptIn)) /\ Alone(f)
  <2>. DEFINE s == [path |-> f, do |-> "delete directory", doc |-> None]
  <2>1. LegacyFrontEnd(f) = <<s>>
    BY <1>2 DEF LegacyFrontEnd, DeleteDir
  <2>2. f \in OwnDir \cup {".rtdd/"} /\ ~ Kept(f) /\ prose[f] = 0 /\ prose[Beside[f]] = 0
        /\ InDir(f) = {f, Beside[f]} /\ ~ Holds(Beside[f], OptIn)
    BY <1>2, RenderedIs
  <2>3. Good(<<s>>) /\ Quiet(<<s>>) /\ Elements(<<s>>) = {s}
    BY <2>2, DeleteDirIs
  <2>4. Target(s) = {f, Beside[f]} /\ s.do = "delete directory" /\ s.path = f /\ f # ".rtdd/"
    BY <2>2, TargetsAre, Apart
  <2>. HIDE DEF s
  <2>5. NotOptedInto(s)
    BY <1>2, <2>2, <2>4 DEF NotOptedInto
  <2>. QED  BY <2>1, <2>3, <2>5 DEF Sound, Legal
<1>3. CASE ~ (Kept(f) \/ ~ Holds(f, Generated) \/ Holds(f, OptIn)) /\ ~ Alone(f)
  <2>. DEFINE s == [path |-> f, do |-> "delete", doc |-> None]
  <2>1. LegacyFrontEnd(f) = Delete(f)
    BY <1>3 DEF LegacyFrontEnd
  <2>2. Good(Delete(f)) /\ Quiet(Delete(f)) /\ Elements(Delete(f)) = {s}
    BY <1>3, RenderedIs, DeleteIs
  <2>3. Target(s) = {f} /\ s.do = "delete" /\ s.path = f /\ f # ".rtdd/"
    BY TargetsAre, Apart
  <2>. HIDE DEF s
  <2>4. NotOptedInto(s)
    BY <1>3, <2>3 DEF NotOptedInto
  <2>. QED  BY <2>1, <2>2, <2>4 DEF Sound, Legal
<1>. QED  BY <1>1, <1>2, <1>3

LEMMA WithoutBlockIsSound ==
  ASSUME TreeHolds, NEW p \in Shared
  PROVE  Sound(WithoutBlock(p)) /\ (~ Holds(p, OptIn) => Legal(WithoutBlock(p)))
<1>. DEFINE d == files[p]
            r == RemoveBlock(d)
<1>0. p \in Path /\ p \notin RtddDir /\ p # Ignore /\ p # RootIgnore /\ p \notin FrontEnd
  BY Apart, RtddPaths
<1>1. CASE d = None \/ (~ Conflicted(d) /\ Unmarked(d))
  BY <1>1, NothingIsSound, NothingIsLegal DEF WithoutBlock
<1>2. CASE d # None /\ Conflicted(d)
  <2>. DEFINE s == [path |-> p, do |-> "conflict", doc |-> None]
  <2>1. WithoutBlock(p) = Conflict(p)
    BY <1>2 DEF WithoutBlock
  <2>2. Sound(Conflict(p)) /\ Elements(Conflict(p)) = {s}
    BY <1>0, ConflictIs DEF Sound
  <2>3. NotOptedInto(s)
    BY DEF NotOptedInto
  <2>. HIDE DEF s
  <2>. QED  BY <2>1, <2>2, <2>3 DEF Legal
<1>3. CASE d # None /\ ~ Conflicted(d) /\ ~ Unmarked(d)
  <2>1. d \in Doc /\ MarksBelong(p, d) /\ Count(d, Prose) = prose[p]
    BY <1>0, <1>3, FileIs
  <2>2. Marked(d)
    BY <1>3 DEF Conflicted
  <2>3. WithoutBlock(p) = IF Blank(r) THEN Delete(p) ELSE Write(p, r)
    BY <1>3 DEF WithoutBlock
  <2>4. Holds(p, OptIn) <=> Has(d, OptIn)
    BY <1>3 DEF Holds
  <2>. HIDE DEF d
  <2>5. /\ r \in Doc /\ Unmarked(r)
        /\ \A t : t # Newline =>
             /\ Has(r, t) => Has(d, t)
             /\ ~ Has(BlockOf(d), t) => Count(r, t) = Count(d, t)
    BY <2>1, <2>2, RemoveBlockIs
  <2>. HIDE DEF r
  <2>6. Count(r, Prose) = prose[p] /\ MarksBelong(p, r) /\ (Has(r, OptIn) => Has(d, OptIn))
    <3>1. \A t \in {Generated, Prose, OptIn, MapLine} : Has(r, t) => Has(d, t)
      BY <2>5, MarksDiffer
    <3>2. MarksBelong(p, r)
      BY <2>1, <2>5, <3>1, FewerMarksBelong
    <3>3. ~ Has(BlockOf(d), Prose)
      BY <2>1, <2>2 DEF MarksBelong
    <3>. QED  BY <2>1, <2>5, <3>1, <3>2, <3>3, MarksDiffer
  <2>7. CASE Blank(r)
    <3>. DEFINE s == [path |-> p, do |-> "delete", doc |-> None]
    <3>1. prose[p] = 0
      BY <2>5, <2>6, <2>7, BlankCounts, MarksDiffer
    <3>2. Sound(Delete(p)) /\ Elements(Delete(p)) = {s}
      BY <1>0, <3>1, DeleteIs DEF Sound
    <3>3. Target(s) = {p} /\ s.do = "delete" /\ s.path = p /\ p # ".rtdd/"
      BY TargetsAre, Apart
    <3>. HIDE DEF s
    <3>4. ~ Holds(p, OptIn) => NotOptedInto(s)
      BY <3>3 DEF NotOptedInto
    <3>. QED  BY <2>3, <2>7, <3>2, <3>4 DEF Legal
  <2>8. CASE ~ Blank(r)
    <3>. DEFINE s == [path |-> p, do |-> "write", doc |-> r]
    <3>1. Sound(Write(p, r)) /\ Elements(Write(p, r)) = {s}
      BY <1>0, <2>5, <2>6, WriteIs DEF Sound
    <3>2. Target(s) = {p} /\ s.do = "write" /\ s.doc = r /\ s.path = p /\ p # ".rtdd/"
      BY TargetsAre, Apart
    <3>. HIDE DEF s
    <3>3. ~ Holds(p, OptIn) => NotOptedInto(s)
      BY <2>4, <2>6, <3>2 DEF NotOptedInto
    <3>. QED  BY <2>3, <2>8, <3>1, <3>3 DEF Legal
  <2>. QED  BY <2>7, <2>8
<1>. QED  BY <1>1, <1>2, <1>3

LEMMA LegacyBlockIsSound ==
  ASSUME TreeHolds, NEW p \in Shared PROVE Sound(LegacyBlock(p)) /\ Legal(LegacyBlock(p))
BY WithoutBlockIsSound, NothingIsSound, NothingIsLegal DEF LegacyBlock

-----------------------------------------------------------------------------
(* Whole plans *)

LEMMA EachIsSound ==
  ASSUME NEW S, NEW seq \in Seq(S), NEW parts, parts = [i \in DOMAIN seq |-> parts[i]],
         \A i \in DOMAIN seq : Sound(parts[i])
  PROVE  Sound(Joined(parts)) /\ ((\A i \in DOMAIN seq : Legal(parts[i])) => Legal(Joined(parts)))
<1>. DEFINE n == Len(seq)
<1>1. n \in Nat /\ DOMAIN seq = 1..n
  OBVIOUS
<1>. HIDE DEF n
<1>2. parts = [i \in 1..n |-> parts[i]] /\ \A i \in 1..n : Good(parts[i]) /\ Quiet(parts[i])
  BY <1>1 DEF Sound
<1>3. Good(Joined(parts)) /\ Quiet(Joined(parts))
      /\ Elements(Joined(parts)) = UNION {Elements(parts[i]) : i \in 1..n}
  BY <1>1, <1>2, JoinedIsGood, JoinedIsQuiet
<1>. QED  BY <1>1, <1>3 DEF Sound, Legal

LEMMA QuietIsIgnoredFirst ==
  ASSUME NEW plan, Quiet(plan) PROVE IgnoredFirst(plan)
<1>1. \A i \in DOMAIN plan : plan[i] \in Elements(plan)
  BY DEF Elements
<1>. QED  BY <1>1 DEF Quiet, IgnoredFirst

LEMMA JoinIsIgnoredFirst ==
  ASSUME NEW a, NEW b, Good(a), Good(b),
         \/ Quiet(a) /\ IgnoredFirst(b)
         \/ IgnoredFirst(a) /\ Quiet(b)
  PROVE  IgnoredFirst(a \o b)
<1>. DEFINE m == Len(a)
            n == Len(b)
            c == a \o b
            W(i) == WritesIgnore(c[i])
            R(i) == TakesRoot(c[i])
<1>1. a \in Seq(Step) /\ b \in Seq(Step)
  BY DEF Good
<1>2. /\ m \in Nat /\ n \in Nat /\ DOMAIN a = 1..m /\ DOMAIN b = 1..n
      /\ DOMAIN c = 1..(m + n)
      /\ \A i \in 1..(m + n) : c[i] = IF i <= m THEN a[i] ELSE b[i - m]
  <2>. HIDE DEF Step
  <2>1. c \in Seq(Step) /\ Len(c) = m + n
    BY <1>1, ConcatProperties
  <2>. QED  BY <1>1, <2>1, ConcatProperties
<1>. HIDE DEF m, n, c
<1>3. ASSUME NEW i \in 1..m PROVE i \in 1..(m + n) /\ c[i] = a[i] /\ a[i] \in Elements(a)
  <2>1. i \in 1..(m + n) /\ i <= m
    BY <1>2
  <2>. QED  BY <1>2, <2>1 DEF Elements
<1>4. ASSUME NEW i \in 1..n PROVE m + i \in 1..(m + n) /\ c[m + i] = b[i] /\ b[i] \in Elements(b)
  <2>1. m + i \in 1..(m + n) /\ ~ (m + i <= m) /\ (m + i) - m = i
    BY <1>2
  <2>2. c[m + i] = b[(m + i) - m]
    BY <1>2, <2>1
  <2>. QED  BY <1>2, <2>1, <2>2 DEF Elements
<1>5. ASSUME NEW i \in 1..(m + n), ~ (i <= m) PROVE i - m \in 1..n /\ m + (i - m) = i
  BY <1>2, <1>5
<1>6. CASE Quiet(a) /\ IgnoredFirst(b)
  <2>1. ASSUME NEW i \in 1..(m + n), W(i) \/ R(i)
        PROVE  i - m \in 1..n /\ m + (i - m) = i /\ c[i] = b[i - m]
    <3>1. ~ (i <= m)
      BY <1>2, <1>3, <1>6, <2>1 DEF Quiet
    <3>2. i - m \in 1..n /\ m + (i - m) = i
      BY <1>5, <3>1
    <3>3. c[m + (i - m)] = b[i - m]
      BY <1>4, <3>2
    <3>. QED  BY <3>2, <3>3
  <2>2. ASSUME NEW i \in 1..(m + n), W(i)
        PROVE  ~ Holds(Ignore, GraphLine) /\ \A j \in 1..(m + n) : W(j) => j = i
    <3>1. i - m \in 1..n /\ m + (i - m) = i /\ WritesIgnore(b[i - m])
      BY <2>1, <2>2
    <3>2. ASSUME NEW j \in 1..(m + n), W(j) PROVE j = i
      <4>1. j - m \in 1..n /\ m + (j - m) = j /\ WritesIgnore(b[j - m])
        BY <2>1, <3>2
      <4>2. j - m = i - m
        BY <1>2, <1>6, <3>1, <4>1 DEF IgnoredFirst
      <4>. QED  BY <3>1, <4>1, <4>2
    <3>3. ~ Holds(Ignore, GraphLine)
      BY <1>2, <1>6, <3>1 DEF IgnoredFirst
    <3>. QED  BY <3>2, <3>3
  <2>3. ASSUME NEW i \in 1..(m + n), R(i), ~ Holds(Ignore, GraphLine)
        PROVE  \E j \in 1..(m + n) : j < i /\ W(j)
    <3>1. i - m \in 1..n /\ m + (i - m) = i /\ TakesRoot(b[i - m])
      BY <2>1, <2>3
    <3>2. PICK k \in 1..n : k < i - m /\ WritesIgnore(b[k])
      BY <1>2, <1>6, <2>3, <3>1 DEF IgnoredFirst
    <3>3. m + k \in 1..(m + n) /\ W(m + k)
      BY <1>4, <3>2
    <3>4. m + k < i
      BY <1>2, <3>1, <3>2
    <3>. QED  BY <3>3, <3>4
  <2>. QED  BY <1>2, <2>2, <2>3 DEF IgnoredFirst, c
<1>7. CASE IgnoredFirst(a) /\ Quiet(b)
  <2>1. ASSUME NEW i \in 1..(m + n), W(i) \/ R(i)
        PROVE  i \in 1..m /\ c[i] = a[i]
    <3>1. SUFFICES ASSUME ~ (i <= m) PROVE FALSE
      BY <1>2
    <3>2. i - m \in 1..n /\ m + (i - m) = i
      BY <1>5, <3>1
    <3>3. c[m + (i - m)] = b[i - m] /\ b[i - m] \in Elements(b)
      BY <1>4, <3>2
    <3>. QED  BY <1>7, <2>1, <3>2, <3>3 DEF Quiet
  <2>2. ASSUME NEW i \in 1..(m + n), W(i)
        PROVE  ~ Holds(Ignore, GraphLine) /\ \A j \in 1..(m + n) : W(j) => j = i
    BY <1>2, <1>7, <2>1, <2>2 DEF IgnoredFirst
  <2>3. ASSUME NEW i \in 1..(m + n), R(i), ~ Holds(Ignore, GraphLine)
        PROVE  \E j \in 1..(m + n) : j < i /\ W(j)
    <3>1. i \in 1..m /\ TakesRoot(a[i])
      BY <2>1, <2>3
    <3>2. PICK k \in 1..m : k < i /\ WritesIgnore(a[k])
      BY <1>2, <1>7, <2>3, <3>1 DEF IgnoredFirst
    <3>3. k \in 1..(m + n) /\ W(k)
      BY <1>3, <3>2
    <3>. QED  BY <3>2, <3>3
  <2>. QED  BY <1>2, <2>2, <2>3 DEF IgnoredFirst, c
<1>. QED  BY <1>6, <1>7

LEMMA IgnoreIsIgnoredFirst == ASSUME TreeHolds PROVE Good(PlanIgnore) /\ IgnoredFirst(PlanIgnore)
<1>1. CASE Holds(Ignore, GraphLine)
  <2>1. PlanIgnore = <<>>
    BY <1>1, IgnoreIs
  <2>. QED  BY <2>1, NothingIsGood, NothingIsQuiet, QuietIsIgnoredFirst
<1>2. CASE ~ Holds(Ignore, GraphLine)
  <2>1. PICK s \in Step : WritesIgnore(s) /\ PlanIgnore = <<s>>
    BY <1>2, IgnoreIs
  <2>2. ~ TakesRoot(s)
    BY <2>1, RtddPaths DEF WritesIgnore, TakesRoot
  <2>3. DOMAIN <<s>> = {1} /\ <<s>>[1] = s
    OBVIOUS
  <2>4. IgnoredFirst(<<s>>)
    BY <1>2, <2>2, <2>3 DEF IgnoredFirst
  <2>. QED  BY <2>1, <2>4, IgnoreIs
<1>. QED  BY <1>1, <1>2

\* It leaves the root's ignore file alone.
Rootless(plan) == \A s \in Elements(plan) : ~ TakesRoot(s)

LEMMA SoundIsRootless == ASSUME NEW plan, Sound(plan) PROVE Rootless(plan)
BY DEF Sound, Quiet, Rootless

LEMMA JoinIsRootless ==
  ASSUME NEW a, NEW b, Good(a), Good(b), Rootless(a), Rootless(b) PROVE Rootless(a \o b)
BY JoinIsGood DEF Rootless

LEMMA IgnoreIsRootless == ASSUME TreeHolds PROVE Rootless(PlanIgnore)
<1>1. CASE Holds(Ignore, GraphLine)
  BY <1>1, IgnoreIs, NothingIsGood DEF Rootless
<1>2. CASE ~ Holds(Ignore, GraphLine)
  <2>1. PICK s \in Step : WritesIgnore(s) /\ PlanIgnore = <<s>>
    BY <1>2, IgnoreIs
  <2>. QED  BY <2>1, OnlyStep, RtddPaths DEF Rootless, WritesIgnore, TakesRoot
<1>. QED  BY <1>1, <1>2

LEMMA InitPlanIs ==
  ASSUME TreeHolds, NEW o \in Options
  PROVE  Good(PlanInit(o)) /\ IgnoredFirst(PlanInit(o)) /\ Rootless(PlanInit(o))
<1>. DEFINE front == IF o.skill THEN ForEach(FrontEnds, PlanFrontEnd) ELSE <<>>
            append == ForEach(o.append, PlanAppend)
            mc == PlanMigration \o PlanConfig
            mci == mc \o PlanIgnore
            mcif == mci \o front
<1>1. Sound(front)
  <2>. DEFINE parts == [i \in DOMAIN FrontEnds |-> PlanFrontEnd(FrontEnds[i])]
  <2>1. ForEach(FrontEnds, PlanFrontEnd) = Joined(parts)
    BY DEF ForEach
  <2>2. FrontEnds \in Seq(FrontEnd)
    BY Apart
  <2>3. \A i \in DOMAIN FrontEnds : Sound(parts[i])
    BY FrontEndIsSound DEF FrontEnd
  <2>4. parts = [i \in DOMAIN FrontEnds |-> parts[i]]
    OBVIOUS
  <2>. HIDE DEF parts
  <2>5. Sound(Joined(parts))
    BY <2>2, <2>3, <2>4, EachIsSound
  <2>. QED  BY <2>1, <2>5, NothingIsSound
<1>2. Sound(append)
  <2>. DEFINE parts == [i \in DOMAIN o.append |-> PlanAppend(o.append[i])]
  <2>1. append = Joined(parts)
    BY DEF ForEach
  <2>2. o.append \in Seq(Shared \cup {"../outside"})
    BY OptionsAreOptions
  <2>3. \A i \in DOMAIN o.append : o.append[i] \in Shared \cup {"../outside"}
    BY <2>2
  <2>4. \A i \in DOMAIN o.append : Sound(parts[i])
    BY <2>3, AppendIsSound
  <2>5. parts = [i \in DOMAIN o.append |-> parts[i]]
    OBVIOUS
  <2>. HIDE DEF parts
  <2>6. Sound(Joined(parts))
    BY <2>2, <2>4, <2>5, EachIsSound
  <2>. QED  BY <2>1, <2>6
<1>3. PlanInit(o) = mcif \o append
  BY DEF PlanInit
<1>. HIDE DEF front, append
<1>4. Sound(mc)
  BY MigrationIsSound, ConfigIsSound, JoinIsSound
<1>. HIDE DEF mc
<1>5. Good(mci) /\ IgnoredFirst(mci) /\ Rootless(mci)
  <2>1. Rootless(mci)
    BY <1>4, IgnoreIsIgnoredFirst, IgnoreIsRootless, SoundIsRootless, JoinIsRootless DEF Sound
  <2>. QED  BY <1>4, <2>1, IgnoreIsIgnoredFirst, JoinIsGood, JoinIsIgnoredFirst DEF Sound
<1>. HIDE DEF mci
<1>6. Good(mcif) /\ IgnoredFirst(mcif) /\ Rootless(mcif)
  <2>1. Rootless(mcif)
    BY <1>1, <1>5, SoundIsRootless, JoinIsRootless DEF Sound
  <2>. QED  BY <1>1, <1>5, <2>1, JoinIsGood, JoinIsIgnoredFirst DEF Sound
<1>. HIDE DEF mcif
<1>7. Rootless(PlanInit(o))
  BY <1>2, <1>3, <1>6, SoundIsRootless, JoinIsRootless DEF Sound
<1>. QED  BY <1>2, <1>3, <1>6, <1>7, JoinIsGood, JoinIsIgnoredFirst DEF Sound

LEMMA UninstallPlanIs ==
  ASSUME TreeHolds, NEW state \in BOOLEAN
  PROVE  Good(PlanUninstall(state)) /\ IgnoredFirst(PlanUninstall(state)) /\ Rootless(PlanUninstall(state))
<1>. DEFINE front == ForEach(FrontEnds, RemoveFrontEnd)
            blocks == ForEach(AgentFiles, WithoutBlock)
            line == WithoutLine(Attributes, MapLine)
            dir == IF state /\ \E p \in RtddDir : files[p] # None
                     THEN <<[path |-> ".rtdd/", do |-> "delete directory", doc |-> None]>>
                     ELSE <<>>
<1>1. Sound(front)
  <2>. DEFINE parts == [i \in DOMAIN FrontEnds |-> RemoveFrontEnd(FrontEnds[i])]
  <2>1. front = Joined(parts)
    BY DEF ForEach
  <2>2. FrontEnds \in Seq(FrontEnd)
    BY Apart
  <2>3. \A i \in DOMAIN FrontEnds : Sound(parts[i])
    BY RemoveFrontEndIsSound DEF FrontEnd
  <2>4. parts = [i \in DOMAIN FrontEnds |-> parts[i]]
    OBVIOUS
  <2>. HIDE DEF parts
  <2>. QED  BY <2>1, <2>2, <2>3, <2>4, EachIsSound
<1>2. Sound(blocks)
  <2>. DEFINE parts == [i \in DOMAIN AgentFiles |-> WithoutBlock(AgentFiles[i])]
  <2>1. blocks = Joined(parts)
    BY DEF ForEach
  <2>2. AgentFiles \in Seq(Shared) /\ \A i \in DOMAIN AgentFiles : AgentFiles[i] \in Shared
    BY Apart
  <2>3. \A i \in DOMAIN AgentFiles : Sound(parts[i])
    BY <2>2, WithoutBlockIsSound
  <2>4. parts = [i \in DOMAIN AgentFiles |-> parts[i]]
    OBVIOUS
  <2>. HIDE DEF parts
  <2>. QED  BY <2>1, <2>2, <2>3, <2>4, EachIsSound
<1>3. Sound(line)
  BY WithoutLineIs DEF Sound
<1>4. Sound(dir)
  <2>1. ".rtdd/" \in OwnDir \cup {".rtdd/"} /\ ".rtdd/" \notin OwnDir
    BY Apart
  <2>2. Sound(<<[path |-> ".rtdd/", do |-> "delete directory", doc |-> None]>>)
    BY <2>1, DeleteDirIs DEF Sound
  <2>. QED  BY <2>2, NothingIsSound
<1>5. PlanUninstall(state) = front \o blocks \o line \o dir
  BY DEF PlanUninstall
<1>. HIDE DEF front, blocks, line, dir
<1>6. Sound(front \o blocks)
  BY <1>1, <1>2, JoinIsSound
<1>7. Sound(front \o blocks \o line)
  BY <1>3, <1>6, JoinIsSound
<1>8. Sound(PlanUninstall(state))
  BY <1>4, <1>5, <1>7, JoinIsSound
<1>. QED  BY <1>8, QuietIsIgnoredFirst, SoundIsRootless DEF Sound

LEMMA LegacyLineIs ==
  ASSUME TreeHolds PROVE Good(LegacyLine) /\ IgnoredFirst(LegacyLine) /\ Legal(LegacyLine)
<1>. DEFINE without == WithoutLine(RootIgnore, GraphLine)
<1>1. CASE ~ Holds(RootIgnore, GraphLine)
  <2>1. LegacyLine = <<>>
    BY <1>1 DEF LegacyLine
  <2>. QED  BY <2>1, NothingIsGood, NothingIsQuiet, NothingIsLegal, QuietIsIgnoredFirst
<1>2. CASE Holds(RootIgnore, GraphLine)
  <2>1. LegacyLine = PlanIgnore \o without
    BY <1>2 DEF LegacyLine
  <2>2. PICK t \in Step : without = <<t>>
    BY <1>2, WithoutLineIs
  <2>3. Good(<<t>>) /\ t \in {[path |-> RootIgnore, do |-> "write", doc |-> RemoveLine(files[RootIgnore], GraphLine)],
                              [path |-> RootIgnore, do |-> "delete", doc |-> None]}
    BY <2>2, WithoutLineIs, OnlyStep
  <2>. HIDE DEF without
  <2>4. t.path = RootIgnore /\ t.do \in {"write", "delete"}
    BY <2>3
  <2>5. Target(t) = {RootIgnore}
    BY <2>4 DEF Target
  <2>6. ~ WritesIgnore(t) /\ TakesRoot(t)
    BY <2>4, RtddPaths DEF WritesIgnore, TakesRoot
  <2>7. \A p \in {Ignore, RootIgnore} : ~ Holds(p, OptIn)
    <3>1. \A p \in {Ignore, RootIgnore} : p \in Path /\ p \notin FrontEnd \cup Shared
      BY Apart, RtddPaths
    <3>. QED  BY <3>1, FileIs DEF Holds, MarksBelong
  <2>8. NotOptedInto(t)
    <3>1. RootIgnore \in Path /\ RootIgnore \notin FrontEnd \cup Shared
      BY Apart, RtddPaths
    <3>2. t.do = "write" => ~ Has(t.doc, OptIn)
      <4>1. Lawful(t)
        BY <2>3, OnlyStep DEF Good
      <4>. QED  BY <2>4, <3>1, <4>1 DEF Lawful, MarksBelong
    <3>3. RootIgnore # ".rtdd/"
      BY DEF RootIgnore
    <3>. QED  BY <2>4, <2>5, <2>7, <3>2, <3>3 DEF NotOptedInto
  <2>9. CASE Holds(Ignore, GraphLine)
    <3>1. LegacyLine = <<>> \o <<t>>
      BY <2>1, <2>2, <2>9, IgnoreIs
    <3>2. <<>> \o <<t>> = <<t>>
      <4>. HIDE DEF Step
      <4>1. <<t>> \in Seq(Step)
        BY <2>2, OneIs
      <4>. QED  BY <4>1
    <3>3. DOMAIN <<t>> = {1} /\ <<t>>[1] = t
      OBVIOUS
    <3>4. IgnoredFirst(<<t>>)
      BY <2>6, <2>9, <3>3 DEF IgnoredFirst
    <3>. QED  BY <2>3, <2>8, <3>1, <3>2, <3>4, OnlyStep DEF Legal
  <2>10. CASE ~ Holds(Ignore, GraphLine)
    <3>1. PICK s \in Step : WritesIgnore(s) /\ PlanIgnore = <<s>> /\ ~ Has(s.doc, OptIn)
      BY <2>10, IgnoreIs
    <3>2. LegacyLine = <<s>> \o <<t>>
      BY <2>1, <2>2, <3>1
    <3>3. Good(<<s>>)
      BY <3>1, IgnoreIs
    <3>4. NotOptedInto(s)
      <4>1. Target(s) = {Ignore} /\ s.path = Ignore /\ Ignore # ".rtdd/"
        BY <3>1 DEF WritesIgnore, Target, Ignore
      <4>. QED  BY <2>7, <3>1, <4>1 DEF NotOptedInto
    <3>5. Good(LegacyLine) /\ Legal(LegacyLine)
      BY <2>3, <2>8, <3>2, <3>3, <3>4, JoinIsGood, OnlyStep DEF Legal
    <3>. DEFINE u == <<s>> \o <<t>>
    <3>6. DOMAIN u = {1, 2} /\ u[1] = s /\ u[2] = t
      <4>. HIDE DEF Step
      <4>. DEFINE x == <<s>>
                  y == <<t>>
      <4>1. /\ x \in Seq(Step) /\ Len(x) = 1 /\ x[1] = s
            /\ y \in Seq(Step) /\ Len(y) = 1 /\ y[1] = t
        BY <2>2, <3>1, OneIs
      <4>2. u = x \o y
        OBVIOUS
      <4>. HIDE DEF x, y, u
      <4>3. /\ u \in Seq(Step) /\ Len(u) = 2
            /\ \A i \in 1..2 : u[i] = IF i <= 1 THEN x[i] ELSE y[i - 1]
        BY <4>1, <4>2, ConcatProperties
      <4>4. DOMAIN u = 1..2
        BY <4>3
      <4>. QED  BY <4>1, <4>3, <4>4
    <3>. HIDE DEF u
    <3>7. ~ TakesRoot(s)
      BY <3>1, RtddPaths DEF WritesIgnore, TakesRoot
    <3>8. IgnoredFirst(u)
      BY <2>6, <2>10, <3>1, <3>6, <3>7 DEF IgnoredFirst
    <3>. QED  BY <3>2, <3>5, <3>8 DEF u
  <2>. QED  BY <2>9, <2>10
<1>. QED  BY <1>1, <1>2

LEMMA LegacyPlanIs ==
  ASSUME TreeHolds PROVE Good(PlanLegacy) /\ IgnoredFirst(PlanLegacy) /\ Legal(PlanLegacy)
<1>. DEFINE front == ForEach(FrontEnds, LegacyFrontEnd)
            blocks == ForEach(AgentFiles, LegacyBlock)
            both == front \o blocks
<1>1. Sound(front) /\ Legal(front)
  <2>. DEFINE parts == [i \in DOMAIN FrontEnds |-> LegacyFrontEnd(FrontEnds[i])]
  <2>1. front = Joined(parts)
    BY DEF ForEach
  <2>2. FrontEnds \in Seq(FrontEnd)
    BY Apart
  <2>3. \A i \in DOMAIN FrontEnds : Sound(parts[i]) /\ Legal(parts[i])
    BY LegacyFrontEndIsSound DEF FrontEnd
  <2>4. parts = [i \in DOMAIN FrontEnds |-> parts[i]]
    OBVIOUS
  <2>. HIDE DEF parts
  <2>. QED  BY <2>1, <2>2, <2>3, <2>4, EachIsSound
<1>2. Sound(blocks) /\ Legal(blocks)
  <2>. DEFINE parts == [i \in DOMAIN AgentFiles |-> LegacyBlock(AgentFiles[i])]
  <2>1. blocks = Joined(parts)
    BY DEF ForEach
  <2>2. AgentFiles \in Seq(Shared) /\ \A i \in DOMAIN AgentFiles : AgentFiles[i] \in Shared
    BY Apart
  <2>3. \A i \in DOMAIN AgentFiles : Sound(parts[i]) /\ Legal(parts[i])
    BY <2>2, LegacyBlockIsSound
  <2>4. parts = [i \in DOMAIN AgentFiles |-> parts[i]]
    OBVIOUS
  <2>. HIDE DEF parts
  <2>. QED  BY <2>1, <2>2, <2>3, <2>4, EachIsSound
<1>3. PlanLegacy = both \o LegacyLine
  BY DEF PlanLegacy
<1>. HIDE DEF front, blocks
<1>4. Sound(both) /\ Legal(both)
  BY <1>1, <1>2, JoinIsSound, JoinIsGood DEF Sound, Legal
<1>. HIDE DEF both
<1>5. Good(PlanLegacy) /\ IgnoredFirst(PlanLegacy)
  BY <1>3, <1>4, LegacyLineIs, JoinIsGood, JoinIsIgnoredFirst DEF Sound
<1>6. Legal(PlanLegacy)
  BY <1>3, <1>4, LegacyLineIs, JoinIsGood DEF Sound, Legal
<1>. QED  BY <1>5, <1>6

-----------------------------------------------------------------------------
(* The machine *)

LEMMA CountIsNat == ASSUME NEW d \in Doc, NEW t PROVE Count(d, t) \in Nat
BY DocIs, FS_CardinalityType DEF Count

LEMMA InstallStarts == ASSUME Init PROVE InstallInv
<1>1. PICK w \in Worlds : atHome = w.atHome /\ files = w.files
  BY DEF Init
<1>2. /\ atHome \in BOOLEAN /\ files \in [Path -> Doc \cup {None}]
      /\ \A p \in Path : files[p] # None => MarksBelong(p, files[p])
  BY <1>1, WorldsAreTyped DEF Doc
<1>3. \A p \in Path : Words(p) \in Nat
  <2>1. ASSUME NEW p \in Path PROVE Words(p) \in Nat
    <3>1. CASE files[p] = None
      BY <3>1 DEF Words
    <3>2. CASE files[p] # None
      <4>1. files[p] \in Doc
        BY <1>2, <3>2
      <4>2. Count(files[p], Prose) \in Nat
        BY <4>1, CountIsNat
      <4>. QED  BY <3>2, <4>2 DEF Words, Count
    <3>. QED  BY <3>1, <3>2
  <2>. QED  BY <2>1
<1>4. prose = [p \in Path |-> Words(p)] /\ edits = 0 /\ run = NoRun
  BY DEF Init
<1>5. prose \in [Path -> Nat] /\ \A p \in Path \ RtddDir : Words(p) = prose[p]
  BY <1>3, <1>4
<1>6. edits \in 0..MaxEdits
  BY <1>4, Apart
<1>7. TreeHolds
  BY <1>2, <1>5, <1>6 DEF TreeHolds
<1>8. RunHolds
  <2>1. run.steps = <<>> /\ run.exit = "none" /\ run = NoRun
    BY <1>4 DEF NoRun
  <2>2. run = [cmd |-> run.cmd, options |-> run.options, steps |-> run.steps,
               before |-> run.before, exit |-> run.exit]
    BY <1>4 DEF NoRun
  <2>3. run.steps \in Seq(Step) /\ \A s \in Elements(run.steps) : Lawful(s)
    BY <2>1, NothingIsGood DEF Good
  <2>. QED  BY <2>1, <2>2, <2>3 DEF RunHolds, Running
<1>. QED  BY <1>7, <1>8 DEF InstallInv

\* What a claim about a step rests on.
LEMMA LawfulStays == ASSUME NEW s, atHome' = atHome, Lawful(s) PROVE Lawful(s)'
BY DEF Lawful, Kept

LEMMA KeepsWordsStays ==
  ASSUME NEW s, KeepsWords(s), \A p \in Target(s) : prose'[p] = prose[p], s.path \in OwnDir => s.path # ".rtdd/"
  PROVE  KeepsWords(s)'
<1>1. s.do \in {"write", "delete"} => s.path \in Target(s)
  BY DEF Target
<1>2. s.do = "delete directory" /\ s.path \in OwnDir => s.path \in Target(s) /\ Beside[s.path] \in Target(s)
  BY DEF Target, InDir
<1>. QED  BY <1>1, <1>2 DEF KeepsWords

LEMMA TargetIsPath ==
  ASSUME NEW s, Lawful(s), s.do \in {"write", "delete", "delete directory"}
  PROVE  Target(s) \subseteq Path
<1>1. CASE s.do \in {"write", "delete"}
  BY <1>1 DEF Target, Lawful
<1>2. CASE s.do = "delete directory"
  <2>1. Target(s) = InDir(s.path) /\ s.path \in OwnDir \cup {".rtdd/"}
    BY <1>2 DEF Target, Lawful
  <2>2. RtddDir \subseteq Path /\ \A f \in OwnDir : f \in Path /\ Beside[f] \in Path
    BY Apart, RtddPaths
  <2>. QED  BY <2>1, <2>2 DEF InDir
<1>. QED  BY <1>1, <1>2

\* What a step leaves.
LEMMA CarryIs ==
  ASSUME TreeHolds, NEW s \in Step, Lawful(s), s.do # "conflict", Carry(s)
  PROVE  /\ files' \in [Path -> Doc \cup {None}]
         /\ \A p \in Path : files'[p] = IF p \in Target(s) THEN (IF s.do = "write" THEN s.doc ELSE None)
                                        ELSE files[p]
<1>1. files \in [Path -> Doc \cup {None}]
  BY DEF TreeHolds
<1>2. CASE s.do = "write"
  <2>1. files' = [files EXCEPT ![s.path] = s.doc] /\ s.doc \in Doc /\ s.path \in Path /\ Target(s) = {s.path}
    BY <1>2 DEF Carry, Lawful, Target
  <2>. QED  BY <1>1, <1>2, <2>1
<1>3. CASE s.do = "delete"
  <2>1. files' = [files EXCEPT ![s.path] = None] /\ s.path \in Path /\ Target(s) = {s.path}
    BY <1>3 DEF Carry, Lawful, Target
  <2>. QED  BY <1>1, <1>3, <2>1
<1>4. CASE s.do = "delete directory"
  <2>1. files' = [p \in Path |-> IF p \in InDir(s.path) THEN None ELSE files[p]] /\ Target(s) = InDir(s.path)
    BY <1>4 DEF Carry, Target
  <2>. QED  BY <1>1, <1>4, <2>1
<1>5. s.do \in {"write", "delete", "delete directory", "conflict"}
  BY DEF Step
<1>. QED  BY <1>2, <1>3, <1>4, <1>5

LEMMA CarryKeepsTree ==
  ASSUME TreeHolds, NEW s \in Step, Lawful(s), KeepsWords(s), s.do # "conflict", Carry(s),
         UNCHANGED <<atHome, prose, edits>>
  PROVE  TreeHolds'
<1>1. /\ files' \in [Path -> Doc \cup {None}]
      /\ \A p \in Path : files'[p] = IF p \in Target(s) THEN (IF s.do = "write" THEN s.doc ELSE None)
                                     ELSE files[p]
  BY CarryIs
<1>2. s.do \in {"write", "delete", "delete directory", "conflict"}
  BY DEF Step
<1>3. ASSUME NEW p \in Path, files'[p] # None PROVE MarksBelong(p, files'[p])
  <2>1. CASE p \in Target(s)
    <3>1. s.do = "write" /\ files'[p] = s.doc
      BY <1>1, <1>3, <2>1
    <3>2. p = s.path
      BY <2>1, <3>1 DEF Target
    <3>. QED  BY <3>1, <3>2 DEF Lawful
  <2>2. CASE p \notin Target(s)
    BY <1>1, <1>3, <2>2 DEF TreeHolds
  <2>. QED  BY <2>1, <2>2
<1>4. ASSUME NEW p \in Path \ RtddDir
      PROVE  (IF files'[p] = None THEN 0 ELSE Cardinality(Places(files'[p], Prose))) = prose[p]
  <2>1. CASE p \notin Target(s)
    BY <1>1, <2>1 DEF TreeHolds, Words
  <2>2. CASE p \in Target(s) /\ s.do = "write"
    <3>1. p = s.path /\ files'[p] = s.doc /\ s.doc \in Doc
      BY <1>1, <2>2 DEF Target, Lawful
    <3>. QED  BY <2>2, <3>1, NoneIsNoDoc DEF KeepsWords, Count
  <2>3. CASE p \in Target(s) /\ s.do = "delete"
    <3>1. p = s.path /\ files'[p] = None
      BY <1>1, <2>3 DEF Target
    <3>. QED  BY <2>3, <3>1 DEF KeepsWords
  <2>4. CASE p \in Target(s) /\ s.do = "delete directory"
    <3>1. files'[p] = None /\ p \in InDir(s.path)
      BY <1>1, <2>4 DEF Target
    <3>2. s.path \in OwnDir /\ p \in {s.path, Beside[s.path]}
      BY <2>4, <3>1 DEF InDir, Lawful
    <3>. QED  BY <2>4, <3>1, <3>2 DEF KeepsWords
  <2>. QED  BY <1>2, <2>1, <2>2, <2>3, <2>4 DEF Lawful
<1>. QED  BY <1>1, <1>3, <1>4 DEF TreeHolds, Words

LEMMA TreeStays == ASSUME TreeHolds, UNCHANGED <<atHome, files, prose, edits>> PROVE TreeHolds'
BY DEF TreeHolds, Words

\* A finished or unfinished run, when another step of it was no more than noted.
LEMMA StoppedRunHolds ==
  ASSUME RunHolds, atHome' = atHome, NEW e \in {"none", "ok", "conflict", "failed"},
         run' = [run EXCEPT !.exit = e]
  PROVE  RunHolds'
<1>1. /\ run'.steps = run.steps /\ run'.exit = e
      /\ run' = [cmd |-> run'.cmd, options |-> run'.options, steps |-> run'.steps,
                 before |-> run'.before, exit |-> run'.exit]
  BY DEF RunHolds
<1>2. run'.steps \in Seq(Step) /\ \A s \in Elements(run'.steps) : Lawful(s)'
  BY <1>1, LawfulStays DEF RunHolds
<1>. QED  BY <1>1, <1>2 DEF RunHolds, Running

LEMMA CommandStays ==
  ASSUME TreeHolds, NEW cmd, NEW options, NEW steps, Command(cmd, options, steps),
         Good(steps), IgnoredFirst(steps), IF cmd = "legacy" THEN Legal(steps) ELSE Rootless(steps)
  PROVE  InstallInv'
<1>1. UNCHANGED <<atHome, files, prose, edits>>
  BY DEF Command, user
<1>2. TreeHolds'
  BY <1>1, TreeStays
<1>3. /\ run'.steps = steps /\ run'.cmd = cmd
      /\ run'.exit \in {"conflict", "running"}
      /\ run' = [cmd |-> run'.cmd, options |-> run'.options, steps |-> run'.steps,
                 before |-> run'.before, exit |-> run'.exit]
  BY DEF Command
<1>4. steps \in Seq(Step) /\ \A s \in Elements(steps) : Lawful(s)' /\ KeepsWords(s)'
  <2>1. \A s : Lawful(s) => Lawful(s)'
    BY <1>1, LawfulStays
  <2>2. \A s : KeepsWords(s) => KeepsWords(s)'
    BY <1>1 DEF KeepsWords
  <2>. QED  BY <2>1, <2>2 DEF Good
<1>5. \A s \in Elements(steps) : IF cmd = "legacy" THEN NotOptedInto(s)' ELSE ~ TakesRoot(s)
  <2>1. \A s : NotOptedInto(s) => NotOptedInto(s)'
    BY <1>1 DEF NotOptedInto, Holds
  <2>. QED  BY <2>1 DEF Legal, Rootless
<1>6. IgnoredFirst(steps)'
  BY <1>1 DEF IgnoredFirst, Holds
<1>7. RunHolds'
  BY <1>3, <1>4, <1>5, <1>6 DEF RunHolds
<1>. QED  BY <1>2, <1>7 DEF InstallInv

LEMMA RestIs ==
  ASSUME NEW steps \in Seq(Step), steps # <<>>
  PROVE  /\ Head(steps) = steps[1] /\ 1 \in DOMAIN steps /\ Head(steps) \in Elements(steps)
         /\ Head(steps) \in Step
         /\ Tail(steps) \in Seq(Step) /\ Elements(Tail(steps)) \subseteq Elements(steps)
         /\ \A i \in DOMAIN Tail(steps) : i \in Nat /\ i + 1 \in DOMAIN steps /\ Tail(steps)[i] = steps[i + 1]
         /\ \A i \in DOMAIN steps : i \in Nat /\ i >= 1 /\ (i > 1 => i - 1 \in DOMAIN Tail(steps))
<1>. DEFINE n == Len(steps)
            t == Tail(steps)
<1>. HIDE DEF Step
<1>1. n \in Nat /\ n >= 1 /\ DOMAIN steps = 1..n
  BY EmptySeq
<1>2. t \in Seq(Step) /\ Len(t) = n - 1 /\ Head(steps) = steps[1] /\ \A i \in 1..(n - 1) : t[i] = steps[i + 1]
  BY HeadTailProperties
<1>3. DOMAIN t = 1..(n - 1)
  BY <1>2
<1>. HIDE DEF n, t
<1>4. 1 \in DOMAIN steps /\ steps[1] \in Step
  BY <1>1
<1>5. \A i \in DOMAIN t : i \in Nat /\ i + 1 \in DOMAIN steps /\ t[i] = steps[i + 1]
  BY <1>1, <1>2, <1>3
<1>6. \A i \in DOMAIN steps : i \in Nat /\ i >= 1 /\ (i > 1 => i - 1 \in DOMAIN t)
  BY <1>1, <1>3
<1>. QED  BY <1>2, <1>4, <1>5, <1>6 DEF Elements, t

LEMMA DoStepStays ==
  ASSUME InstallInv, DoStep PROVE InstallInv'
<1>0. PICK s, rest : s = Head(run.steps) /\ rest = Tail(run.steps)
  OBVIOUS
<1>1. /\ TreeHolds /\ RunHolds /\ Running /\ run.steps # <<>> /\ s.do # "conflict" /\ Carry(s)
      /\ run' = [run EXCEPT !.steps = rest] /\ UNCHANGED <<atHome, prose, edits>>
  BY <1>0 DEF InstallInv, DoStep, user
<1>2. /\ s = run.steps[1] /\ 1 \in DOMAIN run.steps /\ s \in Elements(run.steps) /\ s \in Step
      /\ rest \in Seq(Step) /\ Elements(rest) \subseteq Elements(run.steps)
      /\ \A i \in DOMAIN rest : i \in Nat /\ i + 1 \in DOMAIN run.steps /\ rest[i] = run.steps[i + 1]
      /\ \A i \in DOMAIN run.steps : i \in Nat /\ i >= 1 /\ (i > 1 => i - 1 \in DOMAIN rest)
  BY <1>0, <1>1, RestIs DEF RunHolds
<1>3. Lawful(s) /\ KeepsWords(s) /\ IF run.cmd = "legacy" THEN NotOptedInto(s) ELSE ~ TakesRoot(s)
  BY <1>1, <1>2 DEF RunHolds
<1>4. /\ run'.steps = rest /\ run'.cmd = run.cmd /\ run'.exit = run.exit
      /\ run' = [cmd |-> run'.cmd, options |-> run'.options, steps |-> run'.steps,
                 before |-> run'.before, exit |-> run'.exit]
  BY <1>1 DEF RunHolds
<1>5. TreeHolds'
  BY <1>1, <1>2, <1>3, CarryKeepsTree
<1>6. /\ files' \in [Path -> Doc \cup {None}]
      /\ \A p \in Path : files'[p] = IF p \in Target(s) THEN (IF s.do = "write" THEN s.doc ELSE None)
                                     ELSE files[p]
  BY <1>1, <1>2, <1>3, CarryIs
<1>7. \A r \in Elements(rest) : Lawful(r)' /\ KeepsWords(r)'
  <2>1. \A r : Lawful(r) => Lawful(r)'
    BY <1>1, LawfulStays
  <2>2. \A r : KeepsWords(r) => KeepsWords(r)'
    BY <1>1 DEF KeepsWords
  <2>. QED  BY <1>1, <1>2, <2>1, <2>2 DEF RunHolds
<1>8. ASSUME run.cmd = "legacy", NEW r \in Elements(rest) PROVE NotOptedInto(r)'
  <2>1. NotOptedInto(r) /\ NotOptedInto(s) /\ Lawful(r)
    BY <1>1, <1>2, <1>3, <1>8 DEF RunHolds
  <2>2. ASSUME NEW p \in Path, ~ Holds(p, OptIn) PROVE ~ Holds(p, OptIn)'
    <3>1. CASE p \in Target(s)
      BY <1>1, <1>6, <2>1, <3>1 DEF NotOptedInto, Holds
    <3>2. CASE p \notin Target(s)
      BY <1>6, <2>2, <3>2 DEF Holds
    <3>. QED  BY <3>1, <3>2
  <2>3. r \in Step
    BY <1>2 DEF Elements
  <2>4. r.do # "conflict" => Target(r) \subseteq Path
    BY <2>1, <2>3, TargetIsPath DEF Step
  <2>. QED  BY <2>1, <2>2, <2>4 DEF NotOptedInto
<1>9. IgnoredFirst(rest)'
  <2>. DEFINE has == Holds(Ignore, GraphLine)
  <2>1. Ignore \in Path /\ Ignore \in RtddDir
    BY RtddPaths
  <2>2. IgnoredFirst(run.steps)
    BY <1>1 DEF RunHolds
  <2>3. Ignore \in Target(s) => WritesIgnore(s) \/ (s.do = "delete directory" /\ s.path = ".rtdd/")
    <3>1. s.do \in {"write", "delete", "delete directory"}
      BY <1>1, <1>2 DEF Step
    <3>2. \A f \in OwnDir : Ignore # f /\ Ignore # Beside[f]
      BY <2>1, Apart
    <3>. QED  BY <1>3, <3>1, <3>2 DEF Target, InDir, Lawful, WritesIgnore
  <2>4. WritesIgnore(s) => has'
    <3>1. WritesIgnore(s) => Ignore \in Target(s) /\ s.do = "write" /\ Has(s.doc, GraphLine) /\ s.doc \in Doc
      BY <1>3 DEF WritesIgnore, Target, Lawful
    <3>. QED  BY <1>6, <2>1, <3>1, NoneIsNoDoc DEF Holds
  <2>5. ~ WritesIgnore(s) /\ ~ has => ~ has'
    <3>1. CASE Ignore \in Target(s)
      BY <1>6, <2>1, <2>3, <3>1 DEF Holds
    <3>2. CASE Ignore \notin Target(s)
      BY <1>6, <2>1, <3>2 DEF Holds
    <3>. QED  BY <3>1, <3>2
  <2>6. run.cmd = "legacy" /\ has => has'
    <3>1. CASE Ignore \in Target(s)
      BY <1>1, <1>3, <2>3, <2>4, <3>1 DEF NotOptedInto
    <3>2. CASE Ignore \notin Target(s)
      BY <1>6, <2>1, <3>2 DEF Holds
    <3>. QED  BY <3>1, <3>2
  <2>7. ASSUME NEW i \in DOMAIN rest, WritesIgnore(rest[i])
        PROVE  ~ has' /\ \A j \in DOMAIN rest : WritesIgnore(rest[j]) => j = i
    <3>1. i + 1 \in DOMAIN run.steps /\ WritesIgnore(run.steps[i + 1]) /\ i \in Nat
      BY <1>2, <2>7
    <3>2. ~ has /\ \A j \in DOMAIN run.steps : WritesIgnore(run.steps[j]) => j = i + 1
      BY <2>2, <3>1 DEF IgnoredFirst
    <3>3. i \in Nat /\ i >= 1
      <4>1. DOMAIN rest = 1..Len(rest) /\ Len(rest) \in Nat
        BY <1>2
      <4>. QED  BY <4>1
    <3>4. ~ WritesIgnore(s)
      BY <1>2, <3>2, <3>3
    <3>5. ASSUME NEW j \in DOMAIN rest, WritesIgnore(rest[j]) PROVE j = i
      <4>1. j \in Nat /\ j + 1 \in DOMAIN run.steps /\ WritesIgnore(run.steps[j + 1])
        BY <1>2, <3>5
      <4>2. j + 1 = i + 1
        BY <3>2, <4>1
      <4>. QED  BY <3>1, <4>1, <4>2
    <3>. QED  BY <2>5, <3>2, <3>4, <3>5
  <2>8. ASSUME NEW i \in DOMAIN rest, TakesRoot(rest[i])
        PROVE  has' \/ \E j \in DOMAIN rest : j < i /\ WritesIgnore(rest[j])
    <3>1. i + 1 \in DOMAIN run.steps /\ TakesRoot(run.steps[i + 1]) /\ i \in Nat
      BY <1>2, <2>8
    <3>2. run.cmd = "legacy"
      <4>1. run.steps[i + 1] \in Elements(run.steps)
        BY <3>1 DEF Elements
      <4>. QED  BY <1>1, <3>1, <4>1 DEF RunHolds
    <3>3. has \/ \E j \in DOMAIN run.steps : j < i + 1 /\ WritesIgnore(run.steps[j])
      BY <2>2, <3>1 DEF IgnoredFirst
    <3>4. ASSUME NEW j \in DOMAIN run.steps, j < i + 1, WritesIgnore(run.steps[j])
          PROVE  has' \/ \E k \in DOMAIN rest : k < i /\ WritesIgnore(rest[k])
      <4>1. CASE j = 1
        BY <1>2, <2>4, <3>4, <4>1
      <4>2. CASE j # 1
        <5>1. j \in Nat /\ j >= 1
          BY <1>2
        <5>2. j > 1 /\ (j - 1) + 1 = j /\ j - 1 < i
          BY <3>1, <3>4, <4>2, <5>1
        <5>3. j - 1 \in DOMAIN rest
          BY <1>2, <5>2
        <5>4. rest[j - 1] = run.steps[(j - 1) + 1]
          BY <1>2, <5>3
        <5>. QED  BY <3>4, <5>2, <5>3, <5>4
      <4>. QED  BY <4>1, <4>2
    <3>. QED  BY <2>6, <3>2, <3>3, <3>4
  <2>. QED  BY <2>7, <2>8 DEF IgnoredFirst
<1>10. \A r \in Elements(rest) : IF run.cmd = "legacy" THEN NotOptedInto(r)' ELSE ~ TakesRoot(r)
  BY <1>1, <1>2, <1>8 DEF RunHolds
<1>11. RunHolds'
  BY <1>1, <1>2, <1>4, <1>7, <1>9, <1>10 DEF RunHolds, Running
<1>. QED  BY <1>5, <1>11 DEF InstallInv

\* What a word at the top makes of a file.
LEMMA ToppedIs ==
  ASSUME TreeHolds, NEW p \in Path
  PROVE  LET old == IF files[p] = None THEN <<>> ELSE files[p]
             new == <<Prose>> \o old
         IN  /\ old \in Doc /\ new \in Doc /\ new # None
             /\ Count(new, Prose) = Words(p) + 1
             /\ \A t : t # Prose => (Has(new, t) <=> Holds(p, t))
             /\ ~ (p \in FrontEnd /\ Holds(p, Generated)) => MarksBelong(p, new)
<1>. DEFINE old == IF files[p] = None THEN <<>> ELSE files[p]
            new == <<Prose>> \o old
<1>1. old \in Doc /\ MarksBelong(p, old) /\ Count(old, Prose) = Words(p)
  BY FileIs, EmptyCounts, PlainDocs
<1>2. \A t : Has(old, t) <=> Holds(p, t)
  BY EmptyCounts DEF Holds
<1>. HIDE DEF old
<1>3. /\ new \in Doc
      /\ \A t : Has(new, t) <=> t = Prose \/ Has(old, t)
      /\ Count(new, Prose) = Count(old, Prose) + 1
      /\ Marked(new) => Marked(old) /\ BlockOf(new) = BlockOf(old)
  BY <1>1, ToppedKeeps
<1>. HIDE DEF new
<1>4. Unmarked(old) => Unmarked(new)
  BY <1>3, MarksDiffer DEF Unmarked
<1>5. ASSUME ~ (p \in FrontEnd /\ Holds(p, Generated)) PROVE MarksBelong(p, new)
  <2>1. ~ Has(old, Generated)
    BY <1>1, <1>2, <1>5 DEF MarksBelong
  <2>. QED  BY <1>1, <1>3, <1>4, <2>1, MarksDiffer DEF MarksBelong
<1>6. \A t : t # Prose => (Has(new, t) <=> Holds(p, t))
  BY <1>2, <1>3
<1>7. new # None
  BY <1>3, NoneIsNoDoc
<1>. QED  BY <1>1, <1>3, <1>5, <1>6, <1>7 DEF old, new

\* An edit, as the invariant sees it.
LEMMA EditIs ==
  ASSUME InstallInv, NEW p \in Path, Edit(p)
  PROVE  \E new \in Doc :
           /\ files' = [files EXCEPT ![p] = new] /\ new # None
           /\ prose' = [prose EXCEPT ![p] = @ + 1] /\ edits' = edits + 1 /\ edits < MaxEdits /\ atHome' = atHome
           /\ Count(new, Prose) = Words(p) + 1 /\ MarksBelong(p, new)
           /\ \A t : t # Prose => (Has(new, t) <=> Holds(p, t))
           /\ p \notin RtddDir /\ ~ (p \in FrontEnd /\ Holds(p, Generated))
           /\ Running => run' = run /\ \A i \in DOMAIN run.steps : p \notin Target(run.steps[i])
           /\ ~ Running => run' = NoRun
<1>. DEFINE new == <<Prose>> \o IF files[p] = None THEN <<>> ELSE files[p]
<1>1. p \notin RtddDir /\ ~ (p \in FrontEnd /\ Holds(p, Generated))
  BY DEF Edit, Users
<1>2. /\ files' = [files EXCEPT ![p] = new]
      /\ prose' = [prose EXCEPT ![p] = @ + 1] /\ edits' = edits + 1 /\ edits < MaxEdits /\ atHome' = atHome
      /\ Running => run' = run /\ \A i \in DOMAIN run.steps : p \notin Target(run.steps[i])
      /\ ~ Running => run' = NoRun
  BY DEF Edit
<1>3. /\ new \in Doc /\ new # None /\ Count(new, Prose) = Words(p) + 1
      /\ \A t : t # Prose => (Has(new, t) <=> Holds(p, t))
      /\ MarksBelong(p, new)
  BY <1>1, ToppedIs DEF InstallInv
<1>. HIDE DEF new
<1>. QED  BY <1>1, <1>2, <1>3

LEMMA EditStays ==
  ASSUME InstallInv, NEW p \in Path, Edit(p) PROVE InstallInv'
<1>1. TreeHolds /\ RunHolds
  BY DEF InstallInv
<1>2. PICK new \in Doc :
        /\ files' = [files EXCEPT ![p] = new] /\ new # None
        /\ prose' = [prose EXCEPT ![p] = @ + 1] /\ edits' = edits + 1 /\ edits < MaxEdits /\ atHome' = atHome
        /\ Count(new, Prose) = Words(p) + 1 /\ MarksBelong(p, new)
        /\ \A t : t # Prose => (Has(new, t) <=> Holds(p, t))
        /\ p \notin RtddDir /\ ~ (p \in FrontEnd /\ Holds(p, Generated))
        /\ Running => run' = run /\ \A i \in DOMAIN run.steps : p \notin Target(run.steps[i])
        /\ ~ Running => run' = NoRun
  BY EditIs
<1>3. /\ files \in [Path -> Doc \cup {None}] /\ prose \in [Path -> Nat] /\ edits \in 0..MaxEdits
      /\ \A q \in Path \ RtddDir : Words(q) = prose[q]
      /\ \A q \in Path : files[q] # None => MarksBelong(q, files[q])
      /\ atHome \in BOOLEAN
  BY <1>1 DEF TreeHolds
<1>4. /\ files' \in [Path -> Doc \cup {None}]
      /\ \A q \in Path : files'[q] = IF q = p THEN new ELSE files[q]
  BY <1>2, <1>3
<1>5. prose' \in [Path -> Nat] /\ \A q \in Path : prose'[q] = IF q = p THEN prose[q] + 1 ELSE prose[q]
  BY <1>2, <1>3
<1>6. edits' \in 0..MaxEdits
  BY <1>2, <1>3, Apart
<1>7. ASSUME NEW q \in Path \ RtddDir
      PROVE  (IF files'[q] = None THEN 0 ELSE Cardinality(Places(files'[q], Prose))) = prose'[q]
  <2>1. CASE q = p
    <3>1. files'[q] = new /\ prose'[q] = prose[q] + 1
      BY <1>4, <1>5, <2>1
    <3>2. Count(new, Prose) = prose[q] + 1
      BY <1>2, <1>3, <2>1
    <3>. QED  BY <1>2, <3>1, <3>2 DEF Count
  <2>2. CASE q # p
    <3>1. files'[q] = files[q] /\ prose'[q] = prose[q]
      BY <1>4, <1>5, <2>2
    <3>. QED  BY <1>3, <3>1 DEF Words
  <2>. QED  BY <2>1, <2>2
<1>8. TreeHolds'
  <2>1. \A q \in Path : files'[q] # None => MarksBelong(q, files'[q])
    BY <1>2, <1>3, <1>4
  <2>. QED  BY <1>2, <1>3, <1>4, <1>5, <1>6, <1>7, <2>1 DEF TreeHolds, Words
<1>9. CASE Running
  <2>1. PICK steps : steps = run.steps
    OBVIOUS
  <2>2. run' = run /\ run'.steps = steps
    BY <1>2, <1>9, <2>1
  <2>3. /\ steps \in Seq(Step)
        /\ \A s \in Elements(steps) : p \notin Target(s) /\ Lawful(s) /\ KeepsWords(s)
                                      /\ IF run.cmd = "legacy" THEN NotOptedInto(s) ELSE ~ TakesRoot(s)
        /\ IgnoredFirst(steps)
    BY <1>1, <1>2, <1>9, <2>1 DEF RunHolds, Elements
  <2>4. \A s \in Elements(steps) : Lawful(s)'
    BY <1>2, <2>3, LawfulStays
  <2>5. ASSUME NEW s \in Elements(steps) PROVE KeepsWords(s)'
    <3>1. s \in Step
      BY <2>3 DEF Elements
    <3>2. s.do \in {"write", "delete", "delete directory"} => Target(s) \subseteq Path
      BY <2>3, TargetIsPath
    <3>3. s.do # "conflict" => \A q \in Target(s) : prose'[q] = prose[q]
      BY <1>5, <2>3, <3>1, <3>2 DEF Step
    <3>4. s.path \in OwnDir => s.path # ".rtdd/"
      BY Apart
    <3>5. CASE s.do = "conflict"
      BY <3>5 DEF KeepsWords
    <3>. QED  BY <2>3, <3>3, <3>4, <3>5, KeepsWordsStays
  <2>6. ASSUME NEW s \in Elements(steps), NotOptedInto(s) PROVE NotOptedInto(s)'
    <3>1. s \in Step /\ (s.do # "conflict" => Target(s) \subseteq Path)
      <4>1. s \in Step
        BY <2>3 DEF Elements
      <4>. QED  BY <2>3, <4>1, TargetIsPath DEF Step
    <3>2. s.do # "conflict" => \A q \in Target(s) : files'[q] = files[q]
      BY <1>4, <2>3, <3>1
    <3>. QED  BY <2>6, <3>2 DEF NotOptedInto, Holds
  <2>7. IgnoredFirst(steps)'
    <3>1. Ignore \in Path /\ Ignore # p
      BY <1>2, RtddPaths
    <3>2. files'[Ignore] = files[Ignore]
      BY <1>4, <3>1
    <3>. QED  BY <2>3, <3>2 DEF IgnoredFirst, Holds
  <2>8. RunHolds'
    BY <1>1, <1>9, <2>2, <2>3, <2>4, <2>5, <2>6, <2>7 DEF RunHolds
  <2>. QED  BY <1>8, <2>8 DEF InstallInv
<1>10. CASE ~ Running
  <2>1. run' = NoRun
    BY <1>2, <1>10
  <2>2. run'.steps = <<>> /\ run'.exit = "none"
        /\ run' = [cmd |-> run'.cmd, options |-> run'.options, steps |-> run'.steps,
                   before |-> run'.before, exit |-> run'.exit]
    BY <2>1 DEF NoRun
  <2>3. <<>> \in Seq(Step) /\ Elements(<<>>) = {}
    BY NothingIsGood DEF Good
  <2>4. RunHolds'
    BY <2>2, <2>3 DEF RunHolds, Running
  <2>. QED  BY <1>8, <2>4 DEF InstallInv
<1>. QED  BY <1>9, <1>10

\* What a failure does to the tree.
LEMMA FailIs ==
  ASSUME InstallInv, Fail
  PROVE  /\ UNCHANGED <<atHome, prose, edits>> /\ run' = [run EXCEPT !.exit = "failed"]
         /\ \/ UNCHANGED files
            \/ \E s \in Step :
                 /\ s.do = "write" /\ s.path \in Torn /\ s.path \in Path /\ files' = [files EXCEPT ![s.path] = <<>>]
                 /\ Lawful(s) /\ KeepsWords(s) /\ 1 \in DOMAIN run.steps /\ s = run.steps[1]
                 /\ IgnoredFirst(run.steps)
<1>1. TreeHolds /\ RunHolds /\ Running
  BY DEF InstallInv, Fail
<1>2. UNCHANGED <<atHome, prose, edits>> /\ run' = [run EXCEPT !.exit = "failed"]
  BY DEF Fail, user
<1>3. CASE ~ UNCHANGED files
  <2>1. PICK s : s = Head(run.steps)
    OBVIOUS
  <2>2. run.steps # <<>> /\ s.do = "write" /\ s.path \in Torn /\ files' = [files EXCEPT ![s.path] = <<>>]
    BY <1>3, <2>1 DEF Fail
  <2>3. s \in Step /\ s \in Elements(run.steps) /\ 1 \in DOMAIN run.steps /\ s = run.steps[1]
    BY <1>1, <2>1, <2>2, RestIs DEF RunHolds
  <2>4. Lawful(s) /\ KeepsWords(s) /\ IgnoredFirst(run.steps)
    BY <1>1, <2>3 DEF RunHolds
  <2>5. s.path \in Path
    BY <2>2, <2>4 DEF Lawful
  <2>. QED  BY <1>2, <2>2, <2>3, <2>4, <2>5
<1>. QED  BY <1>2, <1>3

LEMMA FailStays ==
  ASSUME InstallInv, Fail PROVE InstallInv'
<1>1. TreeHolds /\ RunHolds /\ Running
  BY DEF InstallInv, Fail
<1>2. UNCHANGED <<atHome, prose, edits>> /\ run' = [run EXCEPT !.exit = "failed"]
  BY FailIs
<1>3. RunHolds'
  BY <1>1, <1>2, StoppedRunHolds
<1>4. CASE UNCHANGED files
  BY <1>1, <1>2, <1>3, <1>4, TreeStays DEF InstallInv
<1>5. CASE ~ UNCHANGED files
  <2>1. PICK s \in Step :
          /\ s.do = "write" /\ s.path \in Torn /\ s.path \in Path /\ files' = [files EXCEPT ![s.path] = <<>>]
          /\ Lawful(s) /\ KeepsWords(s)
    BY <1>5, FailIs
  <2>2. /\ files \in [Path -> Doc \cup {None}] /\ prose \in [Path -> Nat]
        /\ \A q \in Path \ RtddDir : Words(q) = prose[q]
        /\ \A q \in Path : files[q] # None => MarksBelong(q, files[q])
    BY <1>1 DEF TreeHolds
  <2>3. <<>> \in Doc /\ <<>> # None /\ Cardinality(Places(<<>>, Prose)) = 0 /\ MarksBelong(s.path, <<>>)
    BY EmptyCounts, NoneIsNoDoc, PlainDocs DEF Count
  <2>4. /\ files' \in [Path -> Doc \cup {None}]
        /\ \A q \in Path : files'[q] = IF q = s.path THEN <<>> ELSE files[q]
    BY <2>1, <2>2, <2>3
  <2>5. s.path \notin RtddDir => prose[s.path] = 0
    <3>1. SUFFICES ASSUME s.path \notin RtddDir PROVE prose[s.path] = 0
      OBVIOUS
    <3>2. s.doc = FrontEndNow
      BY <2>1, <3>1, Apart DEF Lawful
    <3>3. Count(FrontEndNow, Prose) = 0
      BY PlainDocs, NoneCounts
    <3>. QED  BY <2>1, <3>1, <3>2, <3>3 DEF KeepsWords
  <2>6. ASSUME NEW q \in Path \ RtddDir
        PROVE  (IF files'[q] = None THEN 0 ELSE Cardinality(Places(files'[q], Prose))) = prose[q]
    <3>1. CASE q = s.path
      BY <2>3, <2>4, <2>5, <3>1
    <3>2. CASE q # s.path
      BY <2>2, <2>4, <3>2 DEF Words
    <3>. QED  BY <3>1, <3>2
  <2>7. \A q \in Path : files'[q] # None => MarksBelong(q, files'[q])
    BY <2>2, <2>3, <2>4
  <2>8. TreeHolds'
    BY <1>1, <1>2, <2>4, <2>6, <2>7 DEF TreeHolds, Words
  <2>. QED  BY <1>3, <2>8 DEF InstallInv
<1>. QED  BY <1>4, <1>5

LEMMA InstallStays == ASSUME InstallInv, [Next]_vars PROVE InstallInv'
<1>1. TreeHolds /\ RunHolds
  BY DEF InstallInv
<1>2. ASSUME NEW o \in Options, RunInit(o) PROVE InstallInv'
  <2>1. Command("init", o, PlanInit(o))
    BY <1>2 DEF RunInit
  <2>2. Good(PlanInit(o)) /\ IgnoredFirst(PlanInit(o)) /\ Rootless(PlanInit(o))
    BY <1>1, InitPlanIs
  <2>3. PICK steps : steps = PlanInit(o)
    OBVIOUS
  <2>. QED  BY <1>1, <2>1, <2>2, <2>3, CommandStays
<1>3. ASSUME NEW state \in BOOLEAN, RunUninstall(state) PROVE InstallInv'
  <2>1. Command("uninstall", state, PlanUninstall(state))
    BY <1>3 DEF RunUninstall
  <2>2. Good(PlanUninstall(state)) /\ IgnoredFirst(PlanUninstall(state)) /\ Rootless(PlanUninstall(state))
    BY <1>1, UninstallPlanIs
  <2>3. PICK steps : steps = PlanUninstall(state)
    OBVIOUS
  <2>. QED  BY <1>1, <2>1, <2>2, <2>3, CommandStays
<1>4. CASE RunLegacy
  <2>1. Command("legacy", None, PlanLegacy)
    BY <1>4 DEF RunLegacy
  <2>2. Good(PlanLegacy) /\ IgnoredFirst(PlanLegacy) /\ Legal(PlanLegacy)
    BY <1>1, LegacyPlanIs
  <2>3. PICK steps : steps = PlanLegacy
    OBVIOUS
  <2>. QED  BY <1>1, <2>1, <2>2, <2>3, CommandStays
<1>5. CASE DoStep
  BY <1>5, DoStepStays
<1>6. CASE MeetConflict \/ Succeed
  <2>1. UNCHANGED <<atHome, files, prose, edits>> /\ \E e \in {"conflict", "ok"} : run' = [run EXCEPT !.exit = e]
    BY <1>6 DEF MeetConflict, Succeed, user
  <2>. QED  BY <1>1, <2>1, TreeStays, StoppedRunHolds DEF InstallInv
<1>7. CASE Fail
  BY <1>7, FailStays
<1>8. ASSUME NEW p \in Path, Edit(p) PROVE InstallInv'
  BY <1>8, EditStays
<1>9. CASE UNCHANGED vars
  <2>1. UNCHANGED <<atHome, files, prose, edits, run>>
    BY <1>9 DEF vars, user
  <2>2. RunHolds'
    BY <1>1, <2>1 DEF RunHolds, Running, Lawful, Kept, KeepsWords, NotOptedInto, IgnoredFirst, Holds
  <2>. QED  BY <1>1, <2>1, <2>2, TreeStays DEF InstallInv
<1>. QED  BY <1>2, <1>3, <1>4, <1>5, <1>6, <1>7, <1>8, <1>9 DEF Next

LEMMA InstallAlways == Spec => []InstallInv
<1>1. Init => InstallInv
  BY InstallStarts
<1>2. InstallInv /\ [Next]_vars => InstallInv'
  BY InstallStays
<1>. QED  BY <1>1, <1>2, PTL DEF Spec

\* The tree, the words counted in it and every step that is left are of their
\* types, for any front-ends and shared files.
THEOREM TypeOKAlways == Spec => []TypeOK
<1>1. InstallInv => TypeOK
  <2>. SUFFICES ASSUME InstallInv PROVE TypeOK
    OBVIOUS
  <2>1. TreeHolds /\ RunHolds
    BY DEF InstallInv
  <2>2. \A i \in DOMAIN run.steps : Lawful(run.steps[i])
    BY <2>1 DEF RunHolds, Elements
  <2>. QED  BY <2>1, <2>2 DEF TypeOK, TreeHolds, RunHolds, Lawful, Doc
<1>. QED  BY <1>1, InstallAlways, PTL

\* No command loses or repeats a word of the user's, wherever it fails or is
\* killed, whatever front-ends there are and whatever files are shared.
THEOREM UserTextKeptAlways == Spec => []UserTextKept
<1>1. InstallInv => UserTextKept
  BY DEF InstallInv, TreeHolds, UserTextKept
<1>. QED  BY <1>1, InstallAlways, PTL

-----------------------------------------------------------------------------
(* What no command may take, at any step *)

\* Carrying out the first step of a run, as the properties below see it.
LEMMA DoStepIs ==
  ASSUME InstallInv, DoStep
  PROVE  \E s \in Step :
           /\ s.do \in {"write", "delete", "delete directory"} /\ Lawful(s)
           /\ run.cmd = "legacy" => NotOptedInto(s)
           /\ 1 \in DOMAIN run.steps /\ s = run.steps[1] /\ (\A j \in DOMAIN run.steps : ~ (j < 1)) /\ IgnoredFirst(run.steps)
           /\ Target(s) \subseteq Path
           /\ \A p \in Path : files'[p] = IF p \in Target(s) THEN (IF s.do = "write" THEN s.doc ELSE None)
                                          ELSE files[p]
<1>1. TreeHolds /\ RunHolds
  BY DEF InstallInv
<1>2. PICK s : s = Head(run.steps)
  OBVIOUS
<1>3. Running /\ run.steps # <<>> /\ s.do # "conflict" /\ Carry(s)
  BY <1>2 DEF DoStep
<1>4. s \in Step /\ s \in Elements(run.steps) /\ 1 \in DOMAIN run.steps /\ s = run.steps[1]
  BY <1>1, <1>2, <1>3, RestIs DEF RunHolds
<1>5. s.do \in {"write", "delete", "delete directory"}
  BY <1>3, <1>4 DEF Step
<1>6. Lawful(s) /\ (run.cmd = "legacy" => NotOptedInto(s)) /\ IgnoredFirst(run.steps)
  BY <1>1, <1>3, <1>4 DEF RunHolds
<1>9. \A j \in DOMAIN run.steps : ~ (j < 1)
  <2>1. \A j \in DOMAIN run.steps : j \in Nat /\ j >= 1
    BY <1>1, <1>3, RestIs DEF RunHolds
  <2>. QED  BY <2>1
<1>7. Target(s) \subseteq Path
  BY <1>5, <1>6, TargetIsPath
<1>8. \A p \in Path : files'[p] = IF p \in Target(s) THEN (IF s.do = "write" THEN s.doc ELSE None)
                                  ELSE files[p]
  BY <1>1, <1>3, <1>4, <1>6, CarryIs
<1>. QED  BY <1>4, <1>5, <1>6, <1>7, <1>8, <1>9

LEMMA OptInStays ==
  ASSUME InstallInv, DoStep, run.cmd = "legacy", NEW p \in Path, Holds(p, OptIn)
  PROVE  files'[p] = files[p]
<1>1. PICK s \in Step :
        /\ s.do \in {"write", "delete", "delete directory"} /\ NotOptedInto(s)
        /\ \A q \in Path : files'[q] = IF q \in Target(s) THEN (IF s.do = "write" THEN s.doc ELSE None)
                                       ELSE files[q]
  BY DoStepIs
<1>2. p \notin Target(s)
  BY <1>1 DEF NotOptedInto
<1>. QED  BY <1>1, <1>2

\* The line that ignores the cache is in one of two files, and the step that
\* takes the second comes after the one that writes the first.
LEMMA StepKeepsIgnored ==
  ASSUME InstallInv, DoStep, Ignored
  PROVE  Ignored' \/ \A p \in RtddDir : files'[p] = None
<1>1. PICK s \in Step :
        /\ s.do \in {"write", "delete", "delete directory"} /\ Lawful(s)
        /\ 1 \in DOMAIN run.steps /\ s = run.steps[1] /\ (\A j \in DOMAIN run.steps : ~ (j < 1)) /\ IgnoredFirst(run.steps)
        /\ \A p \in Path : files'[p] = IF p \in Target(s) THEN (IF s.do = "write" THEN s.doc ELSE None)
                                       ELSE files[p]
  BY DoStepIs
<1>2. /\ Ignore \in Path /\ Ignore \in RtddDir /\ RootIgnore \in Path /\ RootIgnore \notin RtddDir
      /\ \A f \in OwnDir : Ignore # f /\ Ignore # Beside[f] /\ RootIgnore # f /\ RootIgnore # Beside[f]
  BY RtddPaths, Apart
<1>3. CASE s.do = "delete directory" /\ s.path = ".rtdd/"
  <2>1. Target(s) = RtddDir
    BY <1>3 DEF Target, InDir
  <2>. QED  BY <1>1, <1>3, <2>1, RtddPaths
<1>4. CASE ~ (s.do = "delete directory" /\ s.path = ".rtdd/")
  <2>1. s.do = "delete directory" => s.path \in OwnDir /\ s.path # ".rtdd/" /\ Target(s) = {s.path, Beside[s.path]}
    BY <1>1, <1>4 DEF Target, InDir, Lawful
  <2>2. s.do \in {"write", "delete"} => Target(s) = {s.path}
    BY DEF Target
  <2>3. CASE Holds(Ignore, GraphLine)
    <3>1. Ignore \in Target(s) => s.do = "write" /\ files'[Ignore] = s.doc /\ s.doc \in Doc /\ Has(s.doc, GraphLine)
      BY <1>1, <1>2, <2>1, <2>2 DEF Lawful
    <3>2. Ignore \notin Target(s) => files'[Ignore] = files[Ignore]
      BY <1>1, <1>2
    <3>3. Holds(Ignore, GraphLine)'
      BY <2>3, <3>1, <3>2, NoneIsNoDoc DEF Holds
    <3>. QED  BY <3>3 DEF Ignored
  <2>4. CASE ~ Holds(Ignore, GraphLine)
    <3>1. RootIgnore \notin Target(s)
      <4>1. ~ TakesRoot(s)
        BY <1>1, <2>4 DEF IgnoredFirst
      <4>. QED  BY <1>1, <1>2, <2>1, <2>2, <4>1 DEF TakesRoot
    <3>2. files'[RootIgnore] = files[RootIgnore]
      BY <1>1, <1>2, <3>1
    <3>. QED  BY <2>4, <3>2 DEF Ignored, Holds
  <2>. QED  BY <2>3, <2>4
<1>. QED  BY <1>3, <1>4

\* A write of it that is torn adds the line, and so the root's is still there.
LEMMA FailKeepsIgnored == ASSUME InstallInv, Fail, Ignored PROVE Ignored'
<1>1. CASE UNCHANGED files
  BY <1>1 DEF Ignored, Holds
<1>2. CASE ~ UNCHANGED files
  <2>1. PICK s \in Step :
          /\ s.do = "write" /\ s.path \in Torn /\ s.path \in Path /\ files' = [files EXCEPT ![s.path] = <<>>]
          /\ 1 \in DOMAIN run.steps /\ s = run.steps[1] /\ IgnoredFirst(run.steps)
    BY <1>2, FailIs
  <2>2. files \in [Path -> Doc \cup {None}]
    BY DEF InstallInv, TreeHolds
  <2>3. RootIgnore \in Path /\ Ignore \in Path /\ RootIgnore \notin Torn
    BY RtddPaths, Apart
  <2>4. files'[RootIgnore] = files[RootIgnore]
    BY <2>1, <2>2, <2>3
  <2>5. s.path # Ignore => files'[Ignore] = files[Ignore]
    BY <2>1, <2>2, <2>3
  <2>6. s.path = Ignore => ~ Holds(Ignore, GraphLine)
    BY <2>1 DEF IgnoredFirst, WritesIgnore
  <2>. QED  BY <2>4, <2>5, <2>6 DEF Ignored, Holds
<1>. QED  BY <1>1, <1>2

LEMMA EditKeepsIgnored == ASSUME InstallInv, NEW p \in Path, Edit(p), Ignored PROVE Ignored'
<1>1. PICK new \in Doc :
        /\ files' = [files EXCEPT ![p] = new] /\ new # None
        /\ \A t : t # Prose => (Has(new, t) <=> Holds(p, t))
  BY EditIs
<1>2. files \in [Path -> Doc \cup {None}] /\ Ignore \in Path /\ RootIgnore \in Path
  BY RtddPaths DEF InstallInv, TreeHolds
<1>3. \A q \in Path : files'[q] = IF q = p THEN new ELSE files[q]
  BY <1>1, <1>2
<1>4. \A q \in Path : Holds(q, GraphLine) => files'[q] # None /\ Has(files'[q], GraphLine)
  BY <1>1, <1>3, MarksDiffer DEF Holds
<1>. QED  BY <1>2, <1>4 DEF Ignored, Holds

LEMMA UserLevelStays ==
  ASSUME InstallInv, [Next]_vars, NEW f \in FrontEnd, Kept(f), Holds(f, Generated)
  PROVE  files'[f] = files[f]
<1>1. f \in Path
  BY RtddPaths
<1>2. CASE DoStep
  <2>1. PICK s \in Step :
          /\ s.do \in {"write", "delete", "delete directory"} /\ Lawful(s)
          /\ \A q \in Path : files'[q] = IF q \in Target(s) THEN (IF s.do = "write" THEN s.doc ELSE None)
                                         ELSE files[q]
    BY <1>2, DoStepIs
  <2>2. s.path # f
    BY <2>1 DEF Lawful
  <2>3. f \notin RtddDir /\ \A g \in OwnDir : f # Beside[g]
    BY Apart
  <2>4. f \notin Target(s)
    BY <2>1, <2>2, <2>3 DEF Target, InDir, Lawful
  <2>. QED  BY <1>1, <2>1, <2>4
<1>3. CASE Fail
  <2>1. CASE UNCHANGED files
    BY <2>1
  <2>2. CASE ~ UNCHANGED files
    <3>1. PICK s \in Step : s.do = "write" /\ files' = [files EXCEPT ![s.path] = <<>>] /\ Lawful(s)
      BY <1>3, <2>2, FailIs
    <3>2. s.path # f
      BY <3>1 DEF Lawful
    <3>. QED  BY <3>1, <3>2
  <2>. QED  BY <2>1, <2>2
<1>4. ASSUME NEW p \in Path, Edit(p) PROVE files'[f] = files[f]
  <2>1. PICK new \in Doc :
          files' = [files EXCEPT ![p] = new] /\ ~ (p \in FrontEnd /\ Holds(p, Generated))
    BY <1>4, EditIs
  <2>2. p # f
    BY <2>1
  <2>. QED  BY <2>1, <2>2
<1>5. ASSUME UNCHANGED files PROVE files'[f] = files[f]
  BY <1>5
<1>. QED  BY <1>2, <1>3, <1>4, <1>5 DEF Next, vars, RunInit, RunUninstall, RunLegacy, Command, MeetConflict, Succeed

\* No step of any command changes what somebody opted into when only the
\* legacy files are to go, exposes the graph cache to git, or touches the
\* user-level skill, wherever a run before it failed or was killed.
THEOREM OthersKeptAlways == Spec => OthersKept
<1>1. InstallInv /\ [Next]_vars =>
        [DoStep /\ run.cmd = "legacy" => \A p \in Path : Holds(p, OptIn) => files'[p] = files[p]]_files
  BY OptInStays
<1>2. InstallInv /\ [Next]_vars =>
        [Ignored => Ignored' \/ \A p \in RtddDir : files'[p] = None]_files
  <2>. SUFFICES ASSUME InstallInv, [Next]_vars, Ignored
                PROVE  Ignored' \/ (\A p \in RtddDir : files'[p] = None) \/ UNCHANGED files
    OBVIOUS
  <2>1. CASE DoStep
    BY <2>1, StepKeepsIgnored
  <2>2. CASE Fail
    BY <2>2, FailKeepsIgnored
  <2>3. ASSUME NEW p \in Path, Edit(p) PROVE Ignored'
    BY <2>3, EditKeepsIgnored
  <2>4. ~ (DoStep \/ Fail \/ \E p \in Path : Edit(p)) => UNCHANGED files
    BY DEF Next, vars, RunInit, RunUninstall, RunLegacy, Command, MeetConflict, Succeed
  <2>. QED  BY <2>1, <2>2, <2>3, <2>4
<1>3. InstallInv /\ [Next]_vars =>
        [\A f \in FrontEnd : Kept(f) /\ Holds(f, Generated) => files'[f] = files[f]]_files
  BY UserLevelStays
<1>. QED  BY <1>1, <1>2, <1>3, InstallAlways, PTL DEF Spec, OthersKept, OptInKept, StillIgnored, UserLevelKept

-----------------------------------------------------------------------------
(* What a command that ends well has made of a file *)

Settled(cmd, options, p, d) ==
  /\ cmd = "init" =>
       /\ p = State => d = None
       /\ p = Attributes => d = None \/ ~ Has(d, MapLine)
       /\ p = Config => d # None /\ ~ IsV02(d)
       /\ p = Ignore => d # None /\ Has(d, GraphLine)
       /\ p \in FrontEnd => ~ options.skill \/ Kept(p) \/ d = FrontEndNow
       /\ p \in Elements(options.append) => d \in Doc /\ Marked(d) /\ BlockOf(d) = Block
  /\ cmd = "uninstall" =>
       /\ p \in RtddDir => ~ options \/ d = None
       /\ p = Attributes => d = None \/ ~ Has(d, MapLine)
       /\ p \in FrontEnd => d = None \/ ~ Has(d, Generated) \/ Kept(p)
       /\ p \in Elements(AgentFiles) => d = None \/ Unmarked(d)
  /\ cmd = "legacy" =>
       /\ p = RootIgnore => d = None \/ ~ Has(d, GraphLine)
       /\ p \in FrontEnd => d = None \/ ~ Has(d, Generated) \/ Has(d, OptIn) \/ Kept(p)
       /\ p \in Elements(AgentFiles) => d = None \/ Has(d, OptIn) \/ Unmarked(d)

Left(s) == IF s.do = "write" THEN s.doc ELSE None

Ordered(cmd, options) ==
  \/ cmd = "init" /\ options \in Options /\ Elements(options.append) \subseteq Shared
  \/ cmd = "uninstall" /\ options \in BOOLEAN
  \/ cmd = "legacy"

-----------------------------------------------------------------------------
(* What the plans consist of *)

LEMMA NoSteps == ASSUME NEW plan, Good(plan), Elements(plan) = {} PROVE plan = <<>>
<1>. DEFINE n == Len(plan)
<1>. HIDE DEF Step
<1>1. plan \in Seq(Step)
  BY DEF Good
<1>2. n \in Nat /\ DOMAIN plan = 1..n
  BY <1>1
<1>3. n = 0
  <2>1. n # 0 => 1 \in DOMAIN plan
    BY <1>2
  <2>. QED  BY <2>1 DEF Elements
<1>. QED  BY <1>1, <1>3, EmptySeq

LEMMA EachElements ==
  ASSUME NEW S, NEW seq \in Seq(S), NEW parts, parts = [i \in DOMAIN seq |-> parts[i]],
         \A i \in DOMAIN seq : Sound(parts[i])
  PROVE  Elements(Joined(parts)) = UNION {Elements(parts[i]) : i \in DOMAIN seq}
<1>. DEFINE n == Len(seq)
<1>1. n \in Nat /\ DOMAIN seq = 1..n
  OBVIOUS
<1>. HIDE DEF n
<1>2. parts = [i \in 1..n |-> parts[i]] /\ \A i \in 1..n : Good(parts[i])
  BY <1>1 DEF Sound
<1>. QED  BY <1>1, <1>2, JoinedIsGood

LEMMA FrontEndsAre == FrontEnds \in Seq(FrontEnd) /\ FrontEnd = Elements(FrontEnds)
BY Apart DEF Elements, FrontEnd

LEMMA AgentFilesAre == AgentFiles \in Seq(Shared) /\ Elements(AgentFiles) \subseteq Shared
<1>1. AgentFiles \in Seq(Shared)
  BY Apart
<1>. QED  BY <1>1 DEF Elements

LEMMA AppendsAre ==
  ASSUME NEW o \in Options
  PROVE  o.append \in Seq(Shared \cup {"../outside"}) /\ Elements(o.append) \subseteq Shared \cup {"../outside"}
<1>1. o.append \in Seq(Shared \cup {"../outside"})
  BY OptionsAreOptions
<1>. QED  BY <1>1 DEF Elements

LEMMA InitElements ==
  ASSUME TreeHolds, NEW o \in Options
  PROVE  Elements(PlanInit(o)) =
           Elements(IF files[State] # None THEN Delete(State) ELSE <<>>)
           \cup Elements(WithoutLine(Attributes, MapLine)) \cup Elements(PlanConfig) \cup Elements(PlanIgnore)
           \cup (IF o.skill THEN UNION {Elements(PlanFrontEnd(f)) : f \in FrontEnd} ELSE {})
           \cup UNION {Elements(PlanAppend(p)) : p \in Elements(o.append)}
<1>. DEFINE state == IF files[State] # None THEN Delete(State) ELSE <<>>
            front == IF o.skill THEN ForEach(FrontEnds, PlanFrontEnd) ELSE <<>>
            append == ForEach(o.append, PlanAppend)
            mc == PlanMigration \o PlanConfig
            mci == mc \o PlanIgnore
            mcif == mci \o front
<1>1. Sound(front) /\ Elements(front) = IF o.skill THEN UNION {Elements(PlanFrontEnd(f)) : f \in FrontEnd} ELSE {}
  <2>. DEFINE parts == [i \in DOMAIN FrontEnds |-> PlanFrontEnd(FrontEnds[i])]
  <2>1. ForEach(FrontEnds, PlanFrontEnd) = Joined(parts)
    BY DEF ForEach
  <2>2. \A i \in DOMAIN FrontEnds : Sound(parts[i])
    BY FrontEndIsSound DEF FrontEnd
  <2>3. parts = [i \in DOMAIN FrontEnds |-> parts[i]] /\ \A i \in DOMAIN FrontEnds : parts[i] = PlanFrontEnd(FrontEnds[i])
    OBVIOUS
  <2>. HIDE DEF parts
  <2>4. Sound(Joined(parts)) /\ Elements(Joined(parts)) = UNION {Elements(parts[i]) : i \in DOMAIN FrontEnds}
    BY <2>2, <2>3, FrontEndsAre, EachIsSound, EachElements
  <2>5. UNION {Elements(parts[i]) : i \in DOMAIN FrontEnds} = UNION {Elements(PlanFrontEnd(f)) : f \in FrontEnd}
    BY <2>3 DEF FrontEnd
  <2>. QED  BY <2>1, <2>4, <2>5, NothingIsSound, NothingIsGood
<1>2. Sound(append) /\ Elements(append) = UNION {Elements(PlanAppend(p)) : p \in Elements(o.append)}
  <2>. DEFINE parts == [i \in DOMAIN o.append |-> PlanAppend(o.append[i])]
  <2>1. append = Joined(parts)
    BY DEF ForEach
  <2>2. \A i \in DOMAIN o.append : o.append[i] \in Shared \cup {"../outside"}
    BY AppendsAre DEF Elements
  <2>3. \A i \in DOMAIN o.append : Sound(parts[i])
    BY <2>2, AppendIsSound
  <2>4. parts = [i \in DOMAIN o.append |-> parts[i]] /\ \A i \in DOMAIN o.append : parts[i] = PlanAppend(o.append[i])
    OBVIOUS
  <2>. HIDE DEF parts
  <2>5. Sound(Joined(parts)) /\ Elements(Joined(parts)) = UNION {Elements(parts[i]) : i \in DOMAIN o.append}
    BY <2>3, <2>4, AppendsAre, EachIsSound, EachElements
  <2>6. UNION {Elements(parts[i]) : i \in DOMAIN o.append} = UNION {Elements(PlanAppend(p)) : p \in Elements(o.append)}
    BY <2>4 DEF Elements
  <2>. QED  BY <2>1, <2>5, <2>6
<1>3. PlanInit(o) = mcif \o append
  BY DEF PlanInit
<1>4. Good(PlanMigration) /\ Elements(PlanMigration) = Elements(state) \cup Elements(WithoutLine(Attributes, MapLine))
  <2>1. Good(state)
    BY RtddPaths, DeleteIs, NothingIsGood
  <2>. HIDE DEF state
  <2>2. PlanMigration = state \o WithoutLine(Attributes, MapLine)
    BY DEF PlanMigration, state
  <2>. QED  BY <2>1, <2>2, WithoutLineIs, JoinIsGood
<1>. HIDE DEF state, front, append
<1>5. Good(mc) /\ Elements(mc) = Elements(PlanMigration) \cup Elements(PlanConfig)
  BY <1>4, ConfigIsSound, JoinIsGood DEF Sound
<1>. HIDE DEF mc
<1>6. Good(mci) /\ Elements(mci) = Elements(mc) \cup Elements(PlanIgnore)
  BY <1>5, IgnoreIs, JoinIsGood
<1>. HIDE DEF mci
<1>7. Good(mcif) /\ Elements(mcif) = Elements(mci) \cup Elements(front)
  BY <1>1, <1>6, JoinIsGood DEF Sound
<1>. HIDE DEF mcif
<1>8. Elements(PlanInit(o)) = Elements(mcif) \cup Elements(append)
  BY <1>2, <1>3, <1>7, JoinIsGood DEF Sound
<1>. QED  BY <1>1, <1>2, <1>4, <1>5, <1>6, <1>7, <1>8 DEF state

LEMMA UninstallElements ==
  ASSUME TreeHolds, NEW state \in BOOLEAN
  PROVE  Elements(PlanUninstall(state)) =
           (UNION {Elements(RemoveFrontEnd(f)) : f \in FrontEnd})
           \cup (UNION {Elements(WithoutBlock(p)) : p \in Elements(AgentFiles)})
           \cup Elements(WithoutLine(Attributes, MapLine))
           \cup (IF state /\ \E p \in RtddDir : files[p] # None
                   THEN {[path |-> ".rtdd/", do |-> "delete directory", doc |-> None]} ELSE {})
<1>. DEFINE front == ForEach(FrontEnds, RemoveFrontEnd)
            blocks == ForEach(AgentFiles, WithoutBlock)
            line == WithoutLine(Attributes, MapLine)
            rtdd == [path |-> ".rtdd/", do |-> "delete directory", doc |-> None]
            dir == IF state /\ \E p \in RtddDir : files[p] # None THEN <<rtdd>> ELSE <<>>
<1>1. Good(front) /\ Elements(front) = UNION {Elements(RemoveFrontEnd(f)) : f \in FrontEnd}
  <2>. DEFINE parts == [i \in DOMAIN FrontEnds |-> RemoveFrontEnd(FrontEnds[i])]
  <2>1. front = Joined(parts)
    BY DEF ForEach
  <2>2. \A i \in DOMAIN FrontEnds : Sound(parts[i])
    BY RemoveFrontEndIsSound DEF FrontEnd
  <2>3. parts = [i \in DOMAIN FrontEnds |-> parts[i]] /\ \A i \in DOMAIN FrontEnds : parts[i] = RemoveFrontEnd(FrontEnds[i])
    OBVIOUS
  <2>. HIDE DEF parts
  <2>4. Sound(Joined(parts)) /\ Elements(Joined(parts)) = UNION {Elements(parts[i]) : i \in DOMAIN FrontEnds}
    BY <2>2, <2>3, FrontEndsAre, EachIsSound, EachElements
  <2>5. UNION {Elements(parts[i]) : i \in DOMAIN FrontEnds} = UNION {Elements(RemoveFrontEnd(f)) : f \in FrontEnd}
    BY <2>3 DEF FrontEnd
  <2>. QED  BY <2>1, <2>4, <2>5 DEF Sound
<1>2. Good(blocks) /\ Elements(blocks) = UNION {Elements(WithoutBlock(p)) : p \in Elements(AgentFiles)}
  <2>. DEFINE parts == [i \in DOMAIN AgentFiles |-> WithoutBlock(AgentFiles[i])]
  <2>1. blocks = Joined(parts)
    BY DEF ForEach
  <2>2. \A i \in DOMAIN AgentFiles : Sound(parts[i])
    BY AgentFilesAre, WithoutBlockIsSound DEF Elements
  <2>3. parts = [i \in DOMAIN AgentFiles |-> parts[i]] /\ \A i \in DOMAIN AgentFiles : parts[i] = WithoutBlock(AgentFiles[i])
    OBVIOUS
  <2>. HIDE DEF parts
  <2>4. Sound(Joined(parts)) /\ Elements(Joined(parts)) = UNION {Elements(parts[i]) : i \in DOMAIN AgentFiles}
    BY <2>2, <2>3, AgentFilesAre, EachIsSound, EachElements
  <2>5. UNION {Elements(parts[i]) : i \in DOMAIN AgentFiles} = UNION {Elements(WithoutBlock(p)) : p \in Elements(AgentFiles)}
    BY <2>3 DEF Elements
  <2>. QED  BY <2>1, <2>4, <2>5 DEF Sound
<1>3. Good(line)
  BY WithoutLineIs
<1>4. Good(dir) /\ Elements(dir) = IF state /\ \E p \in RtddDir : files[p] # None THEN {rtdd} ELSE {}
  <2>1. ".rtdd/" \in OwnDir \cup {".rtdd/"} /\ ".rtdd/" \notin OwnDir
    BY Apart
  <2>2. Good(<<rtdd>>) /\ Elements(<<rtdd>>) = {rtdd}
    BY <2>1, DeleteDirIs
  <2>. HIDE DEF rtdd
  <2>. QED  BY <2>2, NothingIsGood
<1>5. PlanUninstall(state) = front \o blocks \o line \o dir
  BY DEF PlanUninstall
<1>. HIDE DEF front, blocks, line, dir, rtdd
<1>6. Good(front \o blocks) /\ Elements(front \o blocks) = Elements(front) \cup Elements(blocks)
  BY <1>1, <1>2, JoinIsGood
<1>7. Good(front \o blocks \o line) /\ Elements(front \o blocks \o line) = Elements(front \o blocks) \cup Elements(line)
  BY <1>3, <1>6, JoinIsGood
<1>8. Elements(PlanUninstall(state)) = Elements(front \o blocks \o line) \cup Elements(dir)
  BY <1>4, <1>5, <1>7, JoinIsGood
<1>9. Elements(PlanUninstall(state)) = Elements(front) \cup Elements(blocks) \cup Elements(line) \cup Elements(dir)
  BY <1>6, <1>7, <1>8
<1>10. rtdd = [path |-> ".rtdd/", do |-> "delete directory", doc |-> None] /\ line = WithoutLine(Attributes, MapLine)
  BY DEF line, rtdd
<1>. QED  BY <1>1, <1>2, <1>4, <1>9, <1>10, Zenon

LEMMA LegacyElements ==
  ASSUME TreeHolds
  PROVE  Elements(PlanLegacy) =
           (UNION {Elements(LegacyFrontEnd(f)) : f \in FrontEnd})
           \cup (UNION {Elements(LegacyBlock(p)) : p \in Elements(AgentFiles)})
           \cup (IF Holds(RootIgnore, GraphLine)
                   THEN Elements(PlanIgnore) \cup Elements(WithoutLine(RootIgnore, GraphLine)) ELSE {})
<1>. DEFINE front == ForEach(FrontEnds, LegacyFrontEnd)
            blocks == ForEach(AgentFiles, LegacyBlock)
            both == front \o blocks
<1>1. Good(front) /\ Elements(front) = UNION {Elements(LegacyFrontEnd(f)) : f \in FrontEnd}
  <2>. DEFINE parts == [i \in DOMAIN FrontEnds |-> LegacyFrontEnd(FrontEnds[i])]
  <2>1. front = Joined(parts)
    BY DEF ForEach
  <2>2. \A i \in DOMAIN FrontEnds : Sound(parts[i])
    BY LegacyFrontEndIsSound DEF FrontEnd
  <2>3. parts = [i \in DOMAIN FrontEnds |-> parts[i]] /\ \A i \in DOMAIN FrontEnds : parts[i] = LegacyFrontEnd(FrontEnds[i])
    OBVIOUS
  <2>. HIDE DEF parts
  <2>4. Sound(Joined(parts)) /\ Elements(Joined(parts)) = UNION {Elements(parts[i]) : i \in DOMAIN FrontEnds}
    BY <2>2, <2>3, FrontEndsAre, EachIsSound, EachElements
  <2>5. UNION {Elements(parts[i]) : i \in DOMAIN FrontEnds} = UNION {Elements(LegacyFrontEnd(f)) : f \in FrontEnd}
    BY <2>3 DEF FrontEnd
  <2>. QED  BY <2>1, <2>4, <2>5 DEF Sound
<1>2. Good(blocks) /\ Elements(blocks) = UNION {Elements(LegacyBlock(p)) : p \in Elements(AgentFiles)}
  <2>. DEFINE parts == [i \in DOMAIN AgentFiles |-> LegacyBlock(AgentFiles[i])]
  <2>1. blocks = Joined(parts)
    BY DEF ForEach
  <2>2. \A i \in DOMAIN AgentFiles : Sound(parts[i])
    BY AgentFilesAre, LegacyBlockIsSound DEF Elements
  <2>3. parts = [i \in DOMAIN AgentFiles |-> parts[i]] /\ \A i \in DOMAIN AgentFiles : parts[i] = LegacyBlock(AgentFiles[i])
    OBVIOUS
  <2>. HIDE DEF parts
  <2>4. Sound(Joined(parts)) /\ Elements(Joined(parts)) = UNION {Elements(parts[i]) : i \in DOMAIN AgentFiles}
    BY <2>2, <2>3, AgentFilesAre, EachIsSound, EachElements
  <2>5. UNION {Elements(parts[i]) : i \in DOMAIN AgentFiles} = UNION {Elements(LegacyBlock(p)) : p \in Elements(AgentFiles)}
    BY <2>3 DEF Elements
  <2>. QED  BY <2>1, <2>4, <2>5 DEF Sound
<1>3. PlanLegacy = both \o LegacyLine
  BY DEF PlanLegacy
<1>. HIDE DEF front, blocks
<1>4. Good(both) /\ Elements(both) = Elements(front) \cup Elements(blocks)
  BY <1>1, <1>2, JoinIsGood
<1>. HIDE DEF both
<1>5. Elements(PlanLegacy) = Elements(both) \cup Elements(LegacyLine)
  BY <1>3, <1>4, LegacyLineIs, JoinIsGood
<1>6. Elements(LegacyLine) = IF Holds(RootIgnore, GraphLine)
        THEN Elements(PlanIgnore) \cup Elements(WithoutLine(RootIgnore, GraphLine)) ELSE {}
  BY IgnoreIs, WithoutLineIs, JoinIsGood, NothingIsGood DEF LegacyLine
<1>7. Elements(PlanLegacy) = Elements(front) \cup Elements(blocks) \cup Elements(LegacyLine)
  BY <1>4, <1>5
<1>. QED  BY <1>1, <1>2, <1>6, <1>7, Zenon

-----------------------------------------------------------------------------
(* What the plans bring *)

\* What every step leaves is as the command wants it, and of these files what
\* is not so yet is the target of a step.
Serves(cmd, options, paths, steps) ==
  /\ \A s \in steps : s.do # "conflict" => \A p \in Target(s) : Settled(cmd, options, p, Left(s))
  /\ \A p \in paths : Settled(cmd, options, p, files[p]) \/ \E s \in steps : p \in Target(s)

DeliveryHolds ==
  run.exit \in {"running", "ok"} =>
    /\ Ordered(run.cmd, run.options)
    /\ Serves(run.cmd, run.options, Path, Elements(run.steps))
    /\ run.exit = "ok" => run.steps = <<>>

LEMMA BothServe ==
  ASSUME NEW cmd, NEW o, NEW P, NEW Q, NEW S, NEW T, Serves(cmd, o, P, S), Serves(cmd, o, Q, T)
  PROVE  Serves(cmd, o, P \cup Q, S \cup T)
BY DEF Serves

LEMMA StepsAre ==
  ASSUME NEW p, NEW d
  PROVE  /\ Elements(Write(p, d)) = {[path |-> p, do |-> "write", doc |-> d]}
         /\ Elements(Delete(p)) = {[path |-> p, do |-> "delete", doc |-> None]}
         /\ Elements(DeleteDir(p)) = {[path |-> p, do |-> "delete directory", doc |-> None]}
         /\ Elements(Conflict(p)) = {[path |-> p, do |-> "conflict", doc |-> None]}
BY OnlyStep DEF Write, Delete, DeleteDir, Conflict

LEMMA WriteServes ==
  ASSUME NEW cmd, NEW o, NEW p, NEW d, Settled(cmd, o, p, d)
  PROVE  Serves(cmd, o, {p}, Elements(Write(p, d)))
<1>. DEFINE s == [path |-> p, do |-> "write", doc |-> d]
<1>1. Elements(Write(p, d)) = {s} /\ Target(s) = {p} /\ Left(s) = d
  BY StepsAre, TargetsAre DEF Left
<1>. HIDE DEF s
<1>. QED  BY <1>1 DEF Serves

LEMMA DeleteServes ==
  ASSUME NEW cmd, NEW o, NEW p, Settled(cmd, o, p, None)
  PROVE  Serves(cmd, o, {p}, Elements(Delete(p)))
<1>. DEFINE s == [path |-> p, do |-> "delete", doc |-> None]
<1>1. Elements(Delete(p)) = {s} /\ Target(s) = {p} /\ Left(s) = None
  BY StepsAre, TargetsAre DEF Left
<1>. HIDE DEF s
<1>. QED  BY <1>1 DEF Serves

LEMMA DeleteDirServes ==
  ASSUME NEW cmd, NEW o, NEW p, \A q \in InDir(p) : Settled(cmd, o, q, None)
  PROVE  Serves(cmd, o, InDir(p), {[path |-> p, do |-> "delete directory", doc |-> None]})
<1>. DEFINE s == [path |-> p, do |-> "delete directory", doc |-> None]
<1>1. Target(s) = InDir(p) /\ Left(s) = None
  BY TargetsAre DEF Left
<1>. HIDE DEF s
<1>2. Serves(cmd, o, InDir(p), {s})
  BY <1>1 DEF Serves
<1>. QED  BY <1>2 DEF s

LEMMA ConflictServes ==
  ASSUME NEW cmd, NEW o, NEW p
  PROVE  Serves(cmd, o, {p}, Elements(Conflict(p)))
<1>. DEFINE s == [path |-> p, do |-> "conflict", doc |-> None]
<1>1. Elements(Conflict(p)) = {s} /\ Target(s) = {p} /\ s.do = "conflict"
  BY StepsAre DEF Target
<1>. HIDE DEF s
<1>. QED  BY <1>1 DEF Serves

LEMMA NothingServes ==
  ASSUME NEW cmd, NEW o, NEW P, \A p \in P : Settled(cmd, o, p, files[p])
  PROVE  Serves(cmd, o, P, {}) /\ Serves(cmd, o, P, Elements(<<>>))
BY NothingIsGood DEF Serves

LEMMA FewerServed ==
  ASSUME NEW cmd, NEW o, NEW P, NEW Q, NEW S, Serves(cmd, o, P, S), Q \subseteq P
  PROVE  Serves(cmd, o, Q, S)
BY DEF Serves

LEMMA EachServes ==
  ASSUME NEW cmd, NEW o, NEW P, NEW parts, NEW T, \A p \in P : Serves(cmd, o, {p}, parts[p]),
         \A p \in P : parts[p] \subseteq T, \A s \in T : \E p \in P : s \in parts[p]
  PROVE  Serves(cmd, o, P, T)
BY DEF Serves

LEMMA NoneSettles ==
  ASSUME NEW cmd \in {"uninstall", "legacy"}, NEW o, NEW p PROVE Settled(cmd, o, p, None)
BY DEF Settled

\* What is asked of a file of each kind.
LEMMA UninstallAsks ==
  ASSUME NEW o, NEW d
  PROVE  /\ \A p \in RtddDir : Settled("uninstall", o, p, d) <=> ~ o \/ d = None
         /\ Settled("uninstall", o, Attributes, d) <=> d = None \/ ~ Has(d, MapLine)
         /\ \A f \in FrontEnd : Settled("uninstall", o, f, d) <=> d = None \/ ~ Has(d, Generated) \/ Kept(f)
         /\ \A p \in Elements(AgentFiles) : Settled("uninstall", o, p, d) <=> d = None \/ Unmarked(d)
         /\ \A p : p \notin RtddDir \cup {Attributes} \cup FrontEnd \cup Elements(AgentFiles)
                     => Settled("uninstall", o, p, d)
<1>1. \A p \in Elements(AgentFiles) : p \in Shared
  BY AgentFilesAre
<1>2. \A p \in RtddDir : p \notin FrontEnd /\ p \notin Shared /\ p # Attributes
  BY RtddPaths
<1>3. \A p \in FrontEnd : p \notin Shared /\ p # Attributes
  BY Apart
<1>4. Attributes \notin Shared
  BY Apart
<1>. QED  BY <1>1, <1>2, <1>3, <1>4 DEF Settled

LEMMA LegacyAsks ==
  ASSUME NEW o, NEW d
  PROVE  /\ Settled("legacy", o, RootIgnore, d) <=> d = None \/ ~ Has(d, GraphLine)
         /\ \A f \in FrontEnd :
              Settled("legacy", o, f, d) <=> d = None \/ ~ Has(d, Generated) \/ Has(d, OptIn) \/ Kept(f)
         /\ \A p \in Elements(AgentFiles) :
              Settled("legacy", o, p, d) <=> d = None \/ Has(d, OptIn) \/ Unmarked(d)
         /\ \A p : p \notin {RootIgnore} \cup FrontEnd \cup Elements(AgentFiles) => Settled("legacy", o, p, d)
<1>1. \A p \in Elements(AgentFiles) : p \in Shared
  BY AgentFilesAre
<1>2. \A p \in FrontEnd : p \notin Shared /\ p # RootIgnore
  BY Apart
<1>3. RootIgnore \notin Shared
  BY Apart
<1>. QED  BY <1>1, <1>2, <1>3 DEF Settled

LEMMA InitAsks ==
  ASSUME NEW o, NEW d, Elements(o.append) \subseteq Shared
  PROVE  /\ Settled("init", o, State, d) <=> d = None
         /\ Settled("init", o, Attributes, d) <=> d = None \/ ~ Has(d, MapLine)
         /\ Settled("init", o, Config, d) <=> d # None /\ ~ IsV02(d)
         /\ Settled("init", o, Ignore, d) <=> d # None /\ Has(d, GraphLine)
         /\ \A f \in FrontEnd : Settled("init", o, f, d) <=> ~ o.skill \/ Kept(f) \/ d = FrontEndNow
         /\ \A p \in Elements(o.append) :
              Settled("init", o, p, d) <=> d \in Doc /\ Marked(d) /\ BlockOf(d) = Block
         /\ \A p : p \notin {State, Attributes, Config, Ignore} \cup FrontEnd \cup Elements(o.append)
                     => Settled("init", o, p, d)
<1>1. \A p \in Elements(o.append) : p \in Shared
  OBVIOUS
<1>2. \A p \in {State, Attributes, Config, Ignore} : p \notin FrontEnd /\ p \notin Shared
  BY RtddPaths, Apart
<1>3. \A p \in FrontEnd : p \notin Shared
  BY Apart
<1>4. State # Attributes /\ State # Config /\ State # Ignore /\ Attributes # Config /\ Attributes # Ignore
      /\ Config # Ignore
  BY DEF State, Attributes, Config, Ignore
<1>. QED  BY <1>1, <1>2, <1>3, <1>4 DEF Settled

LEMMA RemoveFrontEndServes ==
  ASSUME TreeHolds, NEW o, NEW f \in FrontEnd
  PROVE  Serves("uninstall", o, {f}, Elements(RemoveFrontEnd(f)))
<1>0. f \in Path
  BY RtddPaths
<1>1. CASE Kept(f) \/ ~ Holds(f, Generated)
  <2>1. RemoveFrontEnd(f) = <<>> /\ Settled("uninstall", o, f, files[f])
    BY <1>1, UninstallAsks DEF RemoveFrontEnd, Holds
  <2>. QED  BY <2>1, NothingServes
<1>2. CASE ~ (Kept(f) \/ ~ Holds(f, Generated))
  <2>. DEFINE dir == IF Alone(f) THEN DeleteDir(f) ELSE <<>>
  <2>1. RemoveFrontEnd(f) = Delete(f) \o dir
    BY <1>2 DEF RemoveFrontEnd
  <2>2. Good(Delete(f)) /\ Serves("uninstall", o, {f}, Elements(Delete(f)))
    BY <1>2, RenderedIs, DeleteIs, DeleteServes, NoneSettles
  <2>3. Good(dir) /\ Serves("uninstall", o, {}, Elements(dir))
    <3>1. CASE Alone(f)
      <4>1. f \in OwnDir \cup {".rtdd/"} /\ ~ Kept(f) /\ prose[f] = 0 /\ prose[Beside[f]] = 0
        BY <1>2, <3>1, RenderedIs
      <4>2. dir = <<[path |-> f, do |-> "delete directory", doc |-> None]>>
        BY <3>1 DEF DeleteDir
      <4>3. Good(dir) /\ Elements(dir) = {[path |-> f, do |-> "delete directory", doc |-> None]}
        BY <4>1, <4>2, DeleteDirIs
      <4>. HIDE DEF dir
      <4>4. Serves("uninstall", o, InDir(f), Elements(dir))
        BY <4>3, DeleteDirServes, NoneSettles
      <4>. QED  BY <4>3, <4>4, FewerServed
    <3>2. CASE ~ Alone(f)
      BY <3>2, NothingIsGood, NothingServes
    <3>. QED  BY <3>1, <3>2
  <2>. HIDE DEF dir
  <2>4. Elements(RemoveFrontEnd(f)) = Elements(Delete(f)) \cup Elements(dir)
    BY <2>1, <2>2, <2>3, JoinIsGood
  <2>5. Serves("uninstall", o, {f} \cup {}, Elements(Delete(f)) \cup Elements(dir))
    BY <2>2, <2>3, BothServe
  <2>. QED  BY <2>4, <2>5
<1>. QED  BY <1>1, <1>2

LEMMA LegacyFrontEndServes ==
  ASSUME TreeHolds, NEW o, NEW f \in FrontEnd
  PROVE  Serves("legacy", o, {f}, Elements(LegacyFrontEnd(f)))
<1>1. CASE Kept(f) \/ ~ Holds(f, Generated) \/ Holds(f, OptIn)
  <2>1. LegacyFrontEnd(f) = <<>> /\ Settled("legacy", o, f, files[f])
    BY <1>1, LegacyAsks DEF LegacyFrontEnd, Holds
  <2>. QED  BY <2>1, NothingServes
<1>2. CASE ~ (Kept(f) \/ ~ Holds(f, Generated) \/ Holds(f, OptIn)) /\ Alone(f)
  <2>1. LegacyFrontEnd(f) = DeleteDir(f) /\ InDir(f) = {f, Beside[f]}
    BY <1>2, RenderedIs DEF LegacyFrontEnd
  <2>2. Serves("legacy", o, InDir(f), Elements(DeleteDir(f)))
    <3>1. \A q \in InDir(f) : Settled("legacy", o, q, None)
      BY NoneSettles
    <3>2. Serves("legacy", o, InDir(f), {[path |-> f, do |-> "delete directory", doc |-> None]})
      BY <3>1, DeleteDirServes
    <3>. QED  BY <3>2, StepsAre
  <2>. QED  BY <2>1, <2>2, FewerServed
<1>3. CASE ~ (Kept(f) \/ ~ Holds(f, Generated) \/ Holds(f, OptIn)) /\ ~ Alone(f)
  <2>1. LegacyFrontEnd(f) = Delete(f)
    BY <1>3 DEF LegacyFrontEnd
  <2>. QED  BY <2>1, DeleteServes, NoneSettles
<1>. QED  BY <1>1, <1>2, <1>3

LEMMA WithoutBlockServes ==
  ASSUME TreeHolds, NEW o, NEW p \in Elements(AgentFiles)
  PROVE  /\ Serves("uninstall", o, {p}, Elements(WithoutBlock(p)))
         /\ ~ Holds(p, OptIn) => Serves("legacy", o, {p}, Elements(WithoutBlock(p)))
<1>. DEFINE r == RemoveBlock(files[p])
<1>0. p \in Path
  BY AgentFilesAre, RtddPaths
<1>1. CASE files[p] = None \/ (~ Conflicted(files[p]) /\ Unmarked(files[p]))
  <2>1. WithoutBlock(p) = <<>>
    BY <1>1 DEF WithoutBlock
  <2>2. Settled("uninstall", o, p, files[p]) /\ Settled("legacy", o, p, files[p])
    BY <1>1, UninstallAsks, LegacyAsks
  <2>. QED  BY <2>1, <2>2, NothingServes
<1>2. CASE files[p] # None /\ Conflicted(files[p])
  <2>1. WithoutBlock(p) = Conflict(p)
    BY <1>2 DEF WithoutBlock
  <2>. QED  BY <2>1, ConflictServes
<1>3. CASE files[p] # None /\ ~ Conflicted(files[p]) /\ ~ Unmarked(files[p])
  <2>1. WithoutBlock(p) = IF Blank(r) THEN Delete(p) ELSE Write(p, r)
    BY <1>3 DEF WithoutBlock
  <2>2. files[p] \in Doc /\ Marked(files[p])
    BY <1>0, <1>3, FileIs DEF Conflicted
  <2>3. Unmarked(r)
    BY <2>2, RemoveBlockIs
  <2>4. Settled("uninstall", o, p, r) /\ Settled("legacy", o, p, r)
    BY <2>3, UninstallAsks, LegacyAsks
  <2>5. \A c \in {"uninstall", "legacy"} : Serves(c, o, {p}, Elements(Delete(p)))
    BY DeleteServes, NoneSettles
  <2>. HIDE DEF r
  <2>. QED  BY <2>1, <2>4, <2>5, WriteServes
<1>. QED  BY <1>1, <1>2, <1>3

LEMMA LegacyBlockServes ==
  ASSUME TreeHolds, NEW o, NEW p \in Elements(AgentFiles)
  PROVE  Serves("legacy", o, {p}, Elements(LegacyBlock(p)))
<1>1. CASE Holds(p, OptIn)
  <2>1. LegacyBlock(p) = <<>> /\ Settled("legacy", o, p, files[p])
    BY <1>1, LegacyAsks DEF LegacyBlock, Holds
  <2>. QED  BY <2>1, NothingServes
<1>2. CASE ~ Holds(p, OptIn)
  <2>1. LegacyBlock(p) = WithoutBlock(p)
    BY <1>2 DEF LegacyBlock
  <2>. QED  BY <1>2, <2>1, WithoutBlockServes
<1>. QED  BY <1>1, <1>2

LEMMA WithoutLineServes ==
  ASSUME TreeHolds, NEW p \in {Attributes, RootIgnore}, NEW line \in {MapLine, GraphLine}, NEW cmd, NEW o,
         \A d : Settled(cmd, o, p, d) <=> d = None \/ ~ Has(d, line)
  PROVE  Serves(cmd, o, {p}, Elements(WithoutLine(p, line)))
<1>. DEFINE r == RemoveLine(files[p], line)
<1>0. p \in Path /\ line # Prose
  BY RtddPaths, MarksDiffer
<1>1. CASE ~ Holds(p, line)
  <2>1. WithoutLine(p, line) = <<>> /\ Settled(cmd, o, p, files[p])
    BY <1>1 DEF WithoutLine, Holds
  <2>. QED  BY <2>1, NothingServes
<1>2. CASE Holds(p, line)
  <2>1. WithoutLine(p, line) = IF Blank(r) THEN Delete(p) ELSE Write(p, r)
    BY <1>2 DEF WithoutLine
  <2>2. files[p] \in Doc
    BY <1>0, <1>2, FileIs DEF Holds
  <2>3. ~ Has(r, line)
    BY <1>0, <2>2, RemoveLineIs
  <2>. HIDE DEF r
  <2>4. Settled(cmd, o, p, r) /\ Settled(cmd, o, p, None)
    BY <2>3
  <2>. QED  BY <2>1, <2>4, WriteServes, DeleteServes
<1>. QED  BY <1>1, <1>2

LEMMA LegacyLineServes ==
  ASSUME TreeHolds, NEW o
  PROVE  Serves("legacy", o, {RootIgnore},
                IF Holds(RootIgnore, GraphLine)
                  THEN Elements(PlanIgnore) \cup Elements(WithoutLine(RootIgnore, GraphLine)) ELSE {})
<1>1. Serves("legacy", o, {RootIgnore}, Elements(WithoutLine(RootIgnore, GraphLine)))
  BY WithoutLineServes, LegacyAsks
<1>2. Serves("legacy", o, {}, Elements(PlanIgnore))
  <2>1. \A d : Settled("legacy", o, Ignore, d)
    BY LegacyAsks, AgentFilesAre, RtddPaths
  <2>2. \A d : Serves("legacy", o, {Ignore}, Elements(Write(Ignore, d)))
    BY <2>1, WriteServes
  <2>3. Serves("legacy", o, {}, Elements(<<>>))
    BY NothingServes
  <2>4. PlanIgnore = <<>> \/ \E d : PlanIgnore = Write(Ignore, d)
    BY DEF PlanIgnore
  <2>. QED  BY <2>2, <2>3, <2>4, FewerServed
<1>3. Serves("legacy", o, {} \cup {RootIgnore}, Elements(PlanIgnore) \cup Elements(WithoutLine(RootIgnore, GraphLine)))
  BY <1>1, <1>2, BothServe
<1>4. CASE Holds(RootIgnore, GraphLine)
  BY <1>3, <1>4
<1>5. CASE ~ Holds(RootIgnore, GraphLine)
  <2>1. Settled("legacy", o, RootIgnore, files[RootIgnore])
    BY <1>5, LegacyAsks DEF Holds
  <2>. QED  BY <1>5, <2>1, NothingServes
<1>. QED  BY <1>4, <1>5

LEMMA UninstallServes ==
  ASSUME TreeHolds, NEW state \in BOOLEAN
  PROVE  Serves("uninstall", state, Path, Elements(PlanUninstall(state)))
<1>. DEFINE front == UNION {Elements(RemoveFrontEnd(f)) : f \in FrontEnd}
            blocks == UNION {Elements(WithoutBlock(p)) : p \in Elements(AgentFiles)}
            line == Elements(WithoutLine(Attributes, MapLine))
            rtdd == [path |-> ".rtdd/", do |-> "delete directory", doc |-> None]
            dir == IF state /\ \E p \in RtddDir : files[p] # None THEN {rtdd} ELSE {}
            Rest == Path \ (FrontEnd \cup Elements(AgentFiles) \cup {Attributes} \cup RtddDir)
<1>1. Serves("uninstall", state, FrontEnd, front)
  <2>. DEFINE parts == [f \in FrontEnd |-> Elements(RemoveFrontEnd(f))]
  <2>2. \A f \in FrontEnd : Serves("uninstall", state, {f}, parts[f])
    BY RemoveFrontEndServes
  <2>3. \A f \in FrontEnd : parts[f] \subseteq front
    OBVIOUS
  <2>4. \A s \in front : \E f \in FrontEnd : s \in parts[f]
    OBVIOUS
  <2>. HIDE DEF parts, front
  <2>. QED  BY <2>2, <2>3, <2>4, EachServes
<1>2. Serves("uninstall", state, Elements(AgentFiles), blocks)
  <2>. DEFINE parts == [p \in Elements(AgentFiles) |-> Elements(WithoutBlock(p))]
  <2>2. \A p \in Elements(AgentFiles) : Serves("uninstall", state, {p}, parts[p])
    BY WithoutBlockServes
  <2>3. \A p \in Elements(AgentFiles) : parts[p] \subseteq blocks
    OBVIOUS
  <2>4. \A s \in blocks : \E p \in Elements(AgentFiles) : s \in parts[p]
    OBVIOUS
  <2>. HIDE DEF parts, blocks
  <2>. QED  BY <2>2, <2>3, <2>4, EachServes
<1>3. Serves("uninstall", state, {Attributes}, line)
  BY WithoutLineServes, UninstallAsks
<1>4. Serves("uninstall", state, RtddDir, dir)
  <2>1. CASE state /\ \E p \in RtddDir : files[p] # None
    <3>1. InDir(".rtdd/") = RtddDir
      BY DEF InDir
    <3>2. \A q \in InDir(".rtdd/") : Settled("uninstall", state, q, None)
      BY NoneSettles
    <3>3. Serves("uninstall", state, InDir(".rtdd/"), {rtdd})
      BY <3>2, DeleteDirServes
    <3>. QED  BY <2>1, <3>1, <3>3
  <2>2. CASE ~ (state /\ \E p \in RtddDir : files[p] # None)
    <3>1. \A p \in RtddDir : Settled("uninstall", state, p, files[p])
      BY <2>2, UninstallAsks
    <3>2. dir = {}
      BY <2>2
    <3>. HIDE DEF dir
    <3>. QED  BY <3>1, <3>2, NothingServes
  <2>. QED  BY <2>1, <2>2
<1>5. Serves("uninstall", state, Rest, {})
  <2>1. \A p \in Rest : Settled("uninstall", state, p, files[p])
    BY UninstallAsks
  <2>. HIDE DEF Rest
  <2>. QED  BY <2>1, NothingServes
<1>6. Elements(PlanUninstall(state)) = front \cup blocks \cup line \cup dir \cup {}
  BY UninstallElements
<1>7. Path \subseteq FrontEnd \cup Elements(AgentFiles) \cup {Attributes} \cup RtddDir \cup Rest
  OBVIOUS
<1>. HIDE DEF front, blocks, line, dir, Rest
<1>8. Serves("uninstall", state, FrontEnd \cup Elements(AgentFiles), front \cup blocks)
  BY <1>1, <1>2, BothServe
<1>9. Serves("uninstall", state, FrontEnd \cup Elements(AgentFiles) \cup {Attributes}, front \cup blocks \cup line)
  BY <1>3, <1>8, BothServe
<1>10. Serves("uninstall", state, FrontEnd \cup Elements(AgentFiles) \cup {Attributes} \cup RtddDir,
              front \cup blocks \cup line \cup dir)
  BY <1>4, <1>9, BothServe
<1>11. Serves("uninstall", state, FrontEnd \cup Elements(AgentFiles) \cup {Attributes} \cup RtddDir \cup Rest,
              Elements(PlanUninstall(state)))
  BY <1>5, <1>6, <1>10, BothServe
<1>. QED  BY <1>7, <1>11, FewerServed

LEMMA LegacyServes ==
  ASSUME TreeHolds, NEW o
  PROVE  Serves("legacy", o, Path, Elements(PlanLegacy))
<1>. DEFINE front == UNION {Elements(LegacyFrontEnd(f)) : f \in FrontEnd}
            blocks == UNION {Elements(LegacyBlock(p)) : p \in Elements(AgentFiles)}
            line == IF Holds(RootIgnore, GraphLine)
                      THEN Elements(PlanIgnore) \cup Elements(WithoutLine(RootIgnore, GraphLine)) ELSE {}
            Rest == Path \ (FrontEnd \cup Elements(AgentFiles) \cup {RootIgnore})
<1>1. Serves("legacy", o, FrontEnd, front)
  <2>. DEFINE parts == [f \in FrontEnd |-> Elements(LegacyFrontEnd(f))]
  <2>2. \A f \in FrontEnd : Serves("legacy", o, {f}, parts[f])
    BY LegacyFrontEndServes
  <2>3. \A f \in FrontEnd : parts[f] \subseteq front
    OBVIOUS
  <2>4. \A s \in front : \E f \in FrontEnd : s \in parts[f]
    OBVIOUS
  <2>. HIDE DEF parts, front
  <2>. QED  BY <2>2, <2>3, <2>4, EachServes
<1>2. Serves("legacy", o, Elements(AgentFiles), blocks)
  <2>. DEFINE parts == [p \in Elements(AgentFiles) |-> Elements(LegacyBlock(p))]
  <2>2. \A p \in Elements(AgentFiles) : Serves("legacy", o, {p}, parts[p])
    BY LegacyBlockServes
  <2>3. \A p \in Elements(AgentFiles) : parts[p] \subseteq blocks
    OBVIOUS
  <2>4. \A s \in blocks : \E p \in Elements(AgentFiles) : s \in parts[p]
    OBVIOUS
  <2>. HIDE DEF parts, blocks
  <2>. QED  BY <2>2, <2>3, <2>4, EachServes
<1>3. Serves("legacy", o, {RootIgnore}, line)
  BY LegacyLineServes
<1>4. Serves("legacy", o, Rest, {})
  <2>1. \A p \in Rest : Settled("legacy", o, p, files[p])
    BY LegacyAsks
  <2>. HIDE DEF Rest
  <2>. QED  BY <2>1, NothingServes
<1>5. Elements(PlanLegacy) = front \cup blocks \cup line \cup {}
  BY LegacyElements
<1>6. Path \subseteq FrontEnd \cup Elements(AgentFiles) \cup {RootIgnore} \cup Rest
  OBVIOUS
<1>. HIDE DEF front, blocks, line, Rest
<1>7. Serves("legacy", o, FrontEnd \cup Elements(AgentFiles), front \cup blocks)
  BY <1>1, <1>2, BothServe
<1>8. Serves("legacy", o, FrontEnd \cup Elements(AgentFiles) \cup {RootIgnore}, front \cup blocks \cup line)
  BY <1>3, <1>7, BothServe
<1>9. Serves("legacy", o, FrontEnd \cup Elements(AgentFiles) \cup {RootIgnore} \cup Rest, Elements(PlanLegacy))
  BY <1>4, <1>5, <1>8, BothServe
<1>. QED  BY <1>6, <1>9, FewerServed

LEMMA FrontEndServes ==
  ASSUME NEW o, Elements(o.append) \subseteq Shared, NEW f \in FrontEnd
  PROVE  Serves("init", o, {f}, Elements(PlanFrontEnd(f)))
<1>1. CASE Kept(f) \/ files[f] = FrontEndNow
  <2>1. PlanFrontEnd(f) = <<>> /\ Settled("init", o, f, files[f])
    BY <1>1, InitAsks DEF PlanFrontEnd
  <2>. QED  BY <2>1, NothingServes
<1>2. CASE ~ (Kept(f) \/ files[f] = FrontEndNow) /\ (files[f] = None \/ Holds(f, Generated))
  <2>1. PlanFrontEnd(f) = Write(f, FrontEndNow)
    BY <1>2 DEF PlanFrontEnd
  <2>2. Settled("init", o, f, FrontEndNow)
    BY InitAsks
  <2>. QED  BY <2>1, <2>2, WriteServes
<1>3. CASE ~ (Kept(f) \/ files[f] = FrontEndNow) /\ ~ (files[f] = None \/ Holds(f, Generated))
  <2>1. PlanFrontEnd(f) = Conflict(f)
    BY <1>3 DEF PlanFrontEnd
  <2>. QED  BY <2>1, ConflictServes
<1>. QED  BY <1>1, <1>2, <1>3

LEMMA AppendServes ==
  ASSUME TreeHolds, NEW o, Elements(o.append) \subseteq Shared, NEW p \in Elements(o.append)
  PROVE  Serves("init", o, {p}, Elements(PlanAppend(p)))
<1>. DEFINE d == IF files[p] = None THEN <<>> ELSE files[p]
            w == MergeBlock(d, Block)
<1>0. p \in Path /\ p \in Shared
  BY RtddPaths
<1>1. PlanAppend(p) = IF p \notin Shared \/ Conflicted(d) THEN Conflict(p)
                      ELSE IF w = d THEN <<>> ELSE Write(p, w)
  BY DEF PlanAppend
<1>2. d \in Doc /\ (files[p] = d \/ (files[p] = None /\ d = <<>>))
  BY <1>0, FileIs, EmptyCounts
<1>. HIDE DEF d
<1>3. CASE Conflicted(d)
  BY <1>1, <1>3, ConflictServes
<1>4. CASE ~ Conflicted(d)
  <2>1. w \in Doc /\ Marked(w) /\ BlockOf(w) = Block /\ ~ Unmarked(w)
    BY <1>2, <1>4, MergeBlockIs
  <2>. HIDE DEF w
  <2>2. Settled("init", o, p, w)
    BY <2>1, InitAsks
  <2>3. CASE w = d
    <3>1. d # <<>>
      BY <2>1, <2>3, EmptyCounts DEF Unmarked
    <3>2. PlanAppend(p) = <<>> /\ Settled("init", o, p, files[p])
      BY <1>0, <1>1, <1>2, <1>4, <2>2, <2>3, <3>1
    <3>. QED  BY <3>2, NothingServes
  <2>4. CASE w # d
    <3>1. PlanAppend(p) = Write(p, w)
      BY <1>0, <1>1, <1>4, <2>4
    <3>. QED  BY <2>2, <3>1, WriteServes
  <2>. QED  BY <2>3, <2>4
<1>. QED  BY <1>3, <1>4

LEMMA RtddServed ==
  ASSUME TreeHolds, NEW o, Elements(o.append) \subseteq Shared
  PROVE  /\ Serves("init", o, {State}, Elements(IF files[State] # None THEN Delete(State) ELSE <<>>))
         /\ Serves("init", o, {Config}, Elements(PlanConfig))
         /\ Serves("init", o, {Ignore}, Elements(PlanIgnore))
<1>1. Serves("init", o, {State}, Elements(IF files[State] # None THEN Delete(State) ELSE <<>>))
  <2>1. CASE files[State] # None
    <3>1. Settled("init", o, State, None)
      BY InitAsks
    <3>2. Serves("init", o, {State}, Elements(Delete(State)))
      BY <3>1, DeleteServes
    <3>. QED  BY <2>1, <3>2
  <2>2. CASE files[State] = None
    <3>1. Settled("init", o, State, files[State])
      BY <2>2, InitAsks
    <3>2. Serves("init", o, {State}, Elements(<<>>))
      BY <3>1, NothingServes
    <3>. QED  BY <2>2, <3>2
  <2>. QED  BY <2>1, <2>2
<1>2. Serves("init", o, {Config}, Elements(PlanConfig))
  <2>1. CASE files[Config] = None \/ IsV02(files[Config])
    <3>1. ~ IsV02(<<Key>>)
      <4>1. Key \in Token /\ Key # V02Key
        BY ToldAreTokens DEF Told, Key, V02Key
      <4>. QED  BY <4>1, OneCounts DEF IsV02
    <3>2. <<Key>> # None
      BY PlainDocs, NoneIsNoDoc
    <3>3. PlanConfig = Write(Config, <<Key>>) /\ Settled("init", o, Config, <<Key>>)
      BY <2>1, <3>1, <3>2, InitAsks DEF PlanConfig
    <3>. QED  BY <3>3, WriteServes
  <2>2. CASE ~ (files[Config] = None \/ IsV02(files[Config]))
    <3>1. PlanConfig = <<>> /\ Settled("init", o, Config, files[Config])
      BY <2>2, InitAsks DEF PlanConfig
    <3>. QED  BY <3>1, NothingServes
  <2>. QED  BY <2>1, <2>2
<1>3. Serves("init", o, {Ignore}, Elements(PlanIgnore))
  <2>1. CASE Holds(Ignore, GraphLine)
    <3>1. PlanIgnore = <<>> /\ Settled("init", o, Ignore, files[Ignore])
      BY <2>1, InitAsks DEF PlanIgnore, Holds
    <3>. QED  BY <3>1, NothingServes
  <2>2. CASE ~ Holds(Ignore, GraphLine)
    <3>1. PICK d : d \in Doc /\ Has(d, GraphLine) /\ PlanIgnore = Write(Ignore, d)
      <4>1. CASE files[Ignore] = None
        BY <4>1, PlainDocs DEF PlanIgnore
      <4>2. CASE files[Ignore] # None
        <5>1. files[Ignore] \in Doc
          BY <4>2, FileIs, RtddPaths
        <5>2. PICK e \in Doc : e = files[Ignore]
          BY <5>1
        <5>3. Append(e, GraphLine) = e \o <<GraphLine>>
          BY <5>2, AppendIsConcat DEF Doc
        <5>4. Append(e, GraphLine) \in Doc /\ Has(Append(e, GraphLine), GraphLine)
          BY <5>3, PlainDocs, JoinIs, JoinCounts
        <5>. QED  BY <2>2, <4>2, <5>2, <5>4 DEF PlanIgnore, Holds
      <4>. QED  BY <4>1, <4>2
    <3>2. Settled("init", o, Ignore, d)
      BY <3>1, NoneIsNoDoc, InitAsks
    <3>. QED  BY <3>1, <3>2, WriteServes
  <2>. QED  BY <2>1, <2>2
<1>. QED  BY <1>1, <1>2, <1>3

LEMMA InitServes ==
  ASSUME TreeHolds, NEW o \in Options, \A s \in Elements(PlanInit(o)) : s.do # "conflict"
  PROVE  /\ Elements(o.append) \subseteq Shared
         /\ Serves("init", o, Path, Elements(PlanInit(o)))
<1>. DEFINE state == Elements(IF files[State] # None THEN Delete(State) ELSE <<>>)
            line == Elements(WithoutLine(Attributes, MapLine))
            config == Elements(PlanConfig)
            ignore == Elements(PlanIgnore)
            front == IF o.skill THEN UNION {Elements(PlanFrontEnd(f)) : f \in FrontEnd} ELSE {}
            blocks == UNION {Elements(PlanAppend(p)) : p \in Elements(o.append)}
            Rest == Path \ ({State} \cup {Attributes} \cup {Config} \cup {Ignore} \cup FrontEnd \cup Elements(o.append))
<1>1. Elements(PlanInit(o)) = state \cup line \cup config \cup ignore \cup front \cup blocks \cup {}
  BY InitElements
<1>2. Elements(o.append) \subseteq Shared
  <2>1. ASSUME NEW p \in Elements(o.append), p \notin Shared PROVE FALSE
    <3>. DEFINE s == [path |-> p, do |-> "conflict", doc |-> None]
    <3>1. Elements(PlanAppend(p)) = {s}
      BY <2>1, StepsAre DEF PlanAppend
    <3>2. s \in blocks /\ s.do = "conflict"
      BY <3>1
    <3>. HIDE DEF s, state, line, config, ignore, front, blocks
    <3>. QED  BY <1>1, <3>2
  <2>. QED  BY <2>1
<1>3. Serves("init", o, {State}, state) /\ Serves("init", o, {Config}, config) /\ Serves("init", o, {Ignore}, ignore)
  BY <1>2, RtddServed
<1>4. Serves("init", o, {Attributes}, line)
  BY <1>2, WithoutLineServes, InitAsks
<1>5. Serves("init", o, FrontEnd, front)
  <2>1. CASE o.skill
    <3>. DEFINE parts == [f \in FrontEnd |-> Elements(PlanFrontEnd(f))]
    <3>1. \A f \in FrontEnd : Serves("init", o, {f}, parts[f])
      BY <1>2, FrontEndServes
    <3>2. \A f \in FrontEnd : parts[f] \subseteq front
      BY <2>1
    <3>3. \A s \in front : \E f \in FrontEnd : s \in parts[f]
      BY <2>1
    <3>. HIDE DEF parts, front
    <3>. QED  BY <3>1, <3>2, <3>3, EachServes
  <2>2. CASE ~ o.skill
    <3>1. \A f \in FrontEnd : Settled("init", o, f, files[f])
      BY <1>2, <2>2, InitAsks
    <3>2. front = {}
      BY <2>2
    <3>. HIDE DEF front
    <3>. QED  BY <3>1, <3>2, NothingServes
  <2>. QED  BY <2>1, <2>2
<1>6. Serves("init", o, Elements(o.append), blocks)
  <2>. DEFINE parts == [p \in Elements(o.append) |-> Elements(PlanAppend(p))]
  <2>1. \A p \in Elements(o.append) : Serves("init", o, {p}, parts[p])
    BY <1>2, AppendServes
  <2>2. \A p \in Elements(o.append) : parts[p] \subseteq blocks
    OBVIOUS
  <2>3. \A s \in blocks : \E p \in Elements(o.append) : s \in parts[p]
    OBVIOUS
  <2>. HIDE DEF parts, blocks
  <2>. QED  BY <2>1, <2>2, <2>3, EachServes
<1>7. Serves("init", o, Rest, {})
  <2>1. \A p \in Rest : Settled("init", o, p, files[p])
    BY <1>2, InitAsks
  <2>. HIDE DEF Rest
  <2>. QED  BY <2>1, NothingServes
<1>8. Path \subseteq {State} \cup {Attributes} \cup {Config} \cup {Ignore} \cup FrontEnd \cup Elements(o.append) \cup Rest
  OBVIOUS
<1>. HIDE DEF state, line, config, ignore, front, blocks, Rest
<1>9. Serves("init", o, {State} \cup {Attributes}, state \cup line)
  BY <1>3, <1>4, BothServe
<1>10. Serves("init", o, {State} \cup {Attributes} \cup {Config}, state \cup line \cup config)
  BY <1>3, <1>9, BothServe
<1>11. Serves("init", o, {State} \cup {Attributes} \cup {Config} \cup {Ignore}, state \cup line \cup config \cup ignore)
  BY <1>3, <1>10, BothServe
<1>12. Serves("init", o, {State} \cup {Attributes} \cup {Config} \cup {Ignore} \cup FrontEnd,
              state \cup line \cup config \cup ignore \cup front)
  BY <1>5, <1>11, BothServe
<1>13. Serves("init", o, {State} \cup {Attributes} \cup {Config} \cup {Ignore} \cup FrontEnd \cup Elements(o.append),
              state \cup line \cup config \cup ignore \cup front \cup blocks)
  BY <1>6, <1>12, BothServe
<1>14. Serves("init", o, {State} \cup {Attributes} \cup {Config} \cup {Ignore} \cup FrontEnd \cup Elements(o.append)
                           \cup Rest,
              Elements(PlanInit(o)))
  BY <1>1, <1>7, <1>13, BothServe
<1>. QED  BY <1>2, <1>8, <1>14, FewerServed

-----------------------------------------------------------------------------
(* What the user's edits leave of it *)

LEMMA BlockStays ==
  ASSUME NEW d \in Doc, Marked(d), BlockOf(d) = Block
  PROVE  /\ MergeBlock(d, Block) = d
         /\ <<Prose>> \o d \in Doc /\ Marked(<<Prose>> \o d) /\ BlockOf(<<Prose>> \o d) = Block
<1>. DEFINE x == Above(d)
            z == Below(d)
<1>1. x \in Doc /\ z \in Doc /\ d = x \o Block \o z /\ Unmarked(x) /\ Unmarked(z) /\ Block \in Doc
  BY MarkedSplits
<1>2. MergeBlock(d, Block) = x \o Block \o z
  BY DEF MergeBlock, Above, Below
<1>. HIDE DEF x, z
<1>3. <<Prose>> \in Doc /\ <<Prose>> \o x \in Doc /\ Unmarked(<<Prose>> \o x)
  BY <1>1, ToppedKeeps, OneCounts, MarksDiffer, ToldAreTokens DEF Unmarked, Told
<1>4. <<Prose>> \o (x \o Block \o z) = (<<Prose>> \o x) \o Block \o z
  <2>1. <<Prose>> \o (x \o Block) = (<<Prose>> \o x) \o Block
    BY <1>1, <1>3, ConcatAssociative DEF Doc
  <2>2. x \o Block \in Doc
    BY <1>1, JoinIs
  <2>3. <<Prose>> \o ((x \o Block) \o z) = (<<Prose>> \o (x \o Block)) \o z
    BY <1>1, <1>3, <2>2, ConcatAssociative DEF Doc
  <2>. QED  BY <2>1, <2>3
<1>. DEFINE y == <<Prose>> \o x
            t == <<Prose>> \o d
<1>5. y \in Doc /\ Unmarked(y) /\ t = y \o Block \o z
  BY <1>1, <1>3, <1>4
<1>. HIDE DEF y, t
<1>6. t \in Doc /\ Marked(t) /\ BlockOf(t) = Block
  <2>1. IsBlock(Block) /\ z \in Doc /\ Unmarked(z)
    BY <1>1, BlockIs
  <2>. QED  BY <1>5, <2>1, BlockPlaced
<1>. QED  BY <1>1, <1>2, <1>6 DEF t
LEMMA SettledStays ==
  ASSUME NEW cmd, NEW o, NEW p, NEW d, atHome' = atHome, Settled(cmd, o, p, d)
  PROVE  Settled(cmd, o, p, d)'
BY DEF Settled, Kept

LEMMA ServesStays ==
  ASSUME NEW cmd, NEW o, NEW P, NEW S, UNCHANGED <<atHome, files>>, Serves(cmd, o, P, S)
  PROVE  Serves(cmd, o, P, S)'
<1>1. \A p, d : Settled(cmd, o, p, d) => Settled(cmd, o, p, d)'
  BY SettledStays
<1>. QED  BY <1>1 DEF Serves

LEMMA EditedStaysSettled ==
  ASSUME TreeHolds, NEW cmd, NEW o, Ordered(cmd, o), NEW p \in Path \ RtddDir,
         ~ (p \in FrontEnd /\ Holds(p, Generated)), Settled(cmd, o, p, files[p]),
         NEW new, new = <<Prose>> \o (IF files[p] = None THEN <<>> ELSE files[p])
  PROVE  Settled(cmd, o, p, new)
<1>. DEFINE old == IF files[p] = None THEN <<>> ELSE files[p]
<1>0. old = files[p] \/ (files[p] = None /\ old = <<>>)
  OBVIOUS
<1>1. old \in Doc /\ new \in Doc /\ new # None /\ \A t : t # Prose => (Has(new, t) <=> Holds(p, t))
  BY ToppedIs
<1>2. new = <<Prose>> \o old
  OBVIOUS
<1>. HIDE DEF old
<1>3. \A t \in {Generated, OptIn, GraphLine, MapLine, BeginMarker, EndMarker} : Has(new, t) <=> Holds(p, t)
  BY <1>1, MarksDiffer
<1>4. CASE cmd = "uninstall"
  <2>1. Unmarked(new) <=> (files[p] = None \/ Unmarked(files[p]))
    BY <1>3 DEF Unmarked, Holds
  <2>. QED  BY <1>3, <1>4, <2>1 DEF Settled, Holds
<1>5. CASE cmd = "legacy"
  <2>1. Unmarked(new) <=> (files[p] = None \/ Unmarked(files[p]))
    BY <1>3 DEF Unmarked, Holds
  <2>. QED  BY <1>3, <1>5, <2>1 DEF Settled, Holds
<1>6. CASE cmd = "init"
  <2>1. Elements(o.append) \subseteq Shared
    BY <1>6 DEF Ordered
  <2>2. p # State /\ p # Config /\ p # Ignore
    BY RtddPaths
  <2>3. CASE p = Attributes
    BY <1>3, <1>6, <2>1, <2>3, InitAsks DEF Holds
  <2>4. CASE p \in FrontEnd
    <3>1. files[p] # FrontEndNow
      <4>1. FrontEndNow # None /\ Has(FrontEndNow, Generated)
        <5>1. FrontEndNow \in Doc /\ FrontEndNow[1] = Generated /\ 1 \in DOMAIN FrontEndNow
          <6>1. FrontEndNow[1] = Generated /\ 1 \in DOMAIN FrontEndNow
            BY DEF FrontEndNow
          <6>. QED  BY <6>1, PlainDocs
        <5>. QED  BY <5>1, NoneIsNoDoc DEF Has, Places
      <4>. QED  BY <2>4, <4>1 DEF Holds
    <3>. QED  BY <1>6, <2>1, <2>4, <3>1, InitAsks
  <2>5. CASE p \in Elements(o.append)
    <3>1. files[p] \in Doc /\ Marked(files[p]) /\ BlockOf(files[p]) = Block
      BY <1>6, <2>1, <2>5, InitAsks
    <3>2. old = files[p]
      BY <1>0, <3>1, NoneIsNoDoc
    <3>3. new \in Doc /\ Marked(new) /\ BlockOf(new) = Block
      BY <1>1, <1>2, <3>1, <3>2, BlockStays
    <3>. QED  BY <1>6, <2>1, <2>5, <3>3, InitAsks
  <2>6. CASE p \notin {State, Attributes, Config, Ignore} \cup FrontEnd \cup Elements(o.append)
    BY <1>6, <2>1, <2>6, InitAsks
  <2>. QED  BY <2>2, <2>3, <2>4, <2>5, <2>6
<1>. QED  BY <1>4, <1>5, <1>6 DEF Ordered

-----------------------------------------------------------------------------
(* What is done and what is left is all that was asked *)

LEMMA CommandDelivers ==
  ASSUME NEW cmd, NEW options, NEW steps, Command(cmd, options, steps),
         \/ RefusesConflict(cmd) /\ Conflicts(steps)
         \/ Ordered(cmd, options) /\ Serves(cmd, options, Path, Elements(steps))
  PROVE  DeliveryHolds'
<1>1. UNCHANGED <<atHome, files>>
  BY DEF Command
<1>2. /\ run'.cmd = cmd /\ run'.options = options /\ run'.steps = steps
      /\ run'.exit = IF RefusesConflict(cmd) /\ Conflicts(steps) THEN "conflict" ELSE "running"
  BY DEF Command
<1>3. CASE RefusesConflict(cmd) /\ Conflicts(steps)
  BY <1>2, <1>3 DEF DeliveryHolds
<1>4. CASE Ordered(cmd, options) /\ Serves(cmd, options, Path, Elements(steps))
  <2>1. PICK S : S = Elements(steps)
    OBVIOUS
  <2>2. Serves(cmd, options, Path, S)'
    BY <1>1, <1>4, <2>1, ServesStays
  <2>3. Serves(run.cmd, run.options, Path, Elements(run.steps))'
    BY <1>2, <2>1, <2>2 DEF Serves
  <2>4. Ordered(run.cmd, run.options)'
    BY <1>2, <1>4 DEF Ordered
  <2>5. run'.exit # "ok"
    BY <1>2
  <2>. QED  BY <2>3, <2>4, <2>5 DEF DeliveryHolds
<1>. QED  BY <1>3, <1>4

LEMMA StepDelivers == ASSUME InstallInv, DeliveryHolds, DoStep PROVE DeliveryHolds'
<1>1. RunHolds /\ Running /\ run.steps # <<>> /\ atHome' = atHome /\ Head(run.steps).do # "conflict"
  BY DEF InstallInv, DoStep
<1>2. PICK cmd, o, steps, rest, s :
        cmd = run.cmd /\ o = run.options /\ steps = run.steps /\ rest = Tail(run.steps) /\ s = Head(run.steps)
  OBVIOUS
<1>3. Ordered(cmd, o) /\ Serves(cmd, o, Path, Elements(steps))
  BY <1>1, <1>2 DEF DeliveryHolds, Running
<1>4. run'.cmd = cmd /\ run'.options = o /\ run'.steps = rest /\ run'.exit = "running"
  BY <1>1, <1>2 DEF DoStep, RunHolds, Running
<1>5. \A p \in Path : files'[p] = IF p \in Target(s) THEN Left(s) ELSE files[p]
  <2>1. run.steps \in Seq(Step)
    BY <1>1 DEF RunHolds
  <2>2. s = run.steps[1]
    BY <1>1, <1>2, <2>1, RestIs
  <2>. QED  BY <2>2, DoStepIs DEF Left
<1>6. s \in Elements(steps) /\ s.do # "conflict" /\ \A r \in Elements(steps) : r = s \/ r \in Elements(rest)
  <2>1. steps \in Seq(Step) /\ steps # <<>> /\ rest = Tail(steps) /\ s = Head(steps)
    BY <1>1, <1>2 DEF RunHolds
  <2>2. /\ s = steps[1] /\ s \in Elements(steps)
        /\ \A i \in DOMAIN rest : i \in Nat /\ i + 1 \in DOMAIN steps /\ rest[i] = steps[i + 1]
        /\ \A i \in DOMAIN steps : i \in Nat /\ i >= 1 /\ (i > 1 => i - 1 \in DOMAIN rest)
    BY <2>1, RestIs
  <2>3. ASSUME NEW i \in DOMAIN steps, i # 1 PROVE steps[i] \in Elements(rest)
    <3>1. i - 1 \in DOMAIN rest /\ (i - 1) + 1 = i
      BY <2>2, <2>3
    <3>2. rest[i - 1] = steps[i]
      BY <2>2, <3>1
    <3>. QED  BY <3>1, <3>2 DEF Elements
  <2>. QED  BY <1>1, <1>2, <2>2, <2>3 DEF Elements
<1>7. \A r \in Elements(rest) : r \in Elements(steps)
  BY <1>1, <1>2, RestIs DEF RunHolds
<1>8. \A p, d : Settled(cmd, o, p, d) => Settled(cmd, o, p, d)'
  BY <1>1, SettledStays
<1>9. \A r \in Elements(rest) : r.do # "conflict" => \A p \in Target(r) : Settled(cmd, o, p, Left(r))'
  BY <1>3, <1>7, <1>8 DEF Serves
<1>10. ASSUME NEW p \in Path
       PROVE  (\A d : d = files'[p] => Settled(cmd, o, p, d)') \/ \E r \in Elements(rest) : p \in Target(r)
  <2>1. CASE p \in Target(s)
    <3>1. Settled(cmd, o, p, Left(s)) /\ files'[p] = Left(s)
      BY <1>3, <1>5, <1>6, <2>1 DEF Serves
    <3>. QED  BY <1>8, <3>1
  <2>2. CASE p \notin Target(s)
    <3>1. files'[p] = files[p]
      BY <1>5, <2>2
    <3>2. Settled(cmd, o, p, files[p]) \/ \E r \in Elements(rest) : p \in Target(r)
      BY <1>3, <1>6, <2>2 DEF Serves
    <3>. QED  BY <1>8, <3>1, <3>2
  <2>. QED  BY <2>1, <2>2
<1>11. Serves(run.cmd, run.options, Path, Elements(run.steps))'
  BY <1>4, <1>9, <1>10 DEF Serves, Left
<1>12. Ordered(run.cmd, run.options)'
  BY <1>3, <1>4 DEF Ordered
<1>. QED  BY <1>4, <1>11, <1>12 DEF DeliveryHolds

LEMMA EditDelivers == ASSUME InstallInv, DeliveryHolds, NEW p \in Path, Edit(p) PROVE DeliveryHolds'
<1>. DEFINE old == IF files[p] = None THEN <<>> ELSE files[p]
<1>1. TreeHolds /\ files \in [Path -> Doc \cup {None}] /\ atHome' = atHome
  BY DEF InstallInv, TreeHolds, Edit
<1>2. CASE ~ Running
  <2>1. run'.exit = "none"
    BY <1>2 DEF Edit, NoRun
  <2>. QED  BY <2>1 DEF DeliveryHolds
<1>3. CASE Running
  <2>1. PICK cmd, o, steps, new : cmd = run.cmd /\ o = run.options /\ steps = run.steps /\ new = <<Prose>> \o old
    OBVIOUS
  <2>2. run' = run /\ run.exit = "running" /\ files' = [files EXCEPT ![p] = new]
        /\ \A i \in DOMAIN steps : p \notin Target(steps[i])
    BY <1>3, <2>1 DEF Edit, Running
  <2>3. p \notin RtddDir /\ ~ (p \in FrontEnd /\ Holds(p, Generated))
    BY EditIs
  <2>4. Ordered(cmd, o) /\ Serves(cmd, o, Path, Elements(steps))
    BY <2>1, <2>2 DEF DeliveryHolds
  <2>5. Settled(cmd, o, p, files[p])
    BY <2>2, <2>4 DEF Serves, Elements
  <2>6. Settled(cmd, o, p, new)
    BY <1>1, <2>1, <2>3, <2>4, <2>5, EditedStaysSettled
  <2>7. \A q, d : Settled(cmd, o, q, d) => Settled(cmd, o, q, d)'
    BY <1>1, SettledStays
  <2>8. \A r \in Elements(steps) : r.do # "conflict" => \A q \in Target(r) : Settled(cmd, o, q, Left(r))'
    BY <2>4, <2>7 DEF Serves
  <2>9. \A q \in Path :
          (\A d : d = files'[q] => Settled(cmd, o, q, d)') \/ \E r \in Elements(steps) : q \in Target(r)
    <3>1. \A q \in Path : files'[q] = IF q = p THEN new ELSE files[q]
      BY <1>1, <2>2
    <3>. QED  BY <2>4, <2>6, <2>7, <3>1 DEF Serves
  <2>10. Serves(run.cmd, run.options, Path, Elements(run.steps))'
    BY <2>1, <2>2, <2>8, <2>9 DEF Serves, Left
  <2>11. Ordered(run.cmd, run.options)'
    BY <2>1, <2>2, <2>4 DEF Ordered
  <2>. QED  BY <2>2, <2>10, <2>11 DEF DeliveryHolds
<1>. QED  BY <1>2, <1>3

LEMMA DeliveryStays == ASSUME InstallInv, DeliveryHolds, [Next]_vars PROVE DeliveryHolds'
<1>1. TreeHolds /\ RunHolds
  BY DEF InstallInv
<1>2. ASSUME NEW o \in Options, RunInit(o) PROVE DeliveryHolds'
  <2>1. Command("init", o, PlanInit(o))
    BY <1>2 DEF RunInit
  <2>2. \/ RefusesConflict("init") /\ Conflicts(PlanInit(o))
        \/ Ordered("init", o) /\ Serves("init", o, Path, Elements(PlanInit(o)))
    <3>1. CASE \A s \in Elements(PlanInit(o)) : s.do # "conflict"
      BY <1>1, <3>1, InitServes DEF Ordered
    <3>2. CASE ~ \A s \in Elements(PlanInit(o)) : s.do # "conflict"
      BY <3>2 DEF Conflicts, Elements, RefusesConflict
    <3>. QED  BY <3>1, <3>2
  <2>3. PICK steps : steps = PlanInit(o)
    OBVIOUS
  <2>. QED  BY <2>1, <2>2, <2>3, CommandDelivers
<1>3. ASSUME NEW state \in BOOLEAN, RunUninstall(state) PROVE DeliveryHolds'
  <2>1. Command("uninstall", state, PlanUninstall(state))
    BY <1>3 DEF RunUninstall
  <2>2. Ordered("uninstall", state) /\ Serves("uninstall", state, Path, Elements(PlanUninstall(state)))
    BY <1>1, UninstallServes DEF Ordered
  <2>3. PICK steps : steps = PlanUninstall(state)
    OBVIOUS
  <2>. QED  BY <2>1, <2>2, <2>3, CommandDelivers
<1>4. CASE RunLegacy
  <2>1. Command("legacy", None, PlanLegacy)
    BY <1>4 DEF RunLegacy
  <2>2. Ordered("legacy", None) /\ Serves("legacy", None, Path, Elements(PlanLegacy))
    BY <1>1, LegacyServes DEF Ordered
  <2>3. PICK steps : steps = PlanLegacy
    OBVIOUS
  <2>. QED  BY <2>1, <2>2, <2>3, CommandDelivers
<1>5. CASE DoStep
  BY <1>5, StepDelivers
<1>6. CASE Succeed
  <2>1. UNCHANGED <<atHome, files>> /\ run.exit = "running" /\ run.steps = <<>>
    BY <1>6 DEF Succeed, Running
  <2>2. run'.cmd = run.cmd /\ run'.options = run.options /\ run'.steps = run.steps /\ run'.exit = "ok"
    BY <1>1, <1>6 DEF Succeed, RunHolds
  <2>3. PICK cmd, o, S : cmd = run.cmd /\ o = run.options /\ S = Elements(run.steps)
    OBVIOUS
  <2>4. Serves(cmd, o, Path, S)'
    BY <2>1, <2>3, ServesStays DEF DeliveryHolds
  <2>5. Serves(run.cmd, run.options, Path, Elements(run.steps))'
    BY <2>2, <2>3, <2>4 DEF Serves, Elements
  <2>6. Ordered(run.cmd, run.options)'
    BY <2>1, <2>2 DEF DeliveryHolds, Ordered
  <2>. QED  BY <2>1, <2>2, <2>5, <2>6 DEF DeliveryHolds
<1>7. CASE MeetConflict \/ Fail
  <2>1. run'.exit \in {"conflict", "failed"}
    BY <1>1, <1>7 DEF MeetConflict, Fail, RunHolds
  <2>. QED  BY <2>1 DEF DeliveryHolds
<1>8. ASSUME NEW p \in Path, Edit(p) PROVE DeliveryHolds'
  BY <1>8, EditDelivers
<1>9. CASE UNCHANGED vars
  <2>1. UNCHANGED <<atHome, files, run>>
    BY <1>9 DEF vars
  <2>. QED  BY <2>1 DEF DeliveryHolds, Ordered, Serves, Settled, Kept
<1>. QED  BY <1>2, <1>3, <1>4, <1>5, <1>6, <1>7, <1>8, <1>9 DEF Next

LEMMA NothingLeft ==
  ASSUME NEW cmd, NEW o, NEW steps, Serves(cmd, o, Path, Elements(steps)), steps = <<>>
  PROVE  \A p \in Path : Settled(cmd, o, p, files[p])
BY NothingIsGood DEF Serves

LEMMA InitIsComplete ==
  ASSUME TreeHolds, NEW o \in Options, Elements(o.append) \subseteq Shared,
         \A p \in Path : Settled("init", o, p, files[p])
  PROVE  /\ files[State] = None /\ ~ Holds(Attributes, MapLine)
         /\ files[Config] # None /\ ~ IsV02(files[Config])
         /\ Holds(Ignore, GraphLine)
         /\ o.skill => \A f \in FrontEnd : ~ Kept(f) => files[f] = FrontEndNow
         /\ \A i \in DOMAIN o.append : Marked(files[o.append[i]]) /\ BlockOf(files[o.append[i]]) = Block
         /\ PlanInit(o) = <<>>
<1>1. /\ files[State] = None /\ ~ Holds(Attributes, MapLine)
      /\ files[Config] # None /\ ~ IsV02(files[Config])
      /\ Holds(Ignore, GraphLine)
  BY RtddPaths, InitAsks DEF Holds
<1>2. ASSUME o.skill, NEW f \in FrontEnd PROVE Kept(f) \/ files[f] = FrontEndNow
  BY <1>2, RtddPaths, InitAsks
<1>3. ASSUME NEW p \in Elements(o.append)
      PROVE  p \in Shared /\ files[p] \in Doc /\ Marked(files[p]) /\ BlockOf(files[p]) = Block
  BY <1>3, RtddPaths, InitAsks
<1>4. \A i \in DOMAIN o.append : Marked(files[o.append[i]]) /\ BlockOf(files[o.append[i]]) = Block
  BY <1>3 DEF Elements
<1>5. PlanInit(o) = <<>>
  <2>1. Elements(IF files[State] # None THEN Delete(State) ELSE <<>>) = {}
    BY <1>1, NothingIsGood
  <2>2. WithoutLine(Attributes, MapLine) = <<>> /\ PlanConfig = <<>> /\ PlanIgnore = <<>>
    BY <1>1 DEF WithoutLine, PlanConfig, PlanIgnore, Holds
  <2>3. \A f \in FrontEnd : o.skill => Elements(PlanFrontEnd(f)) = {}
    BY <1>2, NothingIsGood DEF PlanFrontEnd
  <2>4. \A p \in Elements(o.append) : Elements(PlanAppend(p)) = {}
    <3>1. ASSUME NEW p \in Elements(o.append) PROVE PlanAppend(p) = <<>>
      <4>1. PICK d \in Doc : d = files[p] /\ d # None
        BY <1>3, NoneIsNoDoc
      <4>2. p \in Shared /\ ~ Conflicted(d) /\ MergeBlock(d, Block) = d
        BY <1>3, <4>1, BlockStays DEF Conflicted
      <4>. QED  BY <4>1, <4>2 DEF PlanAppend
    <3>. QED  BY <3>1, NothingIsGood
  <2>5. Elements(PlanInit(o)) = {}
    BY <2>1, <2>2, <2>3, <2>4, InitElements, NothingIsGood
  <2>. QED  BY <2>5, InitPlanIs, NoSteps
<1>. QED  BY <1>1, <1>2, <1>4, <1>5

LEMMA UninstallIsComplete ==
  ASSUME TreeHolds, NEW state \in BOOLEAN, \A p \in Path : Settled("uninstall", state, p, files[p])
  PROVE  /\ \A p \in Path \ RtddDir : Holds(p, Generated) \/ Holds(p, MapLine) => Kept(p)
         /\ \A i \in DOMAIN AgentFiles : ~ Holds(AgentFiles[i], BeginMarker)
         /\ state => \A p \in RtddDir : files[p] = None
<1>1. ASSUME NEW p \in Path, Holds(p, Generated) PROVE Kept(p)
  <2>1. p \in FrontEnd
    BY <1>1, FileIs DEF Holds, MarksBelong
  <2>. QED  BY <1>1, <2>1, UninstallAsks DEF Holds
<1>2. ASSUME NEW p \in Path, Holds(p, MapLine) PROVE FALSE
  <2>1. p = Attributes
    BY <1>2, FileIs DEF Holds, MarksBelong
  <2>. QED  BY <1>2, <2>1, UninstallAsks DEF Holds
<1>3. ASSUME NEW p \in Elements(AgentFiles) PROVE ~ Holds(p, BeginMarker)
  <2>1. p \in Path
    BY AgentFilesAre, RtddPaths
  <2>. QED  BY <2>1, UninstallAsks DEF Holds, Unmarked
<1>4. state => \A p \in RtddDir : files[p] = None
  BY RtddPaths, UninstallAsks
<1>. QED  BY <1>1, <1>2, <1>3, <1>4 DEF Elements

LEMMA LegacyIsComplete ==
  ASSUME TreeHolds, NEW o, \A p \in Path : Settled("legacy", o, p, files[p])
  PROVE  /\ \A f \in FrontEnd : Holds(f, Generated) => Kept(f) \/ Holds(f, OptIn)
         /\ \A i \in DOMAIN AgentFiles : Holds(AgentFiles[i], BeginMarker) => Holds(AgentFiles[i], OptIn)
         /\ PlanLegacy = <<>>
<1>1. \A f \in FrontEnd : Kept(f) \/ ~ Holds(f, Generated) \/ Holds(f, OptIn)
  BY RtddPaths, LegacyAsks DEF Holds
<1>2. \A p \in Elements(AgentFiles) : files[p] = None \/ Holds(p, OptIn) \/ Unmarked(files[p])
  BY AgentFilesAre, RtddPaths, LegacyAsks DEF Holds
<1>3. ~ Holds(RootIgnore, GraphLine)
  BY RtddPaths, LegacyAsks DEF Holds
<1>4. PlanLegacy = <<>>
  <2>1. \A f \in FrontEnd : Elements(LegacyFrontEnd(f)) = {}
    BY <1>1, NothingIsGood DEF LegacyFrontEnd
  <2>2. \A p \in Elements(AgentFiles) : Elements(LegacyBlock(p)) = {}
    BY <1>2, NothingIsGood DEF LegacyBlock, WithoutBlock, Conflicted
  <2>3. Elements(PlanLegacy) = {}
    BY <1>3, <2>1, <2>2, LegacyElements
  <2>. QED  BY <2>3, LegacyPlanIs, NoSteps
<1>. QED  BY <1>1, <1>2, <1>4 DEF Elements, Holds, Unmarked

\* A command that says it succeeded, whatever ran before it, wherever that
\* failed and whatever the user has written since, did all it was asked: what
\* was so when it planned stays so, what was not is the target of a step, and
\* every step leaves its file as the command wants it (install.go,
\* uninstall.go, legacy.go).
THEOREM SuccessIsCompleteAlways == Spec => []SuccessIsComplete
<1>1. Init => DeliveryHolds
  BY DEF Init, NoRun, DeliveryHolds
<1>2. InstallInv /\ DeliveryHolds /\ [Next]_vars => DeliveryHolds'
  BY DeliveryStays
<1>3. InstallInv /\ DeliveryHolds => SuccessIsComplete
  <2>1. SUFFICES ASSUME InstallInv, DeliveryHolds, run.exit = "ok"
                 PROVE  InitDelivers /\ UninstallTakesBack /\ LegacyTakesAll
    BY DEF SuccessIsComplete, InitDelivers, UninstallTakesBack, LegacyTakesAll
  <2>2. TreeHolds /\ Ordered(run.cmd, run.options) /\ \A p \in Path : Settled(run.cmd, run.options, p, files[p])
    BY <2>1, NothingLeft DEF InstallInv, DeliveryHolds
  <2>3. InitDelivers
    BY <2>2, InitIsComplete DEF InitDelivers, Ordered
  <2>4. UninstallTakesBack
    BY <2>2, UninstallIsComplete DEF UninstallTakesBack, Ordered
  <2>5. LegacyTakesAll
    BY <2>2, LegacyIsComplete DEF LegacyTakesAll
  <2>. QED  BY <2>3, <2>4, <2>5
<1>. QED  BY <1>1, <1>2, <1>3, InstallAlways, PTL DEF Spec

-----------------------------------------------------------------------------
(* The elements of a set, each in its turn *)

Turn(x, pick, next) ==
  [out |-> next[<<x.out, pick[x.left]>>], left |-> x.left \ {pick[x.left]}]

Picks(pick, S) == \A T \in SUBSET S : T # {} => pick[T] \in T
TakesTurns(u, n, S, V, start, pick, next) ==
  /\ u \in [0..n -> [out : V, left : SUBSET S]]
  /\ u[0] = [out |-> start, left |-> S]
  /\ \A i \in 1..n : u[i - 1].left # {} /\ u[i] = Turn(u[i - 1], pick, next)
  /\ u[n].left = {}

LEMMA TurnsAreTaken ==
  ASSUME NEW S, NEW V, NEW start, NEW pick, NEW next, IsFiniteSet(S), start \in V,
         Picks(pick, S), next \in [V \X S -> V]
  PROVE  \E u : TakesTurns(u, Cardinality(S), S, V, start, pick, next)
<1>. DEFINE n == Cardinality(S)
            W == [out : V, left : SUBSET S]
            begin == [out |-> start, left |-> S]
            step == [y \in W \X (1..n) |-> IF y[1].left = {} THEN y[1] ELSE Turn(y[1], pick, next)]
<1>1. n \in Nat
  BY FS_CardinalityType
<1>2. ASSUME NEW x \in W, x.left # {}
      PROVE  /\ Turn(x, pick, next) \in W /\ pick[x.left] \in x.left
             /\ Turn(x, pick, next).left = x.left \ {pick[x.left]}
  <2>1. x.out \in V /\ x.left \in SUBSET S
    OBVIOUS
  <2>2. pick[x.left] \in x.left
    BY <1>2, <2>1 DEF Picks
  <2>3. next[<<x.out, pick[x.left]>>] \in V
    BY <2>1, <2>2
  <2>. QED  BY <2>1, <2>2, <2>3 DEF Turn
<1>3. begin \in W
  OBVIOUS
<1>4. \A x \in W, i \in 1..n : step[<<x, i>>] = IF x.left = {} THEN x ELSE Turn(x, pick, next)
  OBVIOUS
<1>5. step \in [W \X (1..n) -> W]
  <2>. HIDE DEF W, n
  <2>. QED  BY <1>2
<1>. HIDE DEF step, begin, W, n
<1>6. PICK u \in [0..n -> W] : Follows(u, n, begin, step)
  BY <1>1, <1>3, <1>5, StepsExist
<1>7. \A i \in 1..n : i - 1 \in 0..n /\ i \in 0..n /\ u[i - 1] \in W
  BY <1>1, <1>6
<1>8. /\ u[0] = begin
      /\ \A i \in 1..n : u[i] = IF u[i - 1].left = {} THEN u[i - 1] ELSE Turn(u[i - 1], pick, next)
  BY <1>4, <1>6, <1>7 DEF Follows
<1>. DEFINE Upheld == {i \in 0..n : IsFiniteSet(u[i].left) /\ Cardinality(u[i].left) = n - i}
<1>9. 0 \in Upheld
  BY <1>1, <1>8 DEF begin, n
<1>10. ASSUME NEW i \in 1..n, IsFiniteSet(u[i - 1].left), Cardinality(u[i - 1].left) = n - (i - 1)
       PROVE  u[i - 1].left # {}
  <2>1. n - (i - 1) # 0
    BY <1>1
  <2>. QED  BY <1>10, <2>1, FS_EmptySet
<1>11. ASSUME NEW i \in 1..n, i - 1 \in Upheld PROVE i \in Upheld
  <2>. DEFINE T == u[i - 1].left
              e == pick[T]
  <2>1. IsFiniteSet(T) /\ Cardinality(T) = n - (i - 1) /\ T # {}
    BY <1>10, <1>11
  <2>2. u[i].left = T \ {e} /\ e \in T
    BY <1>2, <1>7, <1>8, <2>1
  <2>. HIDE DEF T, e
  <2>3. IsFiniteSet(T \ {e}) /\ Cardinality(T \ {e}) = Cardinality(T) - 1
    BY <2>1, <2>2, FS_RemoveElement
  <2>4. n - (i - 1) - 1 = n - i
    BY <1>1
  <2>. QED  BY <1>7, <2>1, <2>2, <2>3, <2>4
<1>12. \A i \in 0..n : i \in Upheld
  <2>. HIDE DEF Upheld
  <2>. QED  BY <1>1, <1>9, <1>11, Upward
<1>13. \A i \in 1..n : u[i - 1].left # {} /\ u[i] = Turn(u[i - 1], pick, next)
  BY <1>7, <1>8, <1>10, <1>12
<1>14. u[n].left = {}
  <2>1. n \in 0..n /\ n - n = 0
    BY <1>1
  <2>. QED  BY <1>12, <2>1, FS_EmptySet
<1>. QED  BY <1>6, <1>8, <1>13, <1>14 DEF n, W, begin, TakesTurns

-----------------------------------------------------------------------------
(* Ranges *)

Ranges == [start : Nat, end : Nat]
Proper(r) == r.start <= r.end
Covers(r, l) == r.start <= l /\ l <= r.end
Covered(out, l) == \E i \in DOMAIN out : Covers(out[i], l)
Spaced(out) ==
  /\ \A i \in DOMAIN out : Proper(out[i])
  /\ \A i \in 1..Len(out) - 1 : out[i].end + 1 < out[i + 1].start

LEMMA FirstRangeIs ==
  ASSUME NEW T, T \in SUBSET Ranges, T # {}
  PROVE  /\ FirstRange(T) \in T
         /\ \A s \in T : FirstRange(T).start <= s.start
<1>. DEFINE starts == {r.start : r \in T}
<1>1. starts \subseteq Nat /\ starts # {}
  BY DEF Ranges
<1>2. PICK a \in starts : \A b \in starts : a <= b
  <2>. HIDE DEF starts
  <2>. QED  BY <1>1, LeastOf
<1>. DEFINE ends == {r.end : r \in {q \in T : q.start = a}}
<1>3. ends \subseteq Nat /\ ends # {}
  BY <1>2 DEF Ranges
<1>4. PICK b \in ends : \A c \in ends : b <= c
  <2>. HIDE DEF ends
  <2>. QED  BY <1>3, LeastOf
<1>5. PICK r \in T : r.start = a /\ r.end = b
  BY <1>4
<1>6. ASSUME NEW s \in T, s # r PROVE Before(r, s)
  <2>1. s \in Ranges /\ r \in Ranges
    OBVIOUS
  <2>2. a <= s.start /\ (s.start = a => b <= s.end)
    BY <1>2, <1>4
  <2>3. s.start # a \/ s.end # b
    BY <1>5, <1>6, <2>1 DEF Ranges
  <2>4. s.start \in Nat /\ s.end \in Nat /\ a \in Nat /\ b \in Nat
    BY <1>5, <2>1 DEF Ranges
  <2>. QED  BY <1>5, <2>2, <2>3, <2>4 DEF Before
<1>7. /\ FirstRange(T) \in T
      /\ \A s \in T \ {FirstRange(T)} : Before(FirstRange(T), s)
  BY <1>6 DEF FirstRange
<1>8. ASSUME NEW q \in T, NEW s \in T, Before(q, s) PROVE q.start <= s.start
  <2>1. q.start \in Nat /\ s.start \in Nat
    BY DEF Ranges
  <2>. QED  BY <1>8, <2>1 DEF Before
<1>9. FirstRange(T).start <= FirstRange(T).start
  <2>1. FirstRange(T).start \in Nat
    BY <1>7 DEF Ranges
  <2>. QED  BY <2>1
<1>. QED  BY <1>7, <1>8, <1>9

\* A range that starts where the last one does, or after, is taken in.
LEMMA AbsorbTakesIn ==
  ASSUME NEW out, NEW r, out \in Seq(Ranges), Spaced(out), r \in Ranges, Proper(r),
         out # <<>> => out[Len(out)].start <= r.start
  PROVE  /\ Absorb(out, r) \in Seq(Ranges) /\ Spaced(Absorb(out, r)) /\ Absorb(out, r) # <<>>
         /\ Absorb(out, r)[Len(Absorb(out, r))].start <= r.start
         /\ \A l \in Nat : Covered(Absorb(out, r), l) <=> Covered(out, l) \/ Covers(r, l)
<1>. DEFINE n == Len(out)
            z == Absorb(out, r)
<1>1. n \in Nat /\ DOMAIN out = 1..n /\ (out = <<>> <=> n = 0)
      /\ \A i \in 1..n : out[i] \in Ranges
  OBVIOUS
<1>2. r.start \in Nat /\ r.end \in Nat /\ r.start <= r.end
  BY DEF Ranges, Proper
<1>3. \A i \in 1..n : out[i].start \in Nat /\ out[i].end \in Nat
  BY <1>1 DEF Ranges
<1>4. CASE out # <<>> /\ r.start <= out[n].end + 1
  <2>. DEFINE last == [out[n] EXCEPT !.end = IF r.end > @ THEN r.end ELSE @]
  <2>1. n \in 1..n
    BY <1>1, <1>4
  <2>2. z = [out EXCEPT ![n] = last]
    BY <1>4 DEF Absorb
  <2>3. /\ last \in Ranges /\ last.start = out[n].start
        /\ last.end = IF r.end > out[n].end THEN r.end ELSE out[n].end
    BY <1>1, <1>2, <2>1 DEF Ranges
  <2>. HIDE DEF last
  <2>4. /\ z \in Seq(Ranges) /\ Len(z) = n /\ DOMAIN z = 1..n
        /\ \A i \in 1..n : z[i] = IF i = n THEN last ELSE out[i]
    BY <1>1, <2>1, <2>2, <2>3
  <2>. HIDE DEF z, n
  <2>5. out[n].start <= out[n].end /\ out[n].start <= r.start
    BY <1>1, <1>4, <2>1 DEF Spaced, Proper, n
  <2>6. \A l \in Nat : Covers(last, l) <=> Covers(out[n], l) \/ Covers(r, l)
    <3>1. ASSUME NEW a \in Nat, NEW b \in Nat, NEW c \in Nat, NEW d \in Nat, NEW l \in Nat,
                 a <= b, a <= c, c <= d, c <= b + 1
          PROVE  a <= l /\ l <= (IF d > b THEN d ELSE b) <=> (a <= l /\ l <= b) \/ (c <= l /\ l <= d)
      BY <3>1
    <3>. QED  BY <1>2, <1>3, <1>4, <2>1, <2>3, <2>5, <3>1 DEF Covers
  <2>7. \A l \in Nat : Covered(z, l) <=> Covered(out, l) \/ Covers(r, l)
    <3>1. ASSUME NEW l \in Nat, NEW i \in 1..n, Covers(z[i], l) PROVE Covered(out, l) \/ Covers(r, l)
      BY <1>1, <2>1, <2>4, <2>6, <3>1 DEF Covered
    <3>2. ASSUME NEW l \in Nat, NEW i \in 1..n, Covers(out[i], l) PROVE Covered(z, l)
      <4>1. CASE i = n
        BY <2>1, <2>4, <2>6, <3>2, <4>1 DEF Covered
      <4>2. CASE i # n
        BY <2>4, <3>2, <4>2 DEF Covered
      <4>. QED  BY <4>1, <4>2
    <3>3. ASSUME NEW l \in Nat, Covers(r, l) PROVE Covered(z, l)
      BY <2>1, <2>4, <2>6, <3>3 DEF Covered
    <3>. QED  BY <1>1, <2>4, <3>1, <3>2, <3>3 DEF Covered
  <2>8. Spaced(z)
    <3>1. Proper(last)
      <4>1. out[n].end \in Nat /\ out[n].start \in Nat
        BY <1>3, <2>1
      <4>. QED  BY <1>2, <2>3, <2>5, <4>1 DEF Proper
    <3>2. \A i \in 1..n : Proper(z[i])
      BY <1>1, <2>4, <3>1 DEF Spaced
    <3>3. ASSUME NEW i \in 1..n - 1 PROVE z[i].end + 1 < z[i + 1].start
      <4>1. i \in 1..n /\ i # n /\ i + 1 \in 1..n
        BY <1>1
      <4>2. out[i].end + 1 < out[i + 1].start
        BY DEF Spaced, n
      <4>3. z[i] = out[i] /\ z[i + 1].start = out[i + 1].start
        BY <2>3, <2>4, <4>1
      <4>. QED  BY <4>2, <4>3
    <3>. QED  BY <2>4, <3>2, <3>3 DEF Spaced
  <2>9. z # <<>> /\ z[Len(z)].start <= r.start
    BY <1>1, <2>1, <2>3, <2>4, <2>5
  <2>. QED  BY <2>4, <2>7, <2>8, <2>9 DEF z
<1>5. CASE ~ (out # <<>> /\ r.start <= out[n].end + 1)
  <2>1. z = Append(out, r)
    BY <1>5 DEF Absorb
  <2>2. /\ z \in Seq(Ranges) /\ Len(z) = n + 1 /\ DOMAIN z = 1..n + 1
        /\ \A i \in 1..n : z[i] = out[i]
        /\ z[n + 1] = r
    <3>. HIDE DEF z
    <3>. QED  BY <1>1, <2>1
  <2>. HIDE DEF z
  <2>3. \A i : i \in 1..n + 1 <=> i \in 1..n \/ i = n + 1
    <3>. HIDE DEF n
    <3>. QED  BY <1>1
  <2>4. \A l \in Nat : Covered(z, l) <=> Covered(out, l) \/ Covers(r, l)
    <3>. HIDE DEF n
    <3>. QED  BY <1>1, <2>2, <2>3 DEF Covered
  <2>5. Spaced(z)
    <3>1. \A i \in 1..n + 1 : Proper(z[i])
      <4>. HIDE DEF n
      <4>. QED  BY <1>1, <2>2, <2>3 DEF Spaced
    <3>2. ASSUME NEW i \in 1..(n + 1) - 1 PROVE z[i].end + 1 < z[i + 1].start
      <4>1. CASE i = n
        <5>1. out # <<>> /\ n \in 1..n /\ ~ (r.start <= out[n].end + 1)
          BY <1>1, <1>5, <4>1
        <5>2. z[i] = out[n] /\ z[i + 1] = r
          BY <2>2, <4>1, <5>1
        <5>3. out[n].end \in Nat
          BY <1>3, <5>1
        <5>. HIDE DEF n
        <5>. QED  BY <1>2, <5>1, <5>2, <5>3
      <4>2. CASE i # n
        <5>1. i \in 1..n /\ i + 1 \in 1..n /\ i \in 1..n - 1
          <6>1. n \in Nat
            BY <1>1
          <6>. HIDE DEF n
          <6>. QED  BY <4>2, <6>1
        <5>2. out[i].end + 1 < out[i + 1].start
          BY <5>1 DEF Spaced
        <5>. QED  BY <2>2, <5>1, <5>2
      <4>. QED  BY <4>1, <4>2
    <3>. QED  BY <2>2, <3>1, <3>2 DEF Spaced
  <2>6. z # <<>> /\ z[Len(z)].start <= r.start
    <3>. HIDE DEF n
    <3>. QED  BY <1>1, <1>2, <2>2
  <2>. QED  BY <2>2, <2>4, <2>5, <2>6 DEF z
<1>. QED  BY <1>4, <1>5

LEMMA MergedAre ==
  ASSUME NEW S, S \in SUBSET Ranges, IsFiniteSet(S), \A r \in S : Proper(r)
  PROVE  /\ MergeRanges(S) \in Seq(Ranges) /\ Spaced(MergeRanges(S))
         /\ \A l \in Nat : Covered(MergeRanges(S), l) <=> \E r \in S : Covers(r, l)
<1>. DEFINE n == Cardinality(S)
            pick == [T \in SUBSET S |-> FirstRange(T)]
            next == [y \in Seq(Ranges) \X S |-> Absorb(y[1], y[2])]
            Next2(x) == LET r == FirstRange(x.left)
                        IN  [out |-> Absorb(x.out, r), left |-> x.left \ {r}]
            Defines(f) == f = [i \in 0..n |->
                                 IF i = 0 THEN [out |-> <<>>, left |-> S]
                                 ELSE LET prev == f[i - 1]
                                          r == FirstRange(prev.left)
                                      IN  [out |-> Absorb(prev.out, r), left |-> prev.left \ {r}]]
<1>1. n \in Nat
  BY FS_CardinalityType
<1>2. \A T \in SUBSET S : T # {} => FirstRange(T) \in T /\ \A s \in T : FirstRange(T).start <= s.start
  BY FirstRangeIs
<1>3. \A T \in SUBSET S : T # {} => pick[T] \in T
  BY <1>2
<1>4. ASSUME NEW out \in Seq(Ranges), NEW r \in S PROVE Absorb(out, r) \in Seq(Ranges)
  <2>1. r \in Ranges
    OBVIOUS
  <2>2. CASE out # <<>> /\ r.start <= out[Len(out)].end + 1
    <3>. DEFINE m == Len(out)
                last == [out[m] EXCEPT !.end = IF r.end > @ THEN r.end ELSE @]
    <3>1. m \in 1..m /\ m \in Nat /\ DOMAIN out = 1..m
      BY <2>2
    <3>2. last \in Ranges
      <4>1. out[m] \in Ranges
        BY <3>1
      <4>. QED  BY <2>1, <4>1 DEF Ranges
    <3>3. Absorb(out, r) = [out EXCEPT ![m] = last]
      BY <2>2 DEF Absorb
    <3>. HIDE DEF last, m
    <3>. QED  BY <3>1, <3>2, <3>3
  <2>3. CASE ~ (out # <<>> /\ r.start <= out[Len(out)].end + 1)
    BY <2>1, <2>3 DEF Absorb
  <2>. QED  BY <2>2, <2>3
<1>5. next \in [Seq(Ranges) \X S -> Seq(Ranges)] /\ <<>> \in Seq(Ranges)
  BY <1>4
<1>6. PICK u \in [0..n -> [out : Seq(Ranges), left : SUBSET S]] :
        /\ u[0] = [out |-> <<>>, left |-> S]
        /\ \A i \in 1..n : u[i - 1].left # {} /\ u[i] = Turn(u[i - 1], pick, next)
        /\ u[n].left = {}
  <2>1. Picks(pick, S)
    BY <1>3 DEF Picks
  <2>. HIDE DEF pick, next
  <2>2. \E u : TakesTurns(u, Cardinality(S), S, Seq(Ranges), <<>>, pick, next)
    BY <1>5, <2>1, TurnsAreTaken
  <2>. QED  BY <2>2 DEF TakesTurns
<1>7. \A i \in 1..n : /\ i - 1 \in 0..n /\ i \in 0..n /\ i # 0
                      /\ u[i - 1].out \in Seq(Ranges) /\ u[i - 1].left \in SUBSET S
  <2>. HIDE DEF n
  <2>1. \A i \in 1..n : i - 1 \in 0..n /\ i \in 0..n /\ i # 0
    BY <1>1
  <2>. QED  BY <1>6, <2>1
<1>8. \A i \in 1..n : u[i] = Next2(u[i - 1])
  <2>1. ASSUME NEW i \in 1..n PROVE u[i] = Next2(u[i - 1])
    <3>. DEFINE x == u[i - 1]
    <3>1. x.out \in Seq(Ranges) /\ x.left \in SUBSET S /\ x.left # {}
      BY <1>6, <1>7
    <3>. HIDE DEF x
    <3>2. pick[x.left] = FirstRange(x.left) /\ FirstRange(x.left) \in S
      BY <1>2, <3>1
    <3>3. next[<<x.out, FirstRange(x.left)>>] = Absorb(x.out, FirstRange(x.left))
      BY <3>1, <3>2
    <3>4. u[i] = Turn(x, pick, next)
      BY <1>6 DEF x
    <3>. HIDE DEF pick, next
    <3>. QED  BY <3>2, <3>3, <3>4 DEF Turn, x
  <2>. QED  BY <2>1
<1>. HIDE DEF pick, next
<1>9. Defines(u)
  <2>1. \A i \in 0..n : i # 0 => i \in 1..n
    BY <1>1
  <2>. HIDE DEF n
  <2>2. \A i \in 0..n : u[i] = IF i = 0 THEN [out |-> <<>>, left |-> S] ELSE Next2(u[i - 1])
    <3>. HIDE DEF Next2
    <3>. QED  BY <1>6, <1>8, <2>1
  <2>3. u = [i \in 0..n |-> u[i]]
    BY <1>6
  <2>. QED  BY <2>2, <2>3
<1>10. ASSUME NEW f, Defines(f) PROVE f = u
  <2>1. f[0] = [out |-> <<>>, left |-> S] /\ \A i \in 1..n : f[i] = Next2(f[i - 1])
    <3>1. 0 \in 0..n
      BY <1>1
    <3>. HIDE DEF n
    <3>. QED  BY <1>7, <1>10, <3>1
  <2>. HIDE DEF Next2
  <2>2. StepAlike(f, u, n)
    BY <1>6, <1>8, <2>1 DEF StepAlike
  <2>3. \A i \in 0..n : f[i] = u[i]
    <3>. HIDE DEF n
    <3>. QED  BY <1>1, <2>2, StepsAgree DEF SameUpTo
  <2>4. f = [i \in 0..n |-> f[i]] /\ u = [i \in 0..n |-> u[i]]
    BY <1>6, <1>10
  <2>. QED  BY <2>3, <2>4
<1>11. u = CHOOSE f : Defines(f)
  <2>. HIDE DEF Defines
  <2>. QED  BY <1>9, <1>10
<1>12. MergeRanges(S) = u[n].out
  BY <1>11 DEF MergeRanges
<1>. HIDE DEF Defines, n
<1>. DEFINE Upheld == {i \in 0..n :
                       /\ Spaced(u[i].out)
                       /\ \A l \in Nat : (\E r \in S : Covers(r, l)) <=>
                                        Covered(u[i].out, l) \/ \E r \in u[i].left : Covers(r, l)
                       /\ u[i].out # <<>> =>
                            \A r \in u[i].left : u[i].out[Len(u[i].out)].start <= r.start}
<1>13. 0 \in Upheld
  <2>1. DOMAIN <<>> = {} /\ Len(<<>>) = 0 /\ 0 \in 0..n /\ 1..(0 - 1) = {}
    BY <1>1
  <2>2. Spaced(<<>>) /\ \A l : ~ Covered(<<>>, l)
    BY <2>1 DEF Spaced, Covered
  <2>. QED  BY <1>6, <2>1, <2>2
<1>14. ASSUME NEW i \in 1..n, i - 1 \in Upheld PROVE i \in Upheld
  <2>. DEFINE T == u[i - 1].left
              out == u[i - 1].out
              r == FirstRange(T)
              z == Absorb(out, r)
  <2>1. out \in Seq(Ranges) /\ T \in SUBSET S /\ T # {} /\ i \in 0..n
    BY <1>6, <1>7
  <2>2. r \in T /\ \A s \in T : r.start <= s.start
    BY <1>2, <2>1
  <2>3. u[i].out = z /\ u[i].left = T \ {r}
    <3>1. u[i] = Next2(u[i - 1])
      BY <1>8
    <3>. QED  BY <3>1
  <2>4. Spaced(out) /\ (out # <<>> => out[Len(out)].start <= r.start)
    BY <1>14, <2>2
  <2>5. \A l \in Nat : (\E s \in S : Covers(s, l)) <=> Covered(out, l) \/ \E s \in T : Covers(s, l)
    BY <1>14
  <2>6. r \in Ranges /\ Proper(r)
    BY <2>1, <2>2
  <2>. HIDE DEF r, T, out
  <2>7. /\ z \in Seq(Ranges) /\ Spaced(z) /\ z # <<>> /\ z[Len(z)].start <= r.start
        /\ \A l \in Nat : Covered(z, l) <=> Covered(out, l) \/ Covers(r, l)
    BY <2>1, <2>4, <2>6, AbsorbTakesIn
  <2>. HIDE DEF z
  <2>8. \A l \in Nat : (\E s \in S : Covers(s, l)) <=> Covered(z, l) \/ \E s \in T \ {r} : Covers(s, l)
    BY <2>2, <2>5, <2>7
  <2>9. ASSUME NEW s \in T \ {r} PROVE z[Len(z)].start <= s.start
    <3>1. z[Len(z)] \in Ranges
      <4>1. Len(z) \in 1..Len(z) /\ DOMAIN z = 1..Len(z)
        BY <2>7
      <4>. QED  BY <2>7, <4>1
    <3>2. s \in Ranges
      BY <2>1
    <3>3. z[Len(z)].start \in Nat /\ r.start \in Nat /\ s.start \in Nat
      BY <2>6, <3>1, <3>2 DEF Ranges
    <3>4. r.start <= s.start
      BY <2>2
    <3>. QED  BY <2>7, <3>3, <3>4
  <2>. QED  BY <2>1, <2>3, <2>7, <2>8, <2>9
<1>15. \A i \in 0..n : i \in Upheld
  <2>. HIDE DEF Upheld
  <2>. QED  BY <1>1, <1>13, <1>14, Upward
<1>16. n \in 0..n
  BY <1>1
<1>17. Spaced(u[n].out) /\ \A l \in Nat : (\E r \in S : Covers(r, l)) <=> Covered(u[n].out, l)
  BY <1>6, <1>15, <1>16
<1>. QED  BY <1>6, <1>12, <1>16, <1>17

-----------------------------------------------------------------------------
(* Hunks *)

\* What git matched, it matched in order.
Rising == \A i, j \in DOMAIN work : i < j /\ work[i] # 0 /\ work[j] # 0 => work[i] < work[j]
WorkInv == work \in Seq(0..BaseLines) /\ Rising

LEMMA MatchedAre ==
  ASSUME WorkInv
  PROVE  /\ Len(work) \in Nat /\ Line = 1..Len(work) /\ DOMAIN work = Line
         /\ \A l \in Line : work[l] \in 0..BaseLines
         /\ Matched \subseteq 0..Len(work) + 1 /\ 0 \in Matched /\ Len(work) + 1 \in Matched
         /\ \A l \in Line : l \in Matched <=> work[l] # 0
         /\ \A l \in Matched : BaseLine(l) \in Nat
         /\ BaseLine(0) = 0 /\ BaseLine(Len(work) + 1) = BaseLines + 1
         /\ \A l \in Line : BaseLine(l) = work[l]
         /\ \A k, l \in Matched : k < l => BaseLine(k) < BaseLine(l)
<1>. DEFINE m == Len(work)
<1>1. m \in Nat /\ DOMAIN work = 1..m /\ \A l \in 1..m : work[l] \in 0..BaseLines
  <2>. DEFINE X == 0..BaseLines
  <2>1. work \in Seq(X)
    BY DEF WorkInv
  <2>. HIDE DEF X
  <2>2. m \in Nat /\ DOMAIN work = 1..m /\ \A l \in 1..m : work[l] \in X
    BY <2>1
  <2>. QED  BY <2>2 DEF X
<1>2. BaseLines \in Nat
  BY LinesParameters
<1>. HIDE DEF m
<1>3. \A l \in 1..m : l \in Nat /\ l # 0 /\ l <= m /\ ~ (l > m) /\ l # m + 1
  BY <1>1
<1>4. Line = 1..m /\ Matched = {0, m + 1} \cup {l \in 1..m : work[l] # 0}
  BY DEF Line, Matched, m
<1>5. \A l \in 1..m : BaseLine(l) = work[l]
  BY <1>3 DEF BaseLine, m
<1>6. BaseLine(0) = 0 /\ BaseLine(m + 1) = BaseLines + 1
  BY <1>1 DEF BaseLine, m
<1>7. \A l \in Matched : l = 0 \/ l = m + 1 \/ (l \in 1..m /\ work[l] # 0)
  BY <1>4
<1>8. ASSUME NEW k \in Matched, NEW l \in Matched, k < l PROVE BaseLine(k) < BaseLine(l)
  <2>1. CASE k = 0 /\ l = m + 1
    BY <1>2, <1>6, <2>1
  <2>2. CASE k = 0 /\ l \in 1..m /\ work[l] # 0
    <3>1. work[l] \in 0..BaseLines
      BY <1>1, <2>2
    <3>. QED  BY <1>2, <1>5, <1>6, <2>2, <3>1
  <2>3. CASE k \in 1..m /\ l = m + 1
    <3>1. work[k] \in 0..BaseLines
      BY <1>1, <2>3
    <3>. QED  BY <1>2, <1>5, <1>6, <2>3, <3>1
  <2>4. CASE k \in 1..m /\ work[k] # 0 /\ l \in 1..m /\ work[l] # 0
    <3>1. work[k] < work[l]
      BY <1>1, <1>8, <2>4 DEF WorkInv, Rising
    <3>. QED  BY <1>5, <2>4, <3>1
  <2>5. ~ (k = m + 1) /\ ~ (l = 0)
    BY <1>1, <1>3, <1>7, <1>8
  <2>. QED  BY <1>7, <2>1, <2>2, <2>3, <2>4, <2>5
<1>9. \A l \in Matched : BaseLine(l) \in Nat
  BY <1>1, <1>2, <1>5, <1>6, <1>7
<1>10. Matched \subseteq 0..m + 1 /\ 0 \in Matched /\ m + 1 \in Matched
       /\ \A l \in 1..m : l \in Matched <=> work[l] # 0
  <2>1. \A l \in 1..m : l \in 0..m + 1
    BY <1>1
  <2>2. 0 \in 0..m + 1 /\ m + 1 \in 0..m + 1
    BY <1>1
  <2>. QED  BY <1>3, <1>4, <1>7, <2>1, <2>2
<1>. QED  BY <1>1, <1>4, <1>5, <1>6, <1>8, <1>9, <1>10 DEF m

\* The lines a hunk between two matched ones stands for.
InGap(from, to, l) ==
  IF to = from + 1 THEN l = (IF from = 0 THEN 1 ELSE from) ELSE from < l /\ l < to

LEMMA HunkCovers ==
  ASSUME NEW from, NEW to, from \in Nat, to \in Nat, from < to
  PROVE  /\ ParseHunk(Hunk(from, to)) \in Ranges /\ Proper(ParseHunk(Hunk(from, to)))
         /\ \A l \in Nat : Covers(ParseHunk(Hunk(from, to)), l) <=> InGap(from, to, l)
<1>. DEFINE h == Hunk(from, to)
            r == ParseHunk(h)
            at == IF from = 0 THEN 1 ELSE from
<1>1. CASE to = from + 1
  <2>1. h.count = 0 /\ h.start = from
    BY <1>1 DEF Hunk
  <2>. HIDE DEF h
  <2>2. r = [start |-> at, end |-> at] /\ at \in Nat
    BY <2>1 DEF ParseHunk, LineRange
  <2>. HIDE DEF r, at
  <2>3. r \in Ranges /\ Proper(r)
    BY <2>2 DEF Ranges, Proper
  <2>4. \A l \in Nat : Covers(r, l) <=> l = at
    BY <2>2 DEF Covers
  <2>. QED  BY <1>1, <2>3, <2>4 DEF h, r, at, InGap
<1>2. CASE to # from + 1
  <2>1. h.count = to - from - 1 /\ h.count # 0 /\ h.start = from + 1
    BY <1>2 DEF Hunk
  <2>. HIDE DEF h
  <2>2. r = [start |-> from + 1, end |-> (from + 1) + (to - from - 1) - 1]
    BY <2>1 DEF ParseHunk, LineRange
  <2>3. (from + 1) + (to - from - 1) - 1 = to - 1 /\ to - 1 \in Nat /\ from + 1 <= to - 1
    BY <1>2
  <2>. HIDE DEF r
  <2>4. r \in Ranges /\ Proper(r)
    BY <2>2, <2>3 DEF Ranges, Proper
  <2>5. \A l \in Nat : Covers(r, l) <=> from < l /\ l < to
    BY <2>2, <2>3 DEF Covers
  <2>. QED  BY <1>2, <2>4, <2>5 DEF h, r, InGap
<1>. QED  BY <1>1, <1>2

LEMMA ChangedAre ==
  ASSUME WorkInv
  PROVE  /\ ChangedRanges \in Seq(Ranges) /\ Spaced(ChangedRanges)
         /\ \A l : l \in ChangedLine <=> l \in Nat /\ Covered(ChangedRanges, l)
         /\ \A l : l \in ChangedLine <=> l \in Nat /\ \E g \in Gaps : InGap(g[1], g[2], l)
         /\ \A g \in Gaps : \E l \in ChangedLine : InGap(g[1], g[2], l)
<1>. DEFINE range(g) == ParseHunk(Hunk(g[1], g[2]))
            S == {ParseHunk(h) : h \in DiffHunks}
            top == Len(work) + 1
<1>1. \A g \in Gaps : g[1] \in Nat /\ g[2] \in Nat /\ g[1] < g[2]
  BY MatchedAre DEF Gaps
<1>2. S = {range(g) : g \in Gaps}
  BY DEF DiffHunks
<1>. HIDE DEF S
<1>3. IsFiniteSet(S)
  <2>. DEFINE f == [g \in Gaps |-> range(g)]
              P == (0..top) \X (0..top)
  <2>1. f \in Surjection(Gaps, S)
    BY <1>2 DEF Surjection
  <2>2. top \in Int /\ Matched \subseteq 0..top
    BY MatchedAre
  <2>3. Gaps \subseteq P
    BY <2>2 DEF Gaps
  <2>. HIDE DEF f, top
  <2>4. IsFiniteSet(0..top)
    BY <2>2, FS_Interval
  <2>5. IsFiniteSet(P)
    BY <2>4, FS_Product
  <2>. HIDE DEF P
  <2>6. IsFiniteSet(Gaps)
    BY <2>3, <2>5, FS_Subset
  <2>. QED  BY <2>1, <2>6, FS_Surjection
<1>4. \A g \in Gaps : /\ range(g) \in Ranges /\ Proper(range(g))
                      /\ \A l \in Nat : Covers(range(g), l) <=> InGap(g[1], g[2], l)
  BY <1>1, HunkCovers
<1>. HIDE DEF range
<1>5. S \in SUBSET Ranges /\ \A r \in S : Proper(r)
  BY <1>2, <1>4
<1>6. ChangedRanges = MergeRanges(S)
  BY DEF ChangedRanges, S
<1>7. /\ ChangedRanges \in Seq(Ranges) /\ Spaced(ChangedRanges)
      /\ \A l \in Nat : Covered(ChangedRanges, l) <=> \E r \in S : Covers(r, l)
  BY <1>3, <1>5, <1>6, MergedAre
<1>8. \A l : l \in ChangedLine <=> l \in Nat /\ Covered(ChangedRanges, l)
  <2>1. \A i \in DOMAIN ChangedRanges : ChangedRanges[i].start \in Nat /\ ChangedRanges[i].end \in Nat
    <3>1. \A i \in DOMAIN ChangedRanges : ChangedRanges[i] \in Ranges
      BY <1>7
    <3>. QED  BY <3>1 DEF Ranges
  <2>2. \A l : l \in ChangedLine <=>
           \E i \in DOMAIN ChangedRanges : l \in ChangedRanges[i].start .. ChangedRanges[i].end
    BY DEF ChangedLine
  <2>3. ASSUME NEW i \in DOMAIN ChangedRanges, NEW l
        PROVE  l \in ChangedRanges[i].start .. ChangedRanges[i].end <=> l \in Nat /\ Covers(ChangedRanges[i], l)
    BY <2>1 DEF Covers
  <2>. QED  BY <2>2, <2>3 DEF Covered
<1>9. \A l \in Nat : (\E r \in S : Covers(r, l)) <=> \E g \in Gaps : InGap(g[1], g[2], l)
  BY <1>2, <1>4
<1>10. ASSUME NEW g \in Gaps PROVE \E l \in Nat : InGap(g[1], g[2], l)
  <2>1. g[1] \in Nat /\ g[2] \in Nat /\ g[1] < g[2]
    BY <1>1
  <2>2. CASE g[2] = g[1] + 1
    <3>. DEFINE at == IF g[1] = 0 THEN 1 ELSE g[1]
    <3>1. at \in Nat /\ InGap(g[1], g[2], at)
      BY <2>1, <2>2 DEF InGap
    <3>. QED  BY <3>1
  <2>3. CASE g[2] # g[1] + 1
    <3>1. g[1] + 1 \in Nat /\ InGap(g[1], g[2], g[1] + 1)
      BY <2>1, <2>3 DEF InGap
    <3>. QED  BY <3>1
  <2>. QED  BY <2>2, <2>3
<1>. QED  BY <1>7, <1>8, <1>9, <1>10

\* A line no hunk stands for was matched, with its neighbours.
LEMMA Surrounded ==
  ASSUME NEW l, WorkInv, l \in Line, work[l] = 0 PROVE l \in ChangedLine
<1>. DEFINE m == Len(work)
            above == {k \in Matched : k < l}
            below == {k \in Matched : l < k}
<1>1. /\ m \in Nat /\ l \in 1..m /\ Matched \subseteq 0..m + 1 /\ 0 \in Matched /\ m + 1 \in Matched
      /\ l \notin Matched
  BY MatchedAre
<1>. HIDE DEF m
<1>2. PICK from \in above : \A k \in above : k <= from
  <2>1. 0 \in above
    BY <1>1
  <2>. DEFINE shifted == {k + 1 : k \in above}
  <2>2. shifted \subseteq 1..m + 2 /\ shifted # {} /\ m + 2 \in Nat
    BY <1>1, <2>1
  <2>3. PICK a \in shifted : \A b \in shifted : b <= a
    <3>. HIDE DEF shifted
    <3>. QED  BY <2>2, GreatestOf
  <2>4. PICK k \in above : a = k + 1
    OBVIOUS
  <2>5. \A j \in above : j <= k
    <3>1. ASSUME NEW j \in above PROVE j <= k
      <4>1. j + 1 <= k + 1
        BY <2>3, <2>4
      <4>2. j \in Nat /\ k \in Nat
        BY <1>1
      <4>. HIDE DEF above
      <4>. QED  BY <4>1, <4>2
    <3>. QED  BY <3>1
  <2>. QED  BY <2>5
<1>3. PICK to \in below : \A k \in below : to <= k
  <2>1. m + 1 \in below
    BY <1>1
  <2>2. below \subseteq Nat /\ below # {}
    <3>1. 0..m + 1 \subseteq Nat
      BY <1>1
    <3>. QED  BY <1>1, <2>1, <3>1
  <2>. HIDE DEF below
  <2>. QED  BY <2>2, LeastOf
<1>4. from \in Nat /\ to \in Nat /\ from < l /\ l < to /\ from \in Matched /\ to \in Matched
  BY <1>1
<1>5. ASSUME NEW k \in Matched PROVE k <= from \/ to <= k
  <2>1. k \in Nat /\ k # l /\ l \in Nat
    BY <1>1
  <2>2. k < l \/ l < k
    BY <2>1
  <2>. QED  BY <1>2, <1>3, <2>2
<1>6. to - from > 1 /\ from < to /\ to # from + 1
  BY <1>1, <1>4
<1>7. <<from, to>> \in Gaps
  BY <1>4, <1>5, <1>6 DEF Gaps
<1>8. InGap(from, to, l) /\ l \in Nat
  BY <1>1, <1>4, <1>6 DEF InGap
<1>9. <<from, to>>[1] = from /\ <<from, to>>[2] = to
  OBVIOUS
<1>. QED  BY <1>7, <1>8, <1>9, ChangedAre

LEMMA SideBySide ==
  ASSUME NEW k, WorkInv, k \in Matched, k + 1 \in Matched, k \in Nat,
         (IF k = 0 THEN 1 ELSE k) \notin ChangedLine
  PROVE  BaseLine(k + 1) = BaseLine(k) + 1
<1>1. \A j \in Matched : j <= k \/ k + 1 <= j
  BY MatchedAre
<1>2. BaseLine(k) \in Nat /\ BaseLine(k + 1) \in Nat /\ BaseLine(k) < BaseLine(k + 1)
  <2>1. k < k + 1
    OBVIOUS
  <2>. QED  BY <2>1, MatchedAre
<1>3. ASSUME BaseLine(k + 1) - BaseLine(k) > 1 PROVE FALSE
  <2>. DEFINE g == <<k, k + 1>>
              at == IF k = 0 THEN 1 ELSE k
  <2>1. g \in Matched \X Matched /\ g[1] = k /\ g[2] = k + 1
    OBVIOUS
  <2>. HIDE DEF g
  <2>2. g \in Gaps
    BY <1>1, <1>3, <2>1 DEF Gaps
  <2>3. at \in Nat /\ InGap(g[1], g[2], at)
    BY <2>1 DEF InGap
  <2>. QED  BY <2>2, <2>3, ChangedAre
<1>. QED  BY <1>2, <1>3

LEMMA LinesOutsideAreKeptNow == ASSUME WorkInv PROVE LinesOutsideAreKept
<1>. DEFINE m == Len(work)
<1>0. m \in Nat /\ Line = 1..m
  BY MatchedAre
<1>. SUFFICES ASSUME NEW l \in Line, l \notin ChangedLine
              PROVE  /\ work[l] # 0
                     /\ l = 1 => work[l] = 1
                     /\ l = Len(work) => work[l] = BaseLines
                     /\ l < Len(work) /\ work[l + 1] # 0 => work[l + 1] = work[l] + 1
  BY DEF LinesOutsideAreKept
<1>1. work[l] # 0
  BY Surrounded
<1>2. l \in Matched /\ l \in 1..m /\ l \in Nat /\ l # 0 /\ BaseLine(l) = work[l]
  BY <1>0, <1>1, MatchedAre
<1>3. ASSUME l = 1 PROVE work[l] = 1
  <2>1. 0 \in Matched /\ 0 + 1 \in Matched /\ 0 + 1 = 1
    BY <1>2, <1>3, MatchedAre
  <2>2. BaseLine(0 + 1) = BaseLine(0) + 1
    BY <1>3, <2>1, SideBySide
  <2>3. BaseLine(0) = 0
    BY MatchedAre
  <2>. QED  BY <1>2, <1>3, <2>1, <2>2, <2>3
<1>4. ASSUME l = m PROVE work[l] = BaseLines
  <2>1. l + 1 \in Matched /\ BaseLine(l + 1) = BaseLines + 1
    BY <1>4, MatchedAre
  <2>2. BaseLine(l + 1) = BaseLine(l) + 1
    BY <1>2, <2>1, SideBySide
  <2>3. work[l] \in Nat /\ BaseLines \in Nat
    BY LinesParameters, MatchedAre
  <2>. QED  BY <1>2, <2>1, <2>2, <2>3
<1>5. ASSUME l < m, work[l + 1] # 0 PROVE work[l + 1] = work[l] + 1
  <2>1. l + 1 \in Line
    BY <1>0, <1>2, <1>5
  <2>2. l + 1 \in Matched /\ BaseLine(l + 1) = work[l + 1]
    BY <1>5, <2>1, MatchedAre
  <2>3. BaseLine(l + 1) = BaseLine(l) + 1
    BY <1>2, <2>2, SideBySide
  <2>. QED  BY <1>2, <2>2, <2>3
<1>. QED  BY <1>1, <1>3, <1>4, <1>5

LEMMA RangesAreTightNow == ASSUME WorkInv PROVE RangesAreTight
<1>. DEFINE m == Len(work)
<1>0. m \in Nat /\ Line = 1..m
  BY MatchedAre
<1>1. ASSUME NEW l \in ChangedLine
      PROVE  /\ l \in Line \/ l = 1
             /\ l \in Line => work[l] = 0 \/ BaseLine(l + 1) # work[l] + 1 \/ (l = 1 /\ work[l] # 1)
  <2>1. PICK g \in Gaps : InGap(g[1], g[2], l)
    BY ChangedAre
  <2>2. l \in Nat
    BY ChangedAre
  <2>. DEFINE from == g[1]
              to == g[2]
  <2>3. /\ from \in Matched /\ to \in Matched /\ from < to
        /\ \A k \in Matched : k <= from \/ to <= k
        /\ to - from > 1 \/ BaseLine(to) - BaseLine(from) > 1
        /\ InGap(from, to, l)
    BY <2>1 DEF Gaps
  <2>. HIDE DEF from, to, m
  <2>4. from \in 0..m + 1 /\ to \in 0..m + 1
    BY <2>3, MatchedAre DEF m
  <2>5. CASE to = from + 1
    <3>1. l = (IF from = 0 THEN 1 ELSE from) /\ BaseLine(to) - BaseLine(from) > 1
      BY <2>3, <2>4, <2>5 DEF InGap
    <3>2. l \in Line \/ l = 1
      BY <1>0, <2>3, <2>4, <2>5, <3>1
    <3>3. ASSUME l \in Line
          PROVE  work[l] = 0 \/ BaseLine(l + 1) # work[l] + 1 \/ (l = 1 /\ work[l] # 1)
      <4>1. BaseLine(l) = work[l] /\ BaseLine(0) = 0 /\ work[l] \in 0..BaseLines /\ BaseLines \in Nat
        BY <3>3, LinesParameters, MatchedAre
      <4>2. CASE from = 0
        BY <2>5, <3>1, <4>1, <4>2
      <4>3. CASE from # 0
        <5>1. l = from /\ l + 1 = to
          BY <2>5, <3>1, <4>3
        <5>. QED  BY <3>1, <4>1, <5>1
      <4>. QED  BY <4>2, <4>3
    <3>. QED  BY <3>2, <3>3
  <2>6. CASE to # from + 1
    <3>1. from < l /\ l < to
      BY <2>3, <2>6 DEF InGap
    <3>2. l \in Line
      BY <1>0, <2>2, <2>4, <3>1
    <3>3. l \notin Matched
      BY <2>2, <2>3, <2>4, <3>1
    <3>4. work[l] = 0
      BY <3>2, <3>3, MatchedAre
    <3>. QED  BY <3>2, <3>4
  <2>. QED  BY <2>5, <2>6
<1>2. \A i \in 1..Len(ChangedRanges) - 1 : ChangedRanges[i].end + 1 < ChangedRanges[i + 1].start
  BY ChangedAre DEF Spaced
<1>. QED  BY <1>1, <1>2 DEF RangesAreTight

-----------------------------------------------------------------------------
(* Owners *)

\* The nodes, once scanned.
DefsInv ==
  /\ IsFiniteSet(DOMAIN defs) /\ DOMAIN defs \subseteq Defs
  /\ \A id \in DOMAIN defs : defs[id] \in Ranges /\ defs[id].end \in 1..Len(work)
  /\ ~ scanned => DOMAIN defs = {}

LEMMA PaintOrder ==
  ASSUME DefsInv
  PROVE  /\ \A a, b \in DOMAIN defs : a # b => OuterFirst(a, b) \/ OuterFirst(b, a)
         /\ \A a, b \in DOMAIN defs : ~ (OuterFirst(a, b) /\ OuterFirst(b, a))
         /\ \A a, b, c \in DOMAIN defs : OuterFirst(a, b) /\ OuterFirst(b, c) => OuterFirst(a, c)
<1>1. \A id \in DOMAIN defs : /\ id \in Nat /\ defs[id].start \in Nat /\ defs[id].end \in Nat
                             /\ defs[id] = [start |-> defs[id].start, end |-> defs[id].end]
  BY LinesParameters DEF DefsInv, Ranges
<1>2. \A a, b \in DOMAIN defs :
        defs[a] = defs[b] <=> defs[a].start = defs[b].start /\ defs[a].end = defs[b].end
  BY <1>1
<1>3. \A a, b \in DOMAIN defs :
        OuterFirst(a, b) <=>
          \/ defs[a].start < defs[b].start
          \/ defs[a].start = defs[b].start /\ defs[a].end > defs[b].end
          \/ defs[a].start = defs[b].start /\ defs[a].end = defs[b].end /\ a < b
  BY <1>2 DEF OuterFirst
<1>4. ASSUME NEW a \in DOMAIN defs, NEW b \in DOMAIN defs, a # b PROVE OuterFirst(a, b) \/ OuterFirst(b, a)
  BY <1>1, <1>3, <1>4
<1>5. ASSUME NEW a \in DOMAIN defs, NEW b \in DOMAIN defs PROVE ~ (OuterFirst(a, b) /\ OuterFirst(b, a))
  BY <1>1, <1>3
<1>6. ASSUME NEW a \in DOMAIN defs, NEW b \in DOMAIN defs, NEW c \in DOMAIN defs,
             OuterFirst(a, b), OuterFirst(b, c)
      PROVE  OuterFirst(a, c)
  BY <1>1, <1>3, <1>6
<1>. QED  BY <1>4, <1>5, <1>6

\* Some nodes have an outermost.
LEMMA OutermostIs ==
  ASSUME NEW T, WorkInv, DefsInv, T \subseteq DOMAIN defs, T # {}
  PROVE  /\ Outermost(T) \in T
         /\ \A id \in T \ {Outermost(T)} : OuterFirst(Outermost(T), id)
<1>1. \A id \in T : id \in Nat /\ defs[id] \in Ranges /\ defs[id].start \in Nat /\ defs[id].end \in Nat
  BY LinesParameters DEF DefsInv, Ranges
<1>2. PICK a \in T : \A b \in T : defs[a].start <= defs[b].start
  <2>. DEFINE starts == {defs[id].start : id \in T}
  <2>1. starts \subseteq Nat /\ starts # {}
    BY <1>1
  <2>2. PICK k \in starts : \A j \in starts : k <= j
    <3>. HIDE DEF starts
    <3>. QED  BY <2>1, LeastOf
  <2>. QED  BY <2>2
<1>. DEFINE T2 == {id \in T : defs[id].start = defs[a].start}
            ends == {defs[id].end : id \in T2}
<1>3. PICK b \in T2 : \A c \in T2 : defs[c].end <= defs[b].end
  <2>1. ends \subseteq 1..Len(work) /\ ends # {} /\ Len(work) \in Nat
    BY MatchedAre DEF DefsInv
  <2>2. PICK k \in ends : \A j \in ends : j <= k
    <3>. HIDE DEF ends
    <3>. QED  BY <2>1, GreatestOf
  <2>. QED  BY <2>2
<1>. DEFINE T3 == {id \in T2 : defs[id].end = defs[b].end}
<1>4. PICK c \in T3 : \A d \in T3 : c <= d
  <2>1. T3 \subseteq Nat /\ T3 # {}
    BY <1>1, <1>3
  <2>. HIDE DEF T3
  <2>. QED  BY <2>1, LeastOf
<1>5. ASSUME NEW id \in T, id # c PROVE OuterFirst(c, id)
  <2>1. /\ defs[c].start \in Nat /\ defs[c].end \in Nat /\ c \in Nat /\ c \in T
        /\ defs[id].start \in Nat /\ defs[id].end \in Nat /\ id \in Nat
    BY <1>1
  <2>2. /\ defs[c].start <= defs[id].start
        /\ defs[c].start = defs[id].start => defs[id].end <= defs[c].end
        /\ defs[c].start = defs[id].start /\ defs[c].end = defs[id].end => c <= id
    BY <1>2, <1>3, <1>4
  <2>3. defs[c].start = defs[id].start /\ defs[c].end = defs[id].end => defs[c] = defs[id]
    <3>1. defs[c] \in Ranges /\ defs[id] \in Ranges
      BY <1>1
    <3>. QED  BY <3>1 DEF Ranges
  <2>. QED  BY <1>5, <2>1, <2>2, <2>3 DEF OuterFirst
<1>6. c \in T
  OBVIOUS
<1>. HIDE DEF T2, T3, ends
<1>. QED  BY <1>5, <1>6 DEF Outermost

\* The last to be painted of the ids that have the line.
IsOwner(o, l, ids) ==
  \/ o = Module /\ \A id \in ids : ~ Spans(id, l)
  \/ o \in ids /\ Spans(o, l) /\ \A id \in ids \ {o} : Spans(id, l) => OuterFirst(id, o)

LEMMA OwnersAre ==
  ASSUME WorkInv, DefsInv
  PROVE  \A l \in 1..MaxLine : IsOwner(Owners[l], l, DOMAIN defs)
<1>. DEFINE D == DOMAIN defs
            L == 1..MaxLine
            n == Cardinality(D)
            V == [L -> D \cup {Module}]
            bare == [l \in L |-> Module]
            pick == [T \in SUBSET D |-> Outermost(T)]
            next == [y \in V \X D |-> Paint(y[1], y[2])]
            Next2(x) == LET id == Outermost(x.left)
                        IN  [out |-> Paint(x.out, id), left |-> x.left \ {id}]
            Defines(f) == f = [i \in 0..n |->
                                 IF i = 0 THEN [out |-> [l \in 1..MaxLine |-> Module], left |-> DOMAIN defs]
                                 ELSE LET prev == f[i - 1]
                                          id == Outermost(prev.left)
                                      IN  [out |-> Paint(prev.out, id), left |-> prev.left \ {id}]]
<1>1. IsFiniteSet(D) /\ n \in Nat
  BY FS_CardinalityType DEF DefsInv
<1>2. ASSUME NEW T \in SUBSET D, T # {}
      PROVE  Outermost(T) \in T /\ \A id \in T \ {Outermost(T)} : OuterFirst(Outermost(T), id)
  BY <1>2, OutermostIs
<1>3. Picks(pick, D)
  BY <1>2 DEF Picks
<1>4. ASSUME NEW own \in V, NEW id \in D
      PROVE  Paint(own, id) \in V /\ \A l \in L : Paint(own, id)[l] = IF Spans(id, l) THEN id ELSE own[l]
  <2>. HIDE DEF L, D
  <2>. QED  BY DEF Paint
<1>. HIDE DEF V
<1>5. next \in [V \X D -> V]
  BY <1>4
<1>6. bare \in V
  BY DEF V
<1>. HIDE DEF n, D, L
<1>7. PICK u : TakesTurns(u, n, D, V, bare, pick, next)
  <2>. HIDE DEF pick, next, bare
  <2>. QED  BY <1>1, <1>3, <1>5, <1>6, TurnsAreTaken DEF n
<1>8. /\ u \in [0..n -> [out : V, left : SUBSET D]]
      /\ u[0] = [out |-> bare, left |-> D]
      /\ \A i \in 1..n : u[i - 1].left # {} /\ u[i] = Turn(u[i - 1], pick, next)
      /\ u[n].left = {}
  BY <1>7 DEF TakesTurns
<1>9. \A i \in 1..n : /\ i - 1 \in 0..n /\ i \in 0..n /\ i # 0
                      /\ u[i - 1].out \in V /\ u[i - 1].left \in SUBSET D
  <2>1. \A i \in 1..n : i - 1 \in 0..n /\ i \in 0..n /\ i # 0
    BY <1>1
  <2>. QED  BY <1>8, <2>1
<1>10. \A i \in 1..n : u[i] = Next2(u[i - 1])
  <2>1. ASSUME NEW i \in 1..n PROVE u[i] = Next2(u[i - 1])
    <3>. DEFINE x == u[i - 1]
    <3>1. x.out \in V /\ x.left \in SUBSET D /\ x.left # {}
      BY <1>8, <1>9
    <3>. HIDE DEF x
    <3>2. pick[x.left] = Outermost(x.left) /\ Outermost(x.left) \in D
      BY <1>2, <3>1
    <3>3. next[<<x.out, Outermost(x.left)>>] = Paint(x.out, Outermost(x.left))
      BY <3>1, <3>2
    <3>4. u[i] = Turn(x, pick, next)
      BY <1>8 DEF x
    <3>. HIDE DEF pick, next
    <3>. QED  BY <3>2, <3>3, <3>4 DEF Turn, x
  <2>. QED  BY <2>1
<1>. HIDE DEF pick, next
<1>11. Defines(u)
  <2>1. \A i \in 0..n : i # 0 => i \in 1..n
    BY <1>1
  <2>2. u[0] = [out |-> [l \in 1..MaxLine |-> Module], left |-> DOMAIN defs]
    BY <1>8 DEF L, D
  <2>3. \A i \in 0..n : u[i] = IF i = 0 THEN [out |-> [l \in 1..MaxLine |-> Module], left |-> DOMAIN defs]
                               ELSE Next2(u[i - 1])
    <3>. HIDE DEF Next2
    <3>. QED  BY <1>10, <2>1, <2>2
  <2>4. u = [i \in 0..n |-> u[i]]
    BY <1>8
  <2>. QED  BY <2>3, <2>4
<1>12. ASSUME NEW f, Defines(f) PROVE f = u
  <2>1. f[0] = u[0] /\ \A i \in 1..n : f[i] = Next2(f[i - 1])
    <3>1. 0 \in 0..n
      BY <1>1
    <3>. QED  BY <1>9, <1>11, <1>12, <3>1
  <2>. HIDE DEF Next2
  <2>2. StepAlike(f, u, n)
    BY <1>10, <2>1 DEF StepAlike
  <2>3. \A i \in 0..n : f[i] = u[i]
    BY <1>1, <2>2, StepsAgree DEF SameUpTo
  <2>4. f = [i \in 0..n |-> f[i]] /\ u = [i \in 0..n |-> u[i]]
    BY <1>8, <1>12
  <2>. QED  BY <2>3, <2>4
<1>13. u = CHOOSE f : Defines(f)
  <2>. HIDE DEF Defines
  <2>. QED  BY <1>11, <1>12
<1>14. Owners = u[n].out
  BY <1>13 DEF Owners, n, D
<1>. HIDE DEF Defines
<1>. DEFINE Painted(x) == /\ \A l \in L : IsOwner(x.out[l], l, D \ x.left)
                          /\ \A a \in D \ x.left, b \in x.left : OuterFirst(a, b)
            Upheld == {i \in 0..n : Painted(u[i])}
<1>15. 0 \in Upheld
  <2>1. 0 \in 0..n /\ D \ D = {}
    BY <1>1
  <2>2. \A l \in L : IsOwner(bare[l], l, {})
    BY DEF IsOwner
  <2>3. u[0].out = bare /\ u[0].left = D
    BY <1>8
  <2>. HIDE DEF bare
  <2>4. Painted(u[0])
    BY <2>1, <2>2, <2>3
  <2>. HIDE DEF Painted
  <2>. QED  BY <2>1, <2>4
<1>16. ASSUME NEW i \in 1..n, i - 1 \in Upheld PROVE i \in Upheld
  <2>. DEFINE T == u[i - 1].left
              own == u[i - 1].out
              id == Outermost(T)
  <2>1. own \in V /\ T \in SUBSET D /\ T # {} /\ i \in 0..n
    BY <1>8, <1>9
  <2>2. id \in T /\ id \in D /\ \A b \in T \ {id} : OuterFirst(id, b)
    BY <1>2, <2>1
  <2>3. u[i].out = Paint(own, id) /\ u[i].left = T \ {id}
    <3>1. u[i] = Next2(u[i - 1])
      BY <1>10
    <3>. QED  BY <3>1
  <2>4. Painted(u[i - 1])
    BY <1>16
  <2>5. (\A l \in L : IsOwner(own[l], l, D \ T)) /\ \A a \in D \ T, b \in T : OuterFirst(a, b)
    BY <2>4
  <2>. HIDE DEF id, T, own
  <2>6. \A l \in L : Paint(own, id)[l] = IF Spans(id, l) THEN id ELSE own[l]
    BY <1>4, <2>1, <2>2
  <2>7. D \ (T \ {id}) = (D \ T) \cup {id}
    BY <2>2
  <2>8. ASSUME NEW l \in L PROVE IsOwner(Paint(own, id)[l], l, (D \ T) \cup {id})
    <3>1. CASE Spans(id, l)
      BY <2>2, <2>5, <2>6, <3>1 DEF IsOwner
    <3>2. CASE ~ Spans(id, l)
      <4>1. IsOwner(own[l], l, D \ T) /\ Paint(own, id)[l] = own[l]
        BY <2>5, <2>6, <3>2
      <4>. QED  BY <3>2, <4>1 DEF IsOwner
    <3>. QED  BY <3>1, <3>2
  <2>9. \A a \in (D \ T) \cup {id}, b \in T \ {id} : OuterFirst(a, b)
    BY <2>2, <2>5
  <2>10. Painted(u[i])
    BY <2>3, <2>7, <2>8, <2>9
  <2>. HIDE DEF Painted
  <2>. QED  BY <2>1, <2>10
<1>17. \A i \in 0..n : i \in Upheld
  <2>. HIDE DEF Upheld
  <2>. QED  BY <1>1, <1>15, <1>16, Upward
<1>18. n \in 0..n /\ D \ {} = D
  BY <1>1
<1>19. Painted(u[n])
  <2>. HIDE DEF Painted
  <2>. QED  BY <1>17, <1>18
<1>. QED  BY <1>8, <1>14, <1>18, <1>19 DEF L, D

LEMMA OwnerIs ==
  ASSUME NEW l, NEW o, DefsInv, IsOwner(o, l, DOMAIN defs) PROVE Owner(l) = o
<1>. DEFINE containing == {id \in DOMAIN defs : Spans(id, l)}
<1>0. \A id \in DOMAIN defs : id # Module
  BY LinesParameters DEF DefsInv, Module
<1>1. CASE containing = {}
  <2>1. o = Module
    BY <1>1 DEF IsOwner
  <2>. QED  BY <1>1, <2>1 DEF Owner
<1>2. CASE containing # {}
  <2>1. o \in containing /\ \A id \in containing \ {o} : OuterFirst(id, o)
    BY <1>2 DEF IsOwner
  <2>2. \A a \in containing, b \in containing : ~ (OuterFirst(a, b) /\ OuterFirst(b, a))
    BY PaintOrder
  <2>3. Owner(l) = CHOOSE id \in containing : \A other \in containing \ {id} : OuterFirst(other, id)
    BY <1>2 DEF Owner
  <2>. HIDE DEF containing
  <2>. QED  BY <2>1, <2>2, <2>3
<1>. QED  BY <1>1, <1>2

\* Each changed line is among those that are painted.
LEMMA ChangedIsPainted ==
  ASSUME NEW l, WorkInv, l \in ChangedLine PROVE l \in 1..MaxLine
<1>. DEFINE out == ChangedRanges
            n == Len(out)
<1>1. out \in Seq(Ranges) /\ Spaced(out) /\ l \in Nat
  BY ChangedAre
<1>2. PICK i \in DOMAIN out : Covers(out[i], l)
  BY ChangedAre DEF Covered
<1>. HIDE DEF out
<1>3. n \in Nat /\ DOMAIN out = 1..n /\ n # 0 /\ out # <<>>
      /\ \A k \in 1..n : out[k].start \in Nat /\ out[k].end \in Nat
  <2>1. n \in Nat /\ DOMAIN out = 1..n /\ \A k \in 1..n : out[k] \in Ranges
    BY <1>1
  <2>2. 1..n # {}
    BY <1>2, <2>1
  <2>3. n # 0
    BY <2>2
  <2>. QED  BY <1>2, <2>1, <2>3 DEF Ranges
<1>4. /\ \A k \in 1..n : out[k].start <= out[k].end
      /\ \A k \in 1..n - 1 : out[k].end + 1 < out[k + 1].start
  BY <1>1, <1>3 DEF Spaced, Proper
<1>. HIDE DEF n
<1>. DEFINE Upheld == {k \in 0..n - 1 : \A j \in 1..k + 1 : out[j].end <= out[k + 1].end}
<1>5. 0 \in Upheld
  <2>1. out[1].end \in Nat /\ 0 \in 0..n - 1 /\ 1..0 + 1 = {1} /\ 0 + 1 = 1
    BY <1>3
  <2>. QED  BY <2>1
<1>6. ASSUME NEW k \in 1..n - 1, k - 1 \in Upheld PROVE k \in Upheld
  <2>1. \A j \in 1..k : out[j].end <= out[k].end
    <3>1. (k - 1) + 1 = k
      OBVIOUS
    <3>. QED  BY <1>6, <3>1
  <2>2. k \in 1..n /\ k + 1 \in 1..n /\ k \in 0..n - 1
    BY <1>3
  <2>3. out[k].end <= out[k + 1].end /\ out[k + 1].end \in Nat /\ out[k].end \in Nat
    <3>1. out[k].end + 1 < out[k + 1].start /\ out[k + 1].start <= out[k + 1].end
      BY <1>4, <2>2
    <3>2. out[k].end \in Nat /\ out[k + 1].start \in Nat /\ out[k + 1].end \in Nat
      BY <1>3, <2>2
    <3>. QED  BY <3>1, <3>2
  <2>4. ASSUME NEW j \in 1..k + 1 PROVE out[j].end <= out[k + 1].end
    <3>1. CASE j = k + 1
      BY <2>3, <3>1
    <3>2. CASE j # k + 1
      <4>1. j \in 1..k /\ j \in 1..n
        BY <1>3, <2>2, <3>2
      <4>2. out[j].end <= out[k].end /\ out[j].end \in Nat
        BY <1>3, <2>1, <4>1
      <4>. QED  BY <2>3, <4>2
    <3>. QED  BY <3>1, <3>2
  <2>. QED  BY <2>2, <2>4
<1>7. n - 1 \in Nat /\ (n - 1) + 1 = n /\ n - 1 \in 0..n - 1
  BY <1>3
<1>8. \A k \in 0..n - 1 : k \in Upheld
  <2>. HIDE DEF Upheld
  <2>. QED  BY <1>5, <1>6, <1>7, Upward
<1>9. out[i].end <= out[n].end /\ i \in 1..n /\ n \in 1..n
  <2>1. n - 1 \in Upheld
    BY <1>7, <1>8
  <2>. QED  BY <1>2, <1>3, <1>7, <2>1
<1>10. MaxLine = out[n].end
  BY <1>3 DEF MaxLine, out, n
<1>11. l <= out[n].end
  BY <1>1, <1>2, <1>3, <1>9 DEF Covers
<1>12. 1 <= l
  <2>1. l \in Line \cup {1}
    BY RangesAreTightNow DEF RangesAreTight
  <2>. QED  BY <2>1, MatchedAre
<1>. QED  BY <1>1, <1>3, <1>9, <1>10, <1>11, <1>12

LEMMA OwnedAre ==
  ASSUME NEW l, WorkInv, DefsInv, l \in ChangedLine
  PROVE  IsOwner(Owners[l], l, DOMAIN defs) /\ Owner(l) = Owners[l]
<1>1. IsOwner(Owners[l], l, DOMAIN defs)
  BY OwnersAre, ChangedIsPainted
<1>. QED  BY <1>1, OwnerIs

LEMMA OneOwnerNow == ASSUME WorkInv, DefsInv PROVE OneOwner
<1>. SUFFICES ASSUME NEW l \in ChangedLine
              PROVE  /\ Owners[l] = Owner(l)
                     /\ \A id \in DOMAIN defs : Spans(id, l) =>
                          /\ Owners[l] # Module
                          /\ defs[Owners[l]].start <= defs[id].start /\ defs[id].end <= defs[Owners[l]].end
                               => defs[Owners[l]] = defs[id]
  BY DEF OneOwner
<1>1. IsOwner(Owners[l], l, DOMAIN defs) /\ Owner(l) = Owners[l]
  BY OwnedAre
<1>. DEFINE o == Owners[l]
<1>2. ASSUME NEW id \in DOMAIN defs, Spans(id, l)
      PROVE  o # Module /\ (defs[o].start <= defs[id].start /\ defs[id].end <= defs[o].end => defs[o] = defs[id])
  <2>. HIDE DEF o
  <2>1. o \in DOMAIN defs /\ (id # o => OuterFirst(id, o))
    BY <1>1, <1>2 DEF IsOwner, o
  <2>2. o # Module
    BY <2>1, LinesParameters DEF DefsInv, Module
  <2>3. /\ defs[o].start \in Nat /\ defs[o].end \in Nat
        /\ defs[id].start \in Nat /\ defs[id].end \in Nat
    BY <2>1 DEF DefsInv, Ranges
  <2>. QED  BY <2>1, <2>2, <2>3 DEF OuterFirst
<1>. QED  BY <1>1, <1>2

\* Without a changed line the file is the base.
LEMMA UnchangedIsBase ==
  ASSUME WorkInv PROVE ChangedLine = {} <=> work = [l \in 1..BaseLines |-> l]
<1>. DEFINE m == Len(work)
<1>0. /\ m \in Nat /\ Line = 1..m /\ DOMAIN work = 1..m /\ BaseLines \in Nat
      /\ \A l \in 1..m : work[l] \in 0..BaseLines
  BY MatchedAre, LinesParameters
<1>00. work = [l \in 1..m |-> work[l]]
  <2>. DEFINE X == 0..BaseLines
  <2>1. work \in Seq(X)
    BY DEF WorkInv
  <2>. HIDE DEF X
  <2>. QED  BY <2>1
<1>. HIDE DEF m
<1>1. ASSUME ChangedLine = {} PROVE work = [l \in 1..BaseLines |-> l]
  <2>1. \A l \in 1..m : /\ work[l] # 0
                        /\ l = 1 => work[l] = 1
                        /\ l = m => work[l] = BaseLines
                        /\ l < m /\ work[l + 1] # 0 => work[l + 1] = work[l] + 1
    BY <1>0, <1>1, LinesOutsideAreKeptNow DEF LinesOutsideAreKept, m
  <2>. DEFINE Upheld == {k \in 0..m : k # 0 => work[k] = k}
  <2>2. 0 \in Upheld
    BY <1>0
  <2>3. ASSUME NEW k \in 1..m, k - 1 \in Upheld PROVE k \in Upheld
    <3>1. CASE k = 1
      BY <1>0, <2>1, <3>1
    <3>2. CASE k # 1
      <4>1. k - 1 \in 1..m /\ k - 1 < m /\ (k - 1) + 1 = k /\ k - 1 # 0 /\ k \in 0..m
        BY <1>0, <3>2
      <4>2. work[k - 1] = k - 1 /\ work[k] # 0
        BY <2>1, <2>3, <4>1
      <4>3. work[k] = work[k - 1] + 1
        BY <2>1, <4>1, <4>2
      <4>. QED  BY <4>1, <4>2, <4>3
    <3>. QED  BY <3>1, <3>2
  <2>4. \A k \in 0..m : k \in Upheld
    <3>. HIDE DEF Upheld
    <3>. QED  BY <1>0, <2>2, <2>3, Upward
  <2>5. \A k \in 1..m : work[k] = k
    <3>1. \A k \in 1..m : k \in 0..m /\ k # 0
      BY <1>0
    <3>. QED  BY <2>4, <3>1
  <2>6. m = BaseLines
    <3>1. CASE m # 0
      <4>1. m \in 1..m
        BY <1>0, <3>1
      <4>. QED  BY <2>1, <2>5, <4>1
    <3>2. CASE m = 0
      <4>1. 0 \in Matched /\ 0 + 1 \in Matched /\ BaseLine(0) = 0 /\ BaseLine(0 + 1) = BaseLines + 1
        BY <3>2, MatchedAre DEF m
      <4>2. BaseLine(0 + 1) = BaseLine(0) + 1
        BY <1>1, <4>1, SideBySide
      <4>. QED  BY <1>0, <3>2, <4>1, <4>2
    <3>. QED  BY <3>1, <3>2
  <2>. QED  BY <1>00, <2>5, <2>6
<1>2. ASSUME work = [l \in 1..BaseLines |-> l], NEW g \in Gaps PROVE FALSE
  <2>1. m = BaseLines
    BY <1>0, <1>2 DEF m
  <2>. DEFINE from == g[1]
              to == g[2]
  <2>2. /\ from \in Matched /\ to \in Matched /\ from < to
        /\ \A k \in Matched : k <= from \/ to <= k
        /\ to - from > 1 \/ BaseLine(to) - BaseLine(from) > 1
    BY DEF Gaps
  <2>. HIDE DEF from, to
  <2>3. \A l \in 1..m : work[l] = l /\ l # 0
    BY <1>0, <1>2, <2>1
  <2>4. \A l \in 0..m + 1 : l \in 1..m \/ l = 0 \/ l = m + 1
    BY <1>0
  <2>5. \A l \in 0..m + 1 : l \in Matched /\ BaseLine(l) = l
    <3>1. \A l \in 1..m : l \in Matched /\ BaseLine(l) = l
      BY <1>0, <2>3, MatchedAre
    <3>2. 0 \in Matched /\ m + 1 \in Matched /\ BaseLine(0) = 0 /\ BaseLine(m + 1) = m + 1
      BY <2>1, MatchedAre DEF m
    <3>. QED  BY <2>4, <3>1, <3>2
  <2>6. from \in 0..m + 1 /\ to \in 0..m + 1
    BY <2>2, MatchedAre DEF m
  <2>7. from + 1 \in 0..m + 1
    BY <1>0, <2>2, <2>6
  <2>8. to <= from + 1
    <3>1. from + 1 <= from \/ to <= from + 1
      BY <2>2, <2>5, <2>7
    <3>. QED  BY <2>6, <3>1
  <2>9. BaseLine(to) = to /\ BaseLine(from) = from
    BY <2>5, <2>6
  <2>10. to - from > 1
    BY <2>2, <2>9
  <2>. QED  BY <2>6, <2>8, <2>10
<1>3. ASSUME work = [l \in 1..BaseLines |-> l] PROVE ChangedLine = {}
  BY <1>2, <1>3, ChangedAre
<1>. QED  BY <1>1, <1>3

LEMMA OtherDefsAreVerbatimNow == ASSUME WorkInv, DefsInv PROVE OtherDefsAreVerbatim
<1>1. ChangedNodes = {} <=> ChangedLine = {}
  BY DEF ChangedNodes
<1>2. work # [l \in 1..BaseLines |-> l] <=> ChangedNodes # {}
  BY <1>1, UnchangedIsBase
<1>3. ASSUME NEW id \in DOMAIN defs, id \notin ChangedNodes, NEW l \in Line, Owner(l) = id
      PROVE  l \notin ChangedLine
  <2>1. ASSUME l \in ChangedLine PROVE id \in ChangedNodes
    <3>1. Owners[l] = id
      BY <1>3, <2>1, OwnedAre
    <3>. QED  BY <2>1, <3>1 DEF ChangedNodes
  <2>. QED  BY <1>3, <2>1
<1>4. ASSUME NEW id \in DOMAIN defs, id \notin ChangedNodes, NEW l \in Line, Owner(l) = id
      PROVE  work[l] # 0 /\ (l + 1 \in Line /\ Owner(l + 1) = id => work[l + 1] = work[l] + 1)
  <2>1. l \notin ChangedLine /\ work[l] # 0
    BY <1>3, <1>4, Surrounded
  <2>2. ASSUME l + 1 \in Line, Owner(l + 1) = id PROVE work[l + 1] = work[l] + 1
    <3>1. work[l + 1] # 0
      BY <1>3, <1>4, <2>2, Surrounded
    <3>2. l < Len(work)
      BY <2>2, MatchedAre
    <3>. QED  BY <2>1, <3>1, <3>2, LinesOutsideAreKeptNow DEF LinesOutsideAreKept
  <2>. QED  BY <2>1, <2>2
<1>5. ASSUME NEW id \in DOMAIN defs \ ChangedNodes, NEW l \in {k \in Line : Owner(k) = id}
      PROVE  work[l] # 0 /\ (l + 1 \in {k \in Line : Owner(k) = id} => work[l + 1] = work[l] + 1)
  BY <1>4
<1>. QED  BY <1>2, <1>5 DEF OtherDefsAreVerbatim

-----------------------------------------------------------------------------
(* Steps *)

LEMMA LinesStart == ASSUME LinesInit PROVE WorkInv /\ DefsInv
<1>1. BaseLines \in Nat /\ work = [l \in 1..BaseLines |-> l] /\ defs = <<>>
  BY LinesParameters DEF LinesInit
<1>2. WorkInv
  <2>. DEFINE X == 0..BaseLines
  <2>1. \A l \in 1..BaseLines : l \in X
    BY <1>1
  <2>. HIDE DEF X
  <2>2. work \in Seq(X) /\ DOMAIN work = 1..BaseLines /\ \A l \in 1..BaseLines : work[l] = l
    BY <1>1, <2>1
  <2>. QED  BY <2>2 DEF WorkInv, Rising, X
<1>3. DOMAIN defs = {}
  BY <1>1
<1>. QED  BY <1>2, <1>3, FS_EmptySet DEF DefsInv

LEMMA InsertKeeps ==
  ASSUME NEW at, WorkInv, DefsInv, at \in 1..Len(work) + 1, InsertLine(at) PROVE WorkInv' /\ DefsInv'
<1>. DEFINE m == Len(work)
            X == 0..BaseLines
<1>1. work \in Seq(X) /\ m \in Nat /\ DOMAIN work = 1..m /\ 0 \in X
  BY MatchedAre, LinesParameters DEF WorkInv
<1>. HIDE DEF X, m
<1>2. work' = [l \in 1..m + 1 |-> IF l < at THEN work[l] ELSE IF l = at THEN 0 ELSE work[l - 1]]
  BY DEF InsertLine, m
<1>3. at \in 1..m + 1 /\ \A l \in 1..m : work[l] \in X
  BY <1>1 DEF m
<1>4. \A l \in 1..m + 1 : (l < at => l \in 1..m) /\ (~ (l < at) /\ l # at => l - 1 \in 1..m)
  BY <1>1, <1>3
<1>5. /\ work' \in Seq(X) /\ DOMAIN work' = 1..m + 1
      /\ \A l \in 1..m + 1 : work'[l] = IF l < at THEN work[l] ELSE IF l = at THEN 0 ELSE work[l - 1]
  <2>1. \A l \in 1..m + 1 : (IF l < at THEN work[l] ELSE IF l = at THEN 0 ELSE work[l - 1]) \in X
    BY <1>1, <1>3, <1>4
  <2>2. m + 1 \in Nat
    BY <1>1
  <2>. QED  BY <1>2, <2>1, <2>2
<1>6. ASSUME NEW i \in 1..m + 1, NEW j \in 1..m + 1, i < j, work'[i] # 0, work'[j] # 0
      PROVE  work'[i] < work'[j]
  <2>. DEFINE p(l) == IF l < at THEN l ELSE l - 1
  <2>1. \A l \in 1..m + 1 : work'[l] # 0 => l # at
    BY <1>5
  <2>2. i # at /\ j # at
    BY <1>6, <2>1
  <2>3. p(i) \in 1..m /\ p(j) \in 1..m /\ work'[i] = work[p(i)] /\ work'[j] = work[p(j)]
    BY <1>4, <1>5, <2>2
  <2>4. p(i) < p(j)
    BY <1>1, <1>3, <1>6, <2>2
  <2>. HIDE DEF p
  <2>. QED  BY <1>1, <1>6, <2>3, <2>4 DEF WorkInv, Rising
<1>7. WorkInv'
  BY <1>5, <1>6 DEF WorkInv, Rising, X
<1>8. DOMAIN defs = {} /\ defs' = defs /\ scanned' = scanned
  BY DEF InsertLine, DefsInv
<1>9. DefsInv'
  BY <1>8, FS_EmptySet DEF DefsInv
<1>. QED  BY <1>7, <1>9

LEMMA DropKeeps ==
  ASSUME NEW at, WorkInv, DefsInv, at \in Line, DropLine(at) PROVE WorkInv' /\ DefsInv'
<1>. DEFINE m == Len(work)
            X == 0..BaseLines
<1>1. work \in Seq(X) /\ m \in Nat /\ DOMAIN work = 1..m /\ at \in 1..m
  BY MatchedAre DEF WorkInv
<1>. HIDE DEF X, m
<1>2. work' = [l \in 1..m - 1 |-> IF l < at THEN work[l] ELSE work[l + 1]]
  BY DEF DropLine, m
<1>3. \A l \in 1..m : work[l] \in X
  BY <1>1 DEF m
<1>4. \A l \in 1..m - 1 : l \in 1..m /\ l + 1 \in 1..m
  BY <1>1
<1>5. /\ work' \in Seq(X) /\ DOMAIN work' = 1..m - 1
      /\ \A l \in 1..m - 1 : work'[l] = IF l < at THEN work[l] ELSE work[l + 1]
  <2>1. \A l \in 1..m - 1 : (IF l < at THEN work[l] ELSE work[l + 1]) \in X
    BY <1>3, <1>4
  <2>2. m - 1 \in Nat
    BY <1>1
  <2>. QED  BY <1>2, <2>1, <2>2
<1>6. ASSUME NEW i \in 1..m - 1, NEW j \in 1..m - 1, i < j, work'[i] # 0, work'[j] # 0
      PROVE  work'[i] < work'[j]
  <2>. DEFINE p(l) == IF l < at THEN l ELSE l + 1
  <2>1. p(i) \in 1..m /\ p(j) \in 1..m /\ work'[i] = work[p(i)] /\ work'[j] = work[p(j)]
    BY <1>4, <1>5
  <2>2. p(i) < p(j)
    BY <1>1, <1>6
  <2>. HIDE DEF p
  <2>. QED  BY <1>1, <1>6, <2>1, <2>2 DEF WorkInv, Rising
<1>7. WorkInv'
  BY <1>5, <1>6 DEF WorkInv, Rising, X
<1>8. DOMAIN defs = {} /\ defs' = defs /\ scanned' = scanned
  BY DEF DropLine, DefsInv
<1>9. DefsInv'
  BY <1>8, FS_EmptySet DEF DefsInv
<1>. QED  BY <1>7, <1>9

LEMMA ScanKeeps == ASSUME WorkInv, DefsInv, Scan PROVE WorkInv' /\ DefsInv'
<1>1. PICK ids \in SUBSET Defs : defs' \in [ids -> Nodes]
  BY DEF Scan
<1>2. work' = work /\ scanned'
  BY DEF Scan
<1>3. \A n \in Nodes : n \in Ranges /\ n.end \in 1..Len(work)
  <2>1. \A l \in Line : l \in Nat /\ l \in 1..Len(work)
    BY MatchedAre
  <2>. QED  BY <2>1 DEF Nodes, Interval, Ranges
<1>4. IsFiniteSet(ids) /\ DOMAIN defs' = ids
  BY <1>1, LinesParameters, FS_Subset
<1>5. DefsInv'
  BY <1>1, <1>2, <1>3, <1>4 DEF DefsInv
<1>. QED  BY <1>2, <1>5 DEF WorkInv, Rising

LEMMA LinesStep == ASSUME WorkInv, DefsInv, [LinesNext]_lineVars PROVE WorkInv' /\ DefsInv'
<1>1. CASE UNCHANGED lineVars
  BY <1>1 DEF lineVars, WorkInv, Rising, DefsInv
<1>2. CASE LinesNext
  BY <1>2, InsertKeeps, DropKeeps, ScanKeeps DEF LinesNext
<1>. QED  BY <1>1, <1>2

(* Whatever lines were put in and taken out, and whatever definitions the  *)
(* scan finds: the ranges `git diff` and gitctx name are the edit, and the *)
(* nodes they change those that own it (changedset.go:221-379,             *)
(* rounds.go:82-125).                                                      *)
THEOREM RangesAreTheEditAlways == LinesSpec => []RangesAreTheEdit
<1>1. LinesInit => WorkInv /\ DefsInv
  BY LinesStart
<1>2. WorkInv /\ DefsInv /\ [LinesNext]_lineVars => WorkInv' /\ DefsInv'
  BY LinesStep
<1>3. WorkInv /\ DefsInv => RangesAreTheEdit
  BY LinesOutsideAreKeptNow, RangesAreTightNow, OneOwnerNow, OtherDefsAreVerbatimNow DEF RangesAreTheEdit
<1>. QED  BY <1>1, <1>2, <1>3, PTL DEF LinesSpec
=============================================================================
