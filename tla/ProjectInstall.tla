--------------------------- MODULE ProjectInstall ---------------------------
(***************************************************************************)
(* `rtdd init`, `rtdd uninstall` and `rtdd uninstall --legacy-files` in one *)
(* repository (internal/install, cmd/rtdd/init.go, cmd/rtdd/uninstall.go). *)
(*                                                                         *)
(* Each command reads the tree into a plan, a list of steps with whole     *)
(* file contents, and then carries the steps out one by one.  It can fail  *)
(* or be killed before any of them, and be run again.  Most of the files   *)
(* belong to the user, who edits them between commands.                    *)
(*                                                                         *)
(* A file is a sequence of tokens that stand for what the commands look    *)
(* for in it: rtdd's markers, one key of the config, one line of an ignore *)
(* file; the rest is the user's prose.  Steps that change nothing are left *)
(* out of the plans.  The machine-wide skill, which the commands also keep,*)
(* is not part of this module.                                             *)
(***************************************************************************)
EXTENDS Integers, Sequences, FiniteSets, BlockMerge, Sentinels

CONSTANTS
  FrontEnds,    \* the whole-file front-ends, in the order of their paths
  Beside,       \* [those alone in a directory called rtdd -> a file of the
                \* user's in that directory]
  UserLevel,    \* those whose path is also a user-level install's
  AgentFiles,   \* legacySharedFiles: AGENTS.md and CLAUDE.md
  Shared,       \* the files an --append-to may name, these among them
  Options,      \* the options init is run with: [skill, append]
  Worlds,       \* where rtdd may find itself: [atHome: whether the repository
                \* is the user's home directory, files: the tree]
  MaxEdits,     \* how many words of prose the user adds
  Torn          \* the files that a kill inside their write may leave empty

Config == ".rtdd/config.yaml"
Ignore == ".rtdd/.gitignore"
State == ".rtdd/map.jsonl"      \* stands for all of v02Files
Attributes == ".gitattributes"
RootIgnore == ".gitignore"

FrontEnd == {FrontEnds[i] : i \in DOMAIN FrontEnds}

OwnDir == DOMAIN Beside

RtddDir == {Config, Ignore, State}
Path == RtddDir \cup {Attributes, RootIgnore} \cup FrontEnd \cup Shared
        \cup {Beside[f] : f \in OwnDir}

\* protocol.Generated, OptInMarker, and what an old or this rtdd renders.
Generated == "generated"
OptIn == "opted in"
Body == {"old render", "new render"}

Prose == "prose"
V02Key == "v0.2 key"       \* a config key only v0.2 read
Key == "v0.3 key"          \* one v0.3.0 reads
GraphLine == "graph.json"
MapLine == "map.jsonl merge=union"

FrontEndNow == <<Generated, OptIn, "new render">>
Block == <<BeginMarker, OptIn, "new render", EndMarker, Newline>>

Told == {Generated, OptIn, Prose, V02Key, Key, GraphLine, MapLine,
         BeginMarker, EndMarker, Newline} \cup Body
ASSUME ToldAreTokens == Told \subseteq Token

ASSUME OptionsAreOptions ==
  \A o \in Options :
    o.skill \in BOOLEAN /\ o.append \in Seq(Shared \cup {"../outside"})

\* The files are told apart by their paths, and a kill tears only what is
\* rtdd's outright.
ASSUME PathsAreApart ==
  /\ FrontEnds \in Seq(FrontEnd) /\ AgentFiles \in Seq(Shared) /\ OwnDir \subseteq FrontEnd
  /\ LET kinds == <<RtddDir, {Attributes, RootIgnore}, FrontEnd, Shared,
                    {Beside[f] : f \in OwnDir}, {"../outside", ".rtdd/"}>>
     IN  \A i, j \in DOMAIN kinds : i # j => kinds[i] \cap kinds[j] = {}
  /\ Torn \subseteq RtddDir \cup FrontEnd
  /\ MaxEdits \in Nat

\* rtdd's marks are where rtdd puts them, and in what is rtdd's, a rendered
\* front-end or a block, there is no word of the user's.
MarksBelong(p, doc) ==
  /\ Has(doc, Generated) => p \in FrontEnd /\ ~ Has(doc, Prose)
  /\ Has(doc, OptIn) => p \in FrontEnd \cup Shared
  /\ Unmarked(doc) \/ p \in Shared
  /\ Marked(doc) => ~ Has(BlockOf(doc), Prose)
  /\ Has(doc, MapLine) => p = Attributes

ASSUME WorldsAreTyped ==
  \A w \in Worlds :
    /\ w.atHome \in BOOLEAN /\ w.files \in [Path -> Seq(Token) \cup {None}]
    /\ \A p \in Path : w.files[p] # None => MarksBelong(p, w.files[p])
ASSUME NoneIsNoFile == None \notin Seq(Token)

VARIABLES
  atHome,   \* the repository is the home directory; it never changes
  files,    \* the tree: path -> tokens or None
  prose,    \* path -> how many words of the user's are in it
  edits,    \* how many words the user has added
  run       \* the command that runs or ran last, and the steps it has left

user == <<prose, edits>>
vars == <<atHome, files, user, run>>

NoRun == [cmd |-> "none", options |-> None, steps |-> <<>>,
          before |-> None, exit |-> "none"]

Running == run.exit = "running"

-----------------------------------------------------------------------------
(* Steps and plans *)

Write(p, doc) == <<[path |-> p, do |-> "write", doc |-> doc]>>
Delete(p) == <<[path |-> p, do |-> "delete", doc |-> None]>>
DeleteDir(p) == <<[path |-> p, do |-> "delete directory", doc |-> None]>>
Conflict(p) == <<[path |-> p, do |-> "conflict", doc |-> None]>>

Conflicts(steps) == \E i \in DOMAIN steps : steps[i].do = "conflict"

Holds(p, token) == files[p] # None /\ Has(files[p], token)

\* A file whose rtdd line goes, and the file with it if that was all.
WithoutLine(p, line) ==
  IF ~ Holds(p, line) THEN <<>>
  ELSE IF Blank(RemoveLine(files[p], line)) THEN Delete(p)
  ELSE Write(p, RemoveLine(files[p], line))

WithoutBlockFile(p) == IF Holds(p, BeginMarker) THEN Delete(p) ELSE <<>>

\* The same for rtdd's block.
WithoutBlock(p) ==
  IF files[p] = None THEN <<>>
  ELSE IF Conflicted(files[p]) THEN Conflict(p)
  ELSE IF Unmarked(files[p]) THEN <<>>
  ELSE IF Blank(RemoveBlock(files[p])) THEN Delete(p)
  ELSE Write(p, RemoveBlock(files[p]))

\* One plan after another, one for each element of a sequence.
ForEach(seq, Plan(_)) == Joined([i \in DOMAIN seq |-> Plan(seq[i])])

\* A user-level install in the home directory is another command's.
Kept(f) == atHome /\ f \in UserLevel

PlanIgnoreMissingOnly ==
  IF files[Ignore] = None THEN Write(Ignore, <<GraphLine>>) ELSE <<>>

\* planRtddGitignore.
PlanIgnore ==
  IF files[Ignore] = None THEN Write(Ignore, <<GraphLine>>)
  ELSE IF Has(files[Ignore], GraphLine) THEN <<>>
  ELSE Write(Ignore, Append(files[Ignore], GraphLine))

-----------------------------------------------------------------------------
(* init *)

\* What v0.2 left, then .rtdd/.
PlanMigration ==
  (IF files[State] # None THEN Delete(State) ELSE <<>>)
  \o WithoutLine(Attributes, MapLine)

IsV02(doc) == Has(doc, V02Key) /\ ~ Has(doc, Key)

PlanConfig ==
  IF files[Config] = None \/ IsV02(files[Config]) THEN Write(Config, <<Key>>)
  ELSE <<>>

\* A front-end rtdd rendered is refreshed, one it did not is a conflict.
PlanFrontEnd(f) ==
  IF Kept(f) \/ files[f] = FrontEndNow THEN <<>>
  ELSE IF files[f] = None \/ Holds(f, Generated) THEN Write(f, FrontEndNow)
  ELSE Conflict(f)

PlanAppend(p) ==
  LET existing == IF files[p] = None THEN <<>> ELSE files[p]
  IN IF p \notin Shared \/ Conflicted(existing) THEN Conflict(p)
     ELSE IF MergeBlock(existing, Block) = existing THEN <<>>
     ELSE Write(p, MergeBlock(existing, Block))

PlanInit(o) ==
  PlanMigration \o PlanConfig \o PlanIgnore
  \o (IF o.skill THEN ForEach(FrontEnds, PlanFrontEnd) ELSE <<>>)
  \o ForEach(o.append, PlanAppend)

-----------------------------------------------------------------------------
(* uninstall *)

\* A rendered front-end goes, and its directory when nothing else is in it.
AloneAnywhere(f) == f \in OwnDir => files[Beside[f]] = None

Alone(f) == f \in OwnDir /\ files[Beside[f]] = None

RemoveFrontEnd(f) ==
  IF Kept(f) \/ ~ Holds(f, Generated) THEN <<>>
  ELSE Delete(f) \o (IF Alone(f) THEN DeleteDir(f) ELSE <<>>)

PlanUninstall(state) ==
  ForEach(FrontEnds, RemoveFrontEnd)
  \o ForEach(AgentFiles, WithoutBlock)
  \o WithoutLine(Attributes, MapLine)
  \o (IF state /\ \E p \in RtddDir : files[p] # None
        THEN <<[path |-> ".rtdd/", do |-> "delete directory", doc |-> None]>>
        ELSE <<>>)

-----------------------------------------------------------------------------
(* uninstall --legacy-files: what nobody opted into *)

LegacyFrontEnd(f) ==
  IF Kept(f) \/ ~ Holds(f, Generated) \/ Holds(f, OptIn) THEN <<>>
  ELSE IF Alone(f) THEN DeleteDir(f)
  ELSE Delete(f)

LegacyBlock(p) == IF Holds(p, OptIn) THEN <<>> ELSE WithoutBlock(p)

\* The graph cache is ignored from inside .rtdd/ before the root's line goes.
LegacyLineRootFirst ==
  IF Holds(RootIgnore, GraphLine)
    THEN WithoutLine(RootIgnore, GraphLine) \o PlanIgnore ELSE <<>>

LegacyLine ==
  IF Holds(RootIgnore, GraphLine)
    THEN PlanIgnore \o WithoutLine(RootIgnore, GraphLine) ELSE <<>>

PlanLegacy ==
  ForEach(FrontEnds, LegacyFrontEnd)
  \o ForEach(AgentFiles, LegacyBlock)
  \o LegacyLine

-----------------------------------------------------------------------------
(* The commands *)

\* init and --legacy-files look for a conflict before they write.
RefusesConflict(cmd) == cmd \in {"init", "legacy"}

Command(cmd, options, steps) ==
  /\ ~ Running
  /\ run' = [cmd |-> cmd, options |-> options, before |-> files,
             steps |-> steps,
             exit |-> IF RefusesConflict(cmd) /\ Conflicts(steps)
                        THEN "conflict" ELSE "running"]
  /\ UNCHANGED <<atHome, files, user>>

RunInit(o) == Command("init", o, PlanInit(o))
RunUninstall(state) == Command("uninstall", state, PlanUninstall(state))
RunLegacy == Command("legacy", None, PlanLegacy)

\* os.RemoveAll of a directory.
InDir(d) == IF d = ".rtdd/" THEN RtddDir ELSE {d, Beside[d]}

Carry(s) ==
  CASE s.do = "write" -> files' = [files EXCEPT ![s.path] = s.doc]
    [] s.do = "delete" -> files' = [files EXCEPT ![s.path] = None]
    [] s.do = "delete directory" ->
         files' = [p \in Path |-> IF p \in InDir(s.path) THEN None ELSE files[p]]

\* Apply and ApplyUninstall, one step.
DoStep ==
  /\ Running /\ run.steps # <<>>
  /\ Head(run.steps).do # "conflict"
  /\ Carry(Head(run.steps))
  /\ run' = [run EXCEPT !.steps = Tail(@)]
  /\ UNCHANGED <<atHome, user>>

MeetConflict ==
  /\ Running /\ run.steps # <<>>
  /\ Head(run.steps).do = "conflict"
  /\ run' = [run EXCEPT !.exit = "conflict"]
  /\ UNCHANGED <<atHome, files, user>>

Succeed ==
  /\ Running /\ run.steps = <<>>
  /\ run' = [run EXCEPT !.exit = "ok"]
  /\ UNCHANGED <<atHome, files, user>>

\* A step fails, or the process is killed before it or in
\* a write.
Fail ==
  /\ Running
  /\ run' = [run EXCEPT !.exit = "failed"]
  /\ \/ UNCHANGED files
     \/ /\ run.steps # <<>>
        /\ Head(run.steps).do = "write"
        /\ Head(run.steps).path \in Torn
        /\ files' = [files EXCEPT ![Head(run.steps).path] = <<>>]
  /\ UNCHANGED <<atHome, user>>

-----------------------------------------------------------------------------
(* The user *)

\* Files that are not rtdd's outright.
Users == Path \ (RtddDir \cup {f \in FrontEnd : Holds(f, Generated)})

Words(p) ==
  IF files[p] = None THEN 0
  ELSE Cardinality(Places(files[p], Prose))

\* What a step is going to write or delete.
Target(s) == IF s.do = "delete directory" THEN InDir(s.path) ELSE {s.path}

\* The user writes a word at the top of one of his files, though not of one
\* that a running command has read and is still to write: Apply writes back
\* what it read, and the word would be lost.
Edit(p) ==
  /\ Running => \A i \in DOMAIN run.steps : p \notin Target(run.steps[i])
  /\ p \in Users /\ edits < MaxEdits
  /\ files' = [files EXCEPT ![p] =
                 <<Prose>> \o IF files[p] = None THEN <<>> ELSE files[p]]
  /\ prose' = [prose EXCEPT ![p] = @ + 1]
  /\ edits' = edits + 1
  /\ run' = IF Running THEN run ELSE NoRun
  /\ UNCHANGED atHome

-----------------------------------------------------------------------------

Init ==
  /\ \E w \in Worlds :
       /\ atHome = w.atHome
       /\ files = w.files
  /\ prose = [p \in Path |-> Words(p)]
  /\ edits = 0
  /\ run = NoRun

Next ==
  \/ \E o \in Options : RunInit(o)
  \/ \E state \in BOOLEAN : RunUninstall(state)
  \/ RunLegacy
  \/ DoStep \/ MeetConflict \/ Succeed \/ Fail
  \/ \E p \in Path : Edit(p)

Spec == Init /\ [][Next]_vars

-----------------------------------------------------------------------------
(* Properties *)

TypeOK ==
  /\ atHome \in BOOLEAN
  /\ files \in [Path -> Seq(Token) \cup {None}]
  /\ prose \in [Path -> Nat] /\ edits \in 0..MaxEdits
  /\ run.exit \in {"none", "running", "ok", "conflict", "failed"}
  /\ \A i \in DOMAIN run.steps :
       run.steps[i].do = "write" => /\ run.steps[i].path \in Path
                                    /\ run.steps[i].doc \in Seq(Token)
  /\ \A i \in DOMAIN run.steps :
       run.steps[i].do = "delete directory" =>
         run.steps[i].path \in OwnDir \cup {".rtdd/"}

\* No command, whatever ran before it and wherever it failed, loses or repeats
\* a word of the user's: not in a shared file, not in one of his where a
\* front-end would go, not beside one ("never touches a byte outside them",
\* install.go:69).
UserTextKept == \A p \in Path \ RtddDir : Words(p) = prose[p]

\* An init that says it succeeded has left all it was asked for, also over the
\* remains of runs that failed, and running it again plans nothing.
InitDelivers ==
  run.cmd = "init" /\ run.exit = "ok" =>
    /\ files[State] = None /\ ~ Holds(Attributes, MapLine)
    /\ files[Config] # None /\ ~ IsV02(files[Config])
    /\ Holds(Ignore, GraphLine)
    /\ run.options.skill =>
         \A f \in FrontEnd : ~ Kept(f) => files[f] = FrontEndNow
    /\ \A i \in DOMAIN run.options.append :
         LET doc == files[run.options.append[i]]
         IN Marked(doc) /\ BlockOf(doc) = Block
    /\ PlanInit(run.options) = <<>>

\* An uninstall that says it succeeded has left nothing of rtdd's in the
\* repository but .rtdd/ and a block in a file that only an --append-to named,
\* and not .rtdd/ either when asked (cmd/rtdd/uninstall.go:27).
UninstallTakesBack ==
  run.cmd = "uninstall" /\ run.exit = "ok" =>
    /\ \A p \in Path \ RtddDir :
         Holds(p, Generated) \/ Holds(p, MapLine) => Kept(p)
    /\ \A i \in DOMAIN AgentFiles : ~ Holds(AgentFiles[i], BeginMarker)
    /\ run.options => \A p \in RtddDir : files[p] = None

\* --legacy-files takes everything nobody opted into, and a second one finds
\* nothing.
LegacyTakesAll ==
  run.cmd = "legacy" /\ run.exit = "ok" =>
    /\ \A f \in FrontEnd :
         Holds(f, Generated) => Kept(f) \/ Holds(f, OptIn)
    /\ \A i \in DOMAIN AgentFiles :
         Holds(AgentFiles[i], BeginMarker) => Holds(AgentFiles[i], OptIn)
    /\ PlanLegacy = <<>>

\* --legacy-files never changes a file somebody opted into ("is never reported
\* or removed as legacy", install.go:32).
OptInKept ==
  [][ DoStep /\ run.cmd = "legacy" =>
        \A p \in Path : Holds(p, OptIn) => files'[p] = files[p] ]_files

\* Once git ignores the graph cache no command, half done or done, exposes it
\* while there is a .rtdd/ to hold it.
Ignored == Holds(Ignore, GraphLine) \/ Holds(RootIgnore, GraphLine)

StillIgnored ==
  [][ Ignored => Ignored' \/ \A p \in RtddDir : files'[p] = None ]_files

\* In the home directory no command but `skill` touches what `skill install`
\* wrote.
UserLevelKept ==
  [][ \A f \in FrontEnd :
        Kept(f) /\ Holds(f, Generated) => files'[f] = files[f] ]_files

\* "a conflict stops the whole run before anything is written"
\* (cmd/rtdd/uninstall.go:36).
ConflictStopsBeforeWriting == run.exit = "conflict" => files = run.before

\* A command that says it succeeded did all it was asked, and would find nothing
\* left to do (install.go, uninstall.go, legacy.go).
SuccessIsComplete == InitDelivers /\ UninstallTakesBack /\ LegacyTakesAll

\* What no command may take, at no step of it: what somebody opted into, the
\* line that keeps the cache out of git, and the user-level skill.
OthersKept == OptInKept /\ StillIgnored /\ UserLevelKept
=============================================================================
