-------------------------- MODULE MCProjectInstall --------------------------
(***************************************************************************)
(* ProjectInstall on a few files: two front-ends, one of them in rtdd's own *)
(* directory, and a shared file.  What a world does not vary is as a v0.3  *)
(* init leaves it.                                                         *)
(***************************************************************************)
EXTENDS ProjectInstall, SharedFile

MCToken == Told \cup Wording

Skill == ".claude/skills/rtdd/SKILL.md"
Rule == ".cursor/rules/rtdd.mdc"
Agents == "AGENTS.md"
Notes == ".claude/skills/rtdd/notes.md"

MCFrontEnds == <<Skill, Rule>>
MCBeside == [f \in {Skill} |-> Notes]
MCAgentFiles == <<Agents>>

\* A front-end an older init rendered, and one an older opt-in rendered.
OldFrontEnd == <<Generated, "old render">>
OldOptIn == <<Generated, OptIn, "old render">>
OldBlock == <<BeginMarker, "old render", EndMarker, Newline>>

FrontEndStarts == {None, <<Prose>>, OldFrontEnd, OldOptIn}
SharedStarts ==
  {None, <<Prose, Newline>>, OldBlock, <<Prose>> \o OldBlock \o <<Prose>>,
   <<Prose, BeginMarker, "old render">>, <<Prose, Newline>> \o Block}

\* A v0.3 repository with nothing of rtdd's outside .rtdd/.
Plain == [p \in Path |-> CASE p = Config -> <<Key>>
                           [] p = Ignore -> <<GraphLine>>
                           [] OTHER -> None]

Repository(tree) == [atHome |-> FALSE, files |-> tree]
Home(tree) == [atHome |-> TRUE, files |-> tree]

\* The whole-file front-ends, of every origin.
FrontEndTrees ==
  {[Plain EXCEPT ![Skill] = skill, ![Rule] = rule, ![Notes] = notes] :
     skill \in FrontEndStarts, rule \in {None, OldFrontEnd},
     notes \in {None, <<Prose>>}}

\* The files rtdd shares with the user, and what older versions left: v0.2
\* its config, its map and a line of .gitattributes, an early v0.3 a line of
\* the root's .gitignore.
SharedTrees ==
  {[Plain EXCEPT ![Agents] = agents] : agents \in SharedStarts}
  \cup
  {[Plain EXCEPT ![Ignore] = None, ![RootIgnore] = <<Prose, GraphLine>>],
   [Plain EXCEPT ![Ignore] = <<Prose>>, ![RootIgnore] = <<GraphLine>>]}
  \cup
  {[Plain EXCEPT ![Config] = config, ![Ignore] = None, ![State] = state,
                 ![Attributes] = attributes] :
     config \in {None, <<V02Key>>, <<V02Key, Key>>}, state \in {None, <<Key>>},
     attributes \in {None, <<MapLine>>, <<Prose, MapLine>>}}

FewTrees ==
  {[Plain EXCEPT ![Skill] = skill, ![Agents] = agents] :
     skill \in {None, OldFrontEnd}, agents \in SharedStarts}

AllWorlds ==
  {Repository(t) : t \in FrontEndTrees \cup SharedTrees}
    \cup {Home(t) : t \in {u \in FrontEndTrees : u[Rule] = None /\ u[Notes] = None}}
FewWorlds == {Repository(t) : t \in FewTrees}

MCOptions ==
  [skill : {FALSE}, append : {<<>>, <<Agents>>, <<"../outside">>}]
    \cup [skill : {TRUE}, append : {<<>>}]
Owned == RtddDir \cup FrontEnd

-----------------------------------------------------------------------------
(* Beside it, in a repository of its own, one shared file with anything in *)
(* it: SharedFile's machine.                                               *)

VARIABLE half

Tree == "tree"
File == "file"
treeVars == <<atHome, files, prose, edits, run>>

BothInit ==
  \/ /\ half = Tree /\ Init
     /\ doc = <<BeginMarker>> /\ was = <<>> /\ merged = FALSE
  \/ /\ half = File /\ FileInit
     /\ atHome = FALSE /\ files = Plain /\ prose = [p \in Path |-> 0]
     /\ edits = 0 /\ run = NoRun

BothNext ==
  \/ half = Tree /\ Next /\ UNCHANGED <<half, fileVars>>
  \/ half = File /\ FileNext /\ UNCHANGED <<half, treeVars>>

BothSpec == BothInit /\ [][BothNext]_<<half, treeVars, fileVars>>
=============================================================================
