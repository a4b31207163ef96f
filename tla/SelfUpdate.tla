------------------------------ MODULE SelfUpdate ------------------------------
(***************************************************************************)
(* `rtdd update` (internal/selfupdate) and the npx installer               *)
(* (installer/index.js): processes that download a release, check it       *)
(* against its checksums and put it where the installed binary is, each    *)
(* through a file of its own.  Releases are published and their two files  *)
(* replaced meanwhile, and any process may be killed.                      *)
(*                                                                         *)
(* A file is named by who made it: a process its staged one, "first" what  *)
(* was there.  On Windows a file that runs cannot be removed or replaced,  *)
(* only renamed.                                                           *)
(***************************************************************************)
EXTENDS Naturals, FiniteSets, Sentinels

CONSTANTS
  Updater,
  MaxTag,     \* releases, a later one the greater number
  MaxBuild,   \* how often the files of a release are built
  Torn

VARIABLES
  windows,
  latest,     \* the latest release's tag
  served,     \* tag -> [archive, sums]: the build each is of
  holds,      \* file -> None, Torn, or the [tag, build] in it
  target, old,\* the files at the two names, None if there is none
  proc,       \* process -> [pc, kind, tag, image, archive, sums]
  stranded    \* a process died with the target moved away, and it still is

updateVars == <<windows, latest, served, holds, target, old, proc, stranded>>

Place == Updater \cup {"first"}
Tag == 1..MaxTag
Build == 1..MaxBuild
ASSUME UpdateParameters ==
  /\ MaxTag \in Nat \ {0} /\ MaxBuild \in Nat \ {0}
  /\ None \notin Place /\ "first" \notin Updater
  /\ Torn \notin Build /\ None \notin Build /\ None \notin Tag
  /\ None \notin {"update", "install"}

Ended == {"idle", "current", "updated", "failed", "killed"}
Runs(f) == \E p \in Updater : proc[p].pc \notin Ended /\ proc[p].image = f
Started(pc, kind, tag, image) ==
  [pc |-> pc, kind |-> kind, tag |-> tag, image |-> image, archive |-> None, sums |-> None]
Idle == Started("idle", None, None, None)

\* A file can be taken off its name, or another put there.
Free(f) == f = None \/ ~(windows /\ Runs(f))

UpdateInit ==
  /\ windows \in BOOLEAN
  /\ latest = 1 /\ served = [t \in Tag |-> [archive |-> 1, sums |-> 1]]
  /\ holds = [f \in Place |-> IF f = "first" THEN [tag |-> 1, build |-> 1] ELSE None]
  /\ target = "first" /\ old = None
  /\ proc = [p \in Updater |-> Idle] /\ stranded = FALSE

At(p, pc) == proc[p].pc = pc
Goto(p, pc) ==
  proc' = [proc EXCEPT ![p] = IF pc \in Ended THEN Started(pc, None, None, None) ELSE [proc[p] EXCEPT !.pc = pc]]
NoFiles == UNCHANGED <<windows, latest, served, holds, target, old, stranded>>
\* An update that returns removes its staged file, if it still is one.
Fails(p) ==
  /\ Goto(p, "failed")
  /\ holds' = IF p \in {target, old} \/ proc[p].kind = "install" THEN holds ELSE [holds EXCEPT ![p] = None]

\* The project publishes the next release, or builds one anew: the archive is
\* uploaded, then the checksums.
Publish ==
  /\ latest < MaxTag /\ latest' = latest + 1
  /\ UNCHANGED <<windows, served, holds, target, old, proc, stranded>>
UploadArchive(t) ==
  /\ served[t].archive = served[t].sums /\ served[t].archive < MaxBuild
  /\ served' = [served EXCEPT ![t] = [archive |-> served[t].archive + 1, sums |-> served[t].sums]]
  /\ UNCHANGED <<windows, latest, holds, target, old, proc, stranded>>
UploadSums(t) ==
  /\ served[t].archive # served[t].sums
  /\ served' = [served EXCEPT ![t] = [archive |-> served[t].archive, sums |-> served[t].archive]]
  /\ UNCHANGED <<windows, latest, holds, target, old, proc, stranded>>

\* An update of the running binary to the latest release, or to a named tag.
NewerThanRuns(t) == t > holds[target].tag
StartUpdate(p, pinned) ==
  LET t == IF pinned = None THEN latest ELSE pinned
  IN  /\ At(p, "idle") /\ target # None
      /\ proc' = [proc EXCEPT ![p] =
           IF pinned = None /\ ~NewerThanRuns(t) THEN Started("current", None, None, None)
           ELSE Started("stage", "update", t, target)]
      /\ NoFiles
Stage(p) ==
  /\ At(p, "stage") /\ Goto(p, "fetch") /\ holds' = [holds EXCEPT ![p] = Torn]
  /\ UNCHANGED <<windows, latest, served, target, old, stranded>>
\* The installer runs under Node, not under the binary it replaces.
StartInstall(p, t) ==
  /\ At(p, "idle") /\ t <= latest
  /\ proc' = [proc EXCEPT ![p] = Started("fetch", "install", t, None)]
  /\ NoFiles

\* What arrives may be damaged.  The installer asks for both at once.
FetchArchive(p) ==
  /\ At(p, "fetch") /\ proc[p].archive = None
  /\ \E body \in {served[proc[p].tag].archive, Torn} : proc' = [proc EXCEPT ![p].archive = body]
  /\ NoFiles
FetchSums(p) ==
  /\ At(p, "fetch") /\ proc[p].sums = None
  /\ proc[p].kind = "update" => proc[p].archive # None
  /\ proc' = [proc EXCEPT ![p].sums = served[proc[p].tag].sums]
  /\ NoFiles
VerifyArrived(p) == proc[p].archive # Torn
Verify(p) == proc[p].archive = proc[p].sums
WriteStaged(p) ==
  /\ At(p, "fetch") /\ None \notin {proc[p].archive, proc[p].sums} /\ Verify(p)
  /\ Goto(p, "write") /\ holds' = [holds EXCEPT ![p] = Torn]
  /\ UNCHANGED <<windows, latest, served, target, old, stranded>>
\* The installer's one rename is also Go's, but on Windows.
InOneRenameIfInstalled(p) == ~windows /\ proc[p].kind = "install"
InOneRename(p) == ~windows \/ proc[p].kind = "install"
Close(p) ==
  /\ At(p, "write") /\ Goto(p, IF InOneRename(p) THEN "rename" ELSE "aside")
  /\ holds' = [holds EXCEPT ![p] =
       [tag |-> proc[p].tag, build |-> proc[p].archive]]
  /\ UNCHANGED <<windows, latest, served, target, old, stranded>>
Rename(p) ==
  /\ At(p, "rename") /\ Free(target) /\ Goto(p, "updated") /\ target' = p /\ stranded' = FALSE
  /\ UNCHANGED <<windows, latest, served, holds, old>>

\* swap, on Windows.
RemoveOld(p) ==
  /\ At(p, "aside") /\ Goto(p, "away") /\ old' = IF Free(old) THEN None ELSE old
  /\ UNCHANGED <<windows, latest, served, holds, target, stranded>>
MoveAside(p) ==
  /\ At(p, "away") /\ (target # None => Free(old)) /\ Goto(p, "in")
  /\ IF target = None THEN UNCHANGED <<target, old>> ELSE old' = target /\ target' = None
  /\ UNCHANGED <<windows, latest, served, holds, stranded>>
MoveIn(p) ==
  /\ At(p, "in") /\ Free(target) /\ Goto(p, "sweep") /\ target' = p /\ stranded' = FALSE
  /\ UNCHANGED <<windows, latest, served, holds, old>>
\* The new binary cannot be renamed: it is held by something, or the old is back.
CannotMoveIn(p) == At(p, "in") /\ Goto(p, "back") /\ NoFiles
LeaveAway(p) == At(p, "back") /\ Fails(p) /\ UNCHANGED <<windows, latest, served, target, old, stranded>>
PutBack(p) ==
  /\ At(p, "back") /\ Fails(p)
  /\ IF old # None /\ Free(target) THEN target' = old /\ old' = None /\ stranded' = FALSE
     ELSE UNCHANGED <<target, old, stranded>>
  /\ UNCHANGED <<windows, latest, served>>
Sweep(p) ==
  /\ At(p, "sweep") /\ Goto(p, "updated") /\ old' = IF Free(old) THEN None ELSE old
  /\ UNCHANGED <<windows, latest, served, holds, target, stranded>>

\* Any step but the swap's own may fail: no space, no network, a bad checksum,
\* a rename onto a file that runs.
Fail(p) ==
  /\ proc[p].pc \in {"stage", "fetch", "write", "rename", "aside", "away"} /\ Fails(p)
  /\ UNCHANGED <<windows, latest, served, target, old, stranded>>
Kill(p) ==
  /\ proc[p].pc \notin Ended /\ Goto(p, "killed")
  /\ stranded' = (stranded \/ proc[p].pc \in {"in", "back"})
  /\ UNCHANGED <<windows, latest, served, holds, target, old>>

UpdateNext ==
  \/ Publish \/ \E t \in Tag : UploadArchive(t) \/ UploadSums(t)
  \/ \E p \in Updater :
       \/ \E pinned \in (1..latest) \cup {None} : StartUpdate(p, pinned)
       \/ \E t \in Tag : StartInstall(p, t)
       \/ Stage(p) \/ FetchArchive(p) \/ FetchSums(p) \/ WriteStaged(p) \/ Close(p) \/ Rename(p)
       \/ RemoveOld(p) \/ MoveAside(p) \/ MoveIn(p) \/ CannotMoveIn(p) \/ PutBack(p) \/ Sweep(p)
       \/ Fail(p) \/ Kill(p)
UpdateSpec == UpdateInit /\ [][UpdateNext]_updateVars
-----------------------------------------------------------------------------
Names == {target, old} \ {None}
UpdateTypeOK ==
  /\ Names \subseteq Place /\ windows \in BOOLEAN /\ latest \in Tag
  /\ served \in [Tag -> [archive : Build, sums : Build]]
  /\ old # None => windows /\ old # target

(* What is at the installed name, or was moved off it, is always a whole   *)
(* binary its release's checksums vouched for, whatever was replaced,      *)
(* damaged or killed.  (update.go:122-156, index.js:90-110)                *)
InstalledIsVouchedFor ==
  \A f \in Names : holds[f] \in [tag : Tag, build : Build] /\ holds[f].build <= served[holds[f].tag].sums

(* There is a binary at the installed name, unless a process is between    *)
(* its two renames or was killed there; and then the one it moved away is  *)
(* still beside it.  (update.go:183-203)                                   *)
NeverUninstalled ==
  /\ Names # {}
  /\ target = None => stranded \/ \E p \in Updater : proc[p].pc \in {"in", "back"}
=============================================================================
